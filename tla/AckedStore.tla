----------------------------- MODULE AckedStore -----------------------------
(***************************************************************************)
(* What the settings promise their user: a setting that was answered       *)
(* "saved" is in the flash, it is what the program works with, and both    *)
(* stay so until another save begins to write that field.                  *)
(*                                                                         *)
(* A save changes the flash one field at a time; a field it has written is *)
(* open until a save of it is answered, also when the save was refused or  *)
(* power failed.  The answer names some fields and says of each what the   *)
(* flash holds.  Boot reads every field back.                              *)
(*                                                                         *)
(* Settings implements this specification, whatever fails                  *)
(* (theorem SettingsProofs!StoreImplemented).                              *)
(***************************************************************************)
CONSTANT Fields

VARIABLES flash,  \* what is stored, by field
          told,   \* what the user was last told is stored, by field
          used,   \* what the program works with, by field
          open,   \* the fields written and not answered for since
          up      \* whether this boot has read the flash

vars == <<flash, told, used, open, up>>

\* Two copies agree but for some fields.
Same(rec, other, but) == \A k \in Fields \ but : other[k] = rec[k]

Shaped == DOMAIN flash = Fields /\ DOMAIN told = Fields /\ DOMAIN used = Fields

Init == /\ Shaped
        /\ told = flash /\ used = flash
        /\ open = {} /\ up = FALSE

\* One field of the flash is written; the program may take it over at once, or later
\* together with others that are still open.
Write(k) == /\ up /\ open' = open \cup {k}
            /\ Same(flash, flash', {k})
            /\ \A j \in Fields : used'[j] = used[j] \/ (j \in open' /\ used'[j] = flash'[j])
            /\ UNCHANGED <<told, up>>

\* The user is told that the fields of S are saved: they are, and the program has
\* taken them over.
Answer(S) == /\ up /\ open' = open \ S
             /\ Same(told, told', S)
             /\ \A k \in S : told'[k] = flash[k] /\ used[k] = flash[k]
             /\ UNCHANGED <<flash, used, up>>

Boot == /\ ~up /\ up' = TRUE
        /\ used' = flash
        /\ UNCHANGED <<flash, told, open>>

\* Power fails or the board restarts, also in the middle of a save.
Down == /\ up /\ up' = FALSE
        /\ UNCHANGED <<flash, told, used, open>>

Next == /\ \/ \E k \in Fields : Write(k)
           \/ \E S \in SUBSET Fields : Answer(S)
           \/ Boot \/ Down
        /\ Shaped'

Spec == Init /\ [][Next]_vars
=============================================================================
