---------------------------- MODULE MCShaEngine ----------------------------
(* TLC instance of ShaEngine: a digest is the pair of what was compressed. *)
EXTENDS ShaEngine

PairSha(h, m) == <<h, m>>
=============================================================================
