CONSTANTS
  p1 = p1
  p2 = p2
  h1 = h1
  Own = Own
  NoHost = NoHost
  Peers = {p1, p2}
  Hosts = {Own, h1}
  Cap = 2
  MaxFailures = 1
SPECIFICATION PeersSpec
INVARIANT
  StaysOff
PROPERTY
  SelfStays
