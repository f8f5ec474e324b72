\* Four peers and room for two keys: a peer is forgotten, used again, and
\* pushes out another, in every order of seven calls.
CONSTANTS
  Peers = {alice, bob, carol, dave}
  CacheSize = 2
  MaxCalls = 7
SPECIFICATION SignerSpec
SYMMETRY Symmetry
INVARIANT KeptAreMostRecent
