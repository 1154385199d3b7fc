CONSTANTS
  Sockets = {s1, s2}
  b1 = b1
  b2 = b2
  Blocks <- MCBlocks
  NoBlock = NoBlock
  Height <- MCHeight
  MaxPending = 1
SPECIFICATION Spec
INVARIANTS SignalsTypeOK DeletedOnce ListedAreTold
PROPERTIES GoneIsForgotten RequestersCatchUp
