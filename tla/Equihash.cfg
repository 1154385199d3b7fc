CONSTANTS
  K = 2
  ByteBits = 2
  WordBits = 4
  BitLen = 3
  Bits = {1}
  Hashes <- MCHashes
  Solutions <- MCSolutions
SPECIFICATION Spec
INVARIANTS EquihashTypeOK VerdictIsRight RowsAreSubtrees AccumulatorHoldsTail NoIndexTwice
