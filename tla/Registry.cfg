SPECIFICATION Spec
CONSTANTS
  Miners = {}
  MaxSessions = 2
  Walkers = {w1, w2}
  Timer = timer
  Blocks = {1, 2}
  Height <- MCHeight
  NoBlock = NoBlock
  ExtraNonces = {1}
  Nonces = {"weak"}
  EquihashValid <- MCEquihashValid
  InShareTarget <- MCInShareTarget
  InBlockTarget <- MCInBlockTarget
  EquihashCheck = FALSE
  CheckAddress = TRUE
  WalletReissues = FALSE
  MaxSignals = 1
  Null = Null
  Pending = Pending
  Accepted = Accepted
  Rejected = Rejected
  NoClaim = NoClaim
CONSTRAINTS NoReorg LinkStaysUp
SYMMETRY Interchangeable
VIEW WithoutOutputs
INVARIANTS TypeOK SocketsAreAlive OnlyVisitedSessionBreaksWalk
