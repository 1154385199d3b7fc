SPECIFICATION QuietSpec
CONSTANTS
  Miners = {}
  MaxSessions = 1
  Walkers = {w1}
  Timer = timer
  Blocks = {1, 2}
  Height <- MCHeight
  NoBlock = NoBlock
  ExtraNonces = {1}
  Nonces = {}
  EquihashValid <- MCEquihashValid
  InShareTarget <- MCInShareTarget
  InBlockTarget <- MCInBlockTarget
  EquihashCheck = FALSE
  CheckAddress = FALSE
  WalletReissues = TRUE
  MaxSignals = 2
  Null = Null
  Pending = Pending
  Accepted = Accepted
  Rejected = Rejected
  NoClaim = NoClaim
VIEW WithoutWork
INVARIANTS TipReachesPool
PROPERTIES FollowTip JobsFollowTip
