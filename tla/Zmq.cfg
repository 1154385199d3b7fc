SPECIFICATION Spec
CONSTANTS
  Miners = {m1, m2}
  MaxSessions = 0
  Walkers = {w1}
  Timer = timer
  Blocks = {1, 2}
  Height <- MCHeight
  NoBlock = NoBlock
  ExtraNonces = {1}
  Nonces = {"block", "weak"}
  EquihashValid <- MCEquihashValid
  InShareTarget <- MCInShareTarget
  InBlockTarget <- MCInBlockTarget
  EquihashCheck = FALSE
  CheckAddress = TRUE
  WalletReissues = FALSE
  MaxSignals = 1
  Null = Null
  Pending = Pending
  Accepted = Accepted
  Rejected = Rejected
  NoClaim = NoClaim
SYMMETRY Interchangeable
VIEW WithoutOutputs
INVARIANTS NoDoubleCredit BlockCreditsAreFound CreditHeight UsedOnce
