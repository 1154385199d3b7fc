SPECIFICATION Spec
CONSTANTS
  Miners = {m1}
  MaxSessions = 1
  Walkers = {w1, w2}
  Timer = timer
  Blocks = {1, 2}
  Height <- MCHeight
  NoBlock = NoBlock
  ExtraNonces = {1, 2}
  Nonces = {"share", "block"}
  EquihashValid <- MCEquihashValid
  InShareTarget <- MCInShareTarget
  InBlockTarget <- MCInBlockTarget
  EquihashCheck = FALSE
  CheckAddress = FALSE
  WalletReissues = FALSE
  MaxSignals = 1
  Null = Null
  Pending = Pending
  Accepted = Accepted
  Rejected = Rejected
  NoClaim = NoClaim
CONSTRAINTS NoReorg LinkStaysUp NobodyLeaves LoginFirst NothingGetsOld OneShare TwoTemplates Numbered BlockFirst
VIEW WithoutOutputs
INVARIANTS ClaimMatchesTemplate
PROPERTIES ShareAnswerHonest LedgerSpec
