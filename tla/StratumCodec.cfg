SPECIFICATION Spec
CONSTANTS
  Base = 2
  Decimals = 1
  NotDigit = NotDigit
  HashBytes = 3
  WordBytes = 2
  VersionDigit = 1
  NonceBytes = 2
  SkipBytes = 1
  Jobs <- MCJobs
  Messages <- MCMessages
  Leftovers <- MCLeftovers
INVARIANTS
  CodecTypeOK
  MinerAndPoolAgree
  WalletGetsNonce
