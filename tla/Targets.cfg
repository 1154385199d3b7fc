SPECIFICATION Spec
CONSTANTS
  ByteBits = 1
  LimbBytes = 4
  WIDTH = 4
  Coeffs <- MCCoeffs
  Bits <- MCBits
  Hashes <- MCHashes
INVARIANTS
  TargetsTypeOK
  AdvertisedTargetIsFair
  JudgedByNumber
  ConversionsAgree
