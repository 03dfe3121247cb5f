SPECIFICATION Spec
CONSTANTS
  Holders = {h1, h2}
  GetKeyFromPool = GetKeyFromPool  TopUpKeyPool = TopUpKeyPool
  KeyPool = 1  MaxKeys = 5  MaxMasters = 2  MaxKills = 1
SYMMETRY MCSymmetry
INVARIANT
  KeysRecoverable
PROPERTY
  KeptIsGone
CHECK_DEADLOCK FALSE
