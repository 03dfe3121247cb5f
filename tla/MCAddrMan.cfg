SPECIFICATION AddrManSpec
CONSTANTS
  a1 = a1  a2 = a2  a3 = a3  a4 = a4  s1 = s1  s2 = s2
  Addresses = {a1, a2, a3, a4}  Sources = {s1, s2}
  NewBuckets = {1, 2}  TriedBuckets = {1, 2}
  GetNewBucket <- MCGetNewBucket  GetTriedBucket <- MCGetTriedBucket
  NEW_BUCKET_SIZE = 2  TRIED_BUCKET_SIZE = 1  NEW_BUCKETS_PER_ADDRESS = 2
  MaxIds = 4
SYMMETRY MCSymmetry
INVARIANT
  CheckPasses
PROPERTY
  TriedNeverDeleted
