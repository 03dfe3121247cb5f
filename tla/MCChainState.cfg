SPECIFICATION Spec
CONSTANTS
  g = g
  a1 = a1
  a2 = a2
  b1 = b1
  b2 = b2
  b3 = b3
  c2 = c2
  h1 = h1
  NoBlock = NoBlock
  Blocks <- ForkBlocks
  Genesis = g
  Prev <- ForkPrev
  Anc <- ForkAnc
  Work <- ForkWork
  Addr <- ForkAddr
  Invalid <- InB2
  Corrupt <- None
  BadHeader <- None
  BadBody <- None
  NonFinal <- None
  MaxOrphans = 1
  MaxRestarts = 1
  MaxErrors = 1
INVARIANTS
  CandidatesComplete
  FailedIsInvalid
  ActiveChainSound
  BestValidChainActive
  OrphansConsistent
PROPERTIES
  ActivationRecovers
  CallReturns
