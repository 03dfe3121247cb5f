SPECIFICATION Spec
CONSTANTS
  g = g
  a1 = a1
  a2 = a2
  b1 = b1
  b2 = b2
  b3 = b3
  c2 = c2
  h1 = h1
  NoBlock = NoBlock
  Blocks <- AllBlocks
  Genesis = g
  Prev <- AllPrev
  Anc <- AllAnc
  Work <- AllWork
  Addr <- AllAddr
  Invalid <- None
  Corrupt <- InA2
  BadHeader <- InH1
  BadBody <- InB2
  NonFinal <- InC2
  MaxOrphans = 1
  MaxRestarts = 1
  MaxErrors = 0
INVARIANT
  RefusedStayOut
