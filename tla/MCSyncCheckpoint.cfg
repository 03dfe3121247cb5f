SPECIFICATION Spec
CONSTANTS
  g = g  a1 = a1  a2 = a2  b1 = b1  b2 = b2  NoBlock = NoBlock
  Genesis = g
  Blocks <- MCBlocks  Prev <- MCPrev  Anc <- MCAnc  Height <- MCHeight
  Bad = {b2}
  Signed = {a1, a2, b1, b2}
  Hardened = a2
  Peers = {p1, p2}
  CheckpointDepthNegative = FALSE
  MaxKills = 2
SYMMETRY Symmetry
INVARIANTS
  NoFalseAlarm
  MessagesCurrent
  RelayedAdopted
  NoLostPending
PROPERTY
  CheckpointAdvances
