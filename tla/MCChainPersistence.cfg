SPECIFICATION Spec
CONSTANTS
  g = g
  a1 = a1
  b1 = b1
  b2 = b2
  NoBlock = NoBlock
  Blocks <- MCBlocks
  Genesis = g
  Prev <- MCPrev
  Anc <- MCAnc
  Work <- MCWork
  FileCap = 3
  MaxFile = 3
  WriteBack = TRUE
  MaxKills = 1
  MaxPowerLosses = 1
INVARIANTS
  TipRecoverable
  DataOwned
  UndoAtRiskOnlyInLeftFiles
  KillHarmless
