SPECIFICATION Spec
CONSTANTS
  Nodes = {n1}
  Addrs = {a}
  Openers = {o1, o2}
  Kinds = {"address", "oneshot", "onetry"}
  Freed = Freed
  NoNode = NoNode
  NoThread = NoThread
  Socket = Socket
  MaxInbound = 1
  nMaxOutbound = 2
INVARIANTS
  ReferencesProtect
  SlotsNotDuplicated
PROPERTY
  DisconnectedIsDeleted
