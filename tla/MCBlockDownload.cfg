SPECIFICATION FairSpec
CONSTANTS
  Nodes = {p1, p2}  NoNode = NoNode  Local = {p2}  Deleted = {p1, p2}
  Blocks = {b1, b2}
  MAX_BLOCKS_IN_TRANSIT_PER_PEER = 1
  BLOCK_DOWNLOAD_TIMEOUT = 1
  QueueLimit = 1  QueuePenalty = 1
  BanScore = 1  Penalties = {1}
INVARIANTS
  EntriesExact
  CountersExact
PROPERTIES
  QueuedLeaves
  OpenOnlyIfDelivering
  BannedLeaves
