--------------------------- MODULE MCSyncCheckpoint ---------------------------
(* Two forks of the genesis block g: a1 -- a2 and b1 -- b2.                *)
EXTENDS SyncCheckpoint, FiniteSets, TLC
CONSTANTS g, a1, a2, b1, b2

MCBlocks == {g, a1, a2, b1, b2}
MCPrev == [b \in MCBlocks \ {g} |-> CASE b = a2 -> a1 [] b = b2 -> b1 [] OTHER -> g]
MCAnc == [b \in MCBlocks |->
            CASE b = g -> {g} [] b = a1 -> {g, a1} [] b = a2 -> {g, a1, a2}
              [] b = b1 -> {g, b1} [] b = b2 -> {g, b1, b2}]
MCHeight == [b \in MCBlocks |-> Cardinality(MCAnc[b]) - 1]
Symmetry == Permutations(Peers)
=============================================================================
