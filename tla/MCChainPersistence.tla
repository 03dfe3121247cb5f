-------------------------- MODULE MCChainPersistence --------------------------
(* The block tree of the model checking runs: g -- a1 and g -- b1 -- b2.   *)
EXTENDS ChainPersistence
CONSTANTS g, a1, b1, b2

MCBlocks == {g, a1, b1, b2}
MCPrev == [b \in MCBlocks \ {g} |-> IF b = b2 THEN b1 ELSE g]
MCAnc == [b \in MCBlocks |->
            CASE b = g -> {g} [] b = a1 -> {g, a1} [] b = b1 -> {g, b1} [] b = b2 -> MCBlocks \ {a1}]
MCWork == [b \in MCBlocks |-> Cardinality(MCAnc[b])]
=============================================================================
