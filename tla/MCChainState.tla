--------------------------- MODULE MCChainState ---------------------------
(* The block trees of the model checking runs.                             *)
(*                                                                         *)
(*   g -- a1 -- a2                                                         *)
(*   |     \--- c2                                                         *)
(*   |---- b1 -- b2 -- b3                                                  *)
(*   \---- h1  (only in the run about refused blocks)                      *)
EXTENDS ChainState
CONSTANTS g, a1, a2, b1, b2, b3, c2, h1

AllBlocks == {g, a1, a2, b1, b2, b3, c2, h1}
AllPrev == [b \in AllBlocks \ {g} |->
              CASE b \in {a1, b1, h1} -> g
                [] b \in {a2, c2} -> a1
                [] b = b2 -> b1
                [] b = b3 -> b2]
AllAnc == LET A[b \in AllBlocks] == IF b = g THEN {g} ELSE A[AllPrev[b]] \union {b}
          IN  A
AllAddr == [b \in AllBlocks |->
              CASE b = g -> 0 [] b = a1 -> 5 [] b = a2 -> 3 [] b = c2 -> 6
                [] b = b1 -> 2 [] b = b2 -> 1 [] b = b3 -> 4 [] b = h1 -> 7]
AllWork == [b \in AllBlocks |-> Cardinality(AllAnc[b])]

(* two forks and an invalid block in the longer one *)
ForkBlocks == AllBlocks \ {h1}
ForkPrev == [b \in ForkBlocks \ {g} |-> AllPrev[b]]
ForkAnc == [b \in ForkBlocks |-> AllAnc[b]]
ForkAddr == [b \in ForkBlocks |-> AllAddr[b]]
ForkWork == [b \in ForkBlocks |-> AllWork[b]]

None == {}
InB2 == {b2}
InA2 == {a2}
InC2 == {c2}
InH1 == {h1}
=============================================================================
