----------------------------- MODULE MCMemPool -----------------------------
(* t1 and u1 conflict; t2 has two parents, t1 and the coinbase of a1; n1   *)
(* is nonstandard and only a block can bring it, t3 follows it; f1 pays no *)
(* fee; s1 has a bad signature, and e1 is a sibling of it.  Two forks: at  *)
(* a1, and at the genesis block, where the coinbase of a1 is lost.  The    *)
(* coinbase of a2 is spent by r1 in a3 and repeated in a4; r2 is another   *)
(* spender of it.                                                          *)
EXTENDS MemPool, TLC
CONSTANTS g, a1, a2, a3, a4, b2, cA, cB, cC, cD, t1, t2, t3, u1, n1, f1, s1, e1, r1, r2

MCBlocks == {g, a1, a2, a3, a4, b2}
MCPrev == (a1 :> g) @@ (a2 :> a1) @@ (a3 :> a2) @@ (a4 :> a3) @@ (b2 :> a1)
MCAnc == (g :> {g}) @@ (a1 :> {g, a1}) @@ (a2 :> {g, a1, a2}) @@ (a3 :> {g, a1, a2, a3})
         @@ (a4 :> {g, a1, a2, a3, a4}) @@ (b2 :> {g, a1, b2})
MCHeight == (g :> 0) @@ (a1 :> 1) @@ (a2 :> 2) @@ (a3 :> 3) @@ (a4 :> 4) @@ (b2 :> 2)
MCTxs == {cA, cB, cC, cD, t1, t2, t3, u1, n1, f1, s1, e1, r1, r2}
MCCoinbases == {cA, cB, cC, cD}
MCOuts == [t \in MCTxs |-> IF t = cA THEN {0, 1, 2} ELSE IF t = t2 THEN {0, 1} ELSE {0}]
MCVin == [t \in MCTxs |->
            IF t = t1 \/ t = u1 THEN <<<<cA, 0>>>>
            ELSE IF t = t2 THEN <<<<t1, 0>>, <<cA, 1>>>>
            ELSE IF t = n1 THEN <<<<cA, 2>>>>
            ELSE IF t = t3 THEN <<<<n1, 0>>>>
            ELSE IF t = r1 \/ t = r2 THEN <<<<cB, 0>>>>
            ELSE IF t = f1 THEN <<<<t1, 0>>>>
            ELSE IF t = s1 THEN <<<<t2, 0>>>>
            ELSE IF t = e1 THEN <<<<t2, 1>>>> ELSE << >>]
MCVtx == (g :> << >>) @@ (a1 :> <<cA>>) @@ (a2 :> <<cB, t1, n1>>) @@ (a3 :> <<cC, f1, r1>>)
         @@ (a4 :> <<cB>>) @@ (b2 :> <<cD, u1>>)
MCNonStandard == {n1}
MCFree == {f1}
MCBadSig == {s1}
MCLarge == {f1, r1, r2}
MCSymmetry == Permutations(Peers)
=============================================================================
