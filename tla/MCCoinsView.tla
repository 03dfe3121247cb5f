---------------------------- MODULE MCCoinsView ----------------------------
(* a1 creates two outputs, a2 spends both in one transaction, a3 repeats   *)
(* the transaction of a1 now that it is spent.  b2 has the transaction of  *)
(* a2 too and spends its output at once, with nothing spendable left; b3   *)
(* spends a coinbase too early, c2 overwrites an unspent transaction, and  *)
(* d3 has a bad script and spends one of two outputs.                      *)
EXTENDS CoinsView, TLC
CONSTANTS g, a1, a2, a3, b2, b3, c2, d2, d3, cA, cB, cC, cD, cE, t1, t2, t3, t4, t5

MCBlocks == {g, a1, a2, a3, b2, b3, c2, d2, d3}
MCPrev == (a1 :> g) @@ (a2 :> a1) @@ (a3 :> a2) @@ (b2 :> a1) @@ (b3 :> b2)
          @@ (c2 :> a1) @@ (d2 :> a1) @@ (d3 :> d2)
MCAnc == (g :> {g}) @@ (a1 :> {g, a1}) @@ (a2 :> {g, a1, a2}) @@ (a3 :> {g, a1, a2, a3})
         @@ (b2 :> {g, a1, b2}) @@ (b3 :> {g, a1, b2, b3}) @@ (c2 :> {g, a1, c2})
         @@ (d2 :> {g, a1, d2}) @@ (d3 :> {g, a1, d2, d3})
MCHeight == (g :> 0) @@ (a1 :> 1) @@ (a2 :> 2) @@ (a3 :> 3) @@ (b2 :> 2) @@ (b3 :> 3)
            @@ (c2 :> 2) @@ (d2 :> 2) @@ (d3 :> 3)
MCTxs == {cA, cB, cC, cD, cE, t1, t2, t3, t4, t5}
MCCoinbases == {cA, cB, cC, cD, cE}
MCOuts == [t \in MCTxs |-> IF t = cA THEN {0, 1} ELSE IF t = t3 THEN {} ELSE {0}]
MCVin == [t \in MCTxs |->
            IF t = t1 THEN <<<<cA, 1>>, <<cA, 0>>>>
            ELSE IF t = t2 \/ t = t3 THEN <<<<t1, 0>>>>
            ELSE IF t = t4 THEN <<<<cC, 0>>>>
            ELSE IF t = t5 THEN <<<<cA, 0>>>> ELSE << >>]
MCVtx == (g :> << >>) @@ (a1 :> <<cA>>) @@ (a2 :> <<cB, t1>>) @@ (a3 :> <<cA, t2>>)
         @@ (b2 :> <<cC, t1, t3>>) @@ (b3 :> <<cD, t4>>) @@ (c2 :> <<cA>>)
         @@ (d2 :> <<cD, t5>>) @@ (d3 :> <<cE>>)
MCBadScript == {d3}
=============================================================================
