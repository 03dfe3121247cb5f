---------------------------- MODULE Transactions ----------------------------
(***************************************************************************)
(* Blocks, their transactions, and the coins that a chain of them leaves.  *)
(*                                                                         *)
(* The coins of a chain are defined directly from the transactions in it,  *)
(* without replaying them: an output is unspent if nothing after the last  *)
(* occurrence of its transaction spends it.  An output's value and script  *)
(* are given by its outpoint, so a set of indexes stands for vout.         *)
(***************************************************************************)
EXTENDS Integers, Sequences

CONSTANTS
  Blocks, Genesis, Prev, Anc, Height,  \* the block tree, as in ChainState
  Txs, Coinbases,
  Outs,                                \* the spendable outputs of a transaction
  Vin,                                 \* the outputs that it spends, <<tx, n>>, in order
  Vtx,                                 \* the transactions of a block, in order
  NoCoins,                             \* no unspent output
  COINBASE_MATURITY, COINBASE_MATURITY_NEW, COINBASE_MATURITY_SWITCH

ASSUME BlocksAssumption ==
  /\ Genesis \in Blocks
  /\ Prev \in [Blocks \ {Genesis} -> Blocks]
  /\ Anc \in [Blocks -> SUBSET Blocks] /\ Anc[Genesis] = {Genesis}
  /\ \A b \in Blocks \ {Genesis} :
        b \notin Anc[Prev[b]] /\ Anc[b] = Anc[Prev[b]] \union {b}
  /\ \A b \in Blocks : \A c, d \in Anc[b] : c \in Anc[d] \/ d \in Anc[c]
  /\ \A b \in Blocks : \A c \in Anc[b] : Anc[c] \subseteq Anc[b]
  /\ Height \in [Blocks -> Nat] /\ Height[Genesis] = 0
  /\ \A b \in Blocks \ {Genesis} : Height[b] = Height[Prev[b]] + 1

(* CheckTransaction and CheckBlock: no input twice in a transaction, no    *)
(* transaction twice in a block, at least one transaction, the coinbase    *)
(* first and only there.  That of the genesis block is not spendable.      *)
ASSUME TxsAssumption ==
  /\ Coinbases \subseteq Txs
  /\ Outs \in [Txs -> SUBSET Nat]
  /\ Vin \in [Txs -> Seq(Txs \X Nat)]
  /\ \A t \in Txs : (t \in Coinbases) <=> (Vin[t] = << >>)
  /\ \A t \in Txs : \A i, j \in DOMAIN Vin[t] : Vin[t][i] = Vin[t][j] => i = j
  /\ Vtx \in [Blocks -> Seq(Txs)] /\ \A b \in Blocks : Vtx[b] = << >> <=> b = Genesis
  /\ \A b \in Blocks : \A i, j \in DOMAIN Vtx[b] : Vtx[b][i] = Vtx[b][j] => i = j
  /\ \A b \in Blocks : \A i \in DOMAIN Vtx[b] : (Vtx[b][i] \in Coinbases) <=> (i = 1)

ASSUME MaturityAssumption ==
  /\ COINBASE_MATURITY \in Nat /\ COINBASE_MATURITY_NEW \in Nat
  /\ COINBASE_MATURITY_SWITCH \in Nat

GetRequiredMaturityDepth(nHeight) ==
  IF nHeight >= COINBASE_MATURITY_SWITCH THEN COINBASE_MATURITY_NEW ELSE COINBASE_MATURITY

Coins == [fCoinBase : BOOLEAN, vout : SUBSET Nat, nHeight : Nat]

-----------------------------------------------------------------------------
(* Places in a chain                                                       *)

PlacesOf(b) == UNION {{<<c, i>> : i \in DOMAIN Vtx[c]} : c \in Anc[b]}
TxAt(p) == Vtx[p[1]][p[2]]
After(p, q) == IF p[1] = q[1] THEN p[2] < q[2] ELSE p[1] \in Anc[q[1]]
Spends(p, out) == \E j \in DOMAIN Vin[TxAt(p)] : Vin[TxAt(p)][j] = out

(* the places before transaction i of block b *)
Before(b, i) == {p \in PlacesOf(b) : p[1] # b \/ p[2] < i}

(* the coins that the transactions at these places leave *)
CoinsAt(places) ==
  [t \in Txs |->
     LET made == {p \in places : TxAt(p) = t}
         last == CHOOSE p \in made : \A q \in made : ~After(p, q)
         vout == {n \in Outs[t] :
                    ~ \E q \in places : After(last, q) /\ Spends(q, <<t, n>>)}
     IN IF made = {} \/ vout = {} THEN NoCoins
        ELSE [fCoinBase |-> t \in Coinbases, vout |-> vout, nHeight |-> Height[last[1]]]]

CoinsOf(b) == CoinsAt(PlacesOf(b))

Mature(coin, h) ==
  coin.fCoinBase => h - coin.nHeight >= GetRequiredMaturityDepth(coin.nHeight)

(* A block may be added if it overwrites no unspent transaction and every  *)
(* input is, where it is spent, unspent and mature.                        *)
Valid(b) ==
  /\ \A i \in DOMAIN Vtx[b] : CoinsOf(Prev[b])[Vtx[b][i]] = NoCoins
  /\ \A i \in DOMAIN Vtx[b] : \A j \in DOMAIN Vin[Vtx[b][i]] :
       LET out  == Vin[Vtx[b][i]][j]
           coin == CoinsAt(Before(b, i))[out[1]]
       IN coin # NoCoins /\ out[2] \in coin.vout /\ Mature(coin, Height[b])
=============================================================================
