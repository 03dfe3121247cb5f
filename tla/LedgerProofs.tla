---------------------------- MODULE LedgerProofs ----------------------------
(***************************************************************************)
(* The coin view implements the plain ledger, for every tree of blocks and *)
(* transactions, every cache state and every point at which the process    *)
(* stops.                                                                  *)
(*                                                                         *)
(* The first half is about the coins of a chain, as Transactions defines   *)
(* them without replaying anything: going one transaction further removes  *)
(* its inputs and adds its outputs.  The second half follows the view      *)
(* through ConnectBlock, DisconnectBlock, the flushes and the restarts.    *)
(* The last part is about the memory pool over that ledger: it uses the    *)
(* facts about the coins of a chain.                                       *)
(***************************************************************************)
EXTENDS CoinsView, MemPool, FiniteSetTheorems, SequenceTheorems, WellFoundedInduction, TLAPS

Made(S, t) == {p \in S : TxAt(p) = t}
LastMade(S, t) == CHOOSE p \in Made(S, t) : \A q \in Made(S, t) : ~After(p, q)
IsLast(S, t, p) == p \in Made(S, t) /\ \A q \in Made(S, t) : ~After(p, q)

(* what is left of a transaction after the places in S, and where it was *)
Unspent(S, t) ==
  {n \in Outs[t] : /\ Made(S, t) # {}
                   /\ ~ \E q \in S : After(LastMade(S, t), q) /\ Spends(q, <<t, n>>)}
At(S, t) == Height[LastMade(S, t)[1]]

IsCoinBase(t) == t \in Coinbases
Coin(t, vout, h) ==
  IF vout = {} THEN NoCoins
  ELSE [fCoinBase |-> IsCoinBase(t), vout |-> vout, nHeight |-> h]

(* the same before input n of transaction k of block b *)
Left(b, k, n, t) ==
  {o \in Unspent(Before(b, k), t) : \A m \in 1 .. (n - 1) : Vin[Vtx[b][k]][m] # <<t, o>>}
Mid(b, k, n, t) == Coin(t, Left(b, k, n, t), At(Before(b, k), t))

(* the places are those of one chain, and every transaction has a last one *)
IsChain(S) ==
  /\ \A p \in S : p[1] \in Blocks \ {Genesis} /\ p[2] \in DOMAIN Vtx[p[1]] /\ p = <<p[1], p[2]>>
  /\ \A p, q \in S : p[1] \in Anc[q[1]] \/ q[1] \in Anc[p[1]]
HasLast(S) == \A t \in Txs : Made(S, t) # {} => \E p : IsLast(S, t, p)

(* what ConnectBlock checks of one transaction *)
InputsValid(b, k) ==
  \A n \in DOMAIN Vin[Vtx[b][k]] :
    LET out == Vin[Vtx[b][k]][n] IN
      /\ out[2] \in Unspent(Before(b, k), out[1])
      /\ Mature(CoinsAt(Before(b, k))[out[1]], Height[b])
OverwritesNone(b) == \A k \in DOMAIN Vtx[b] : CoinsOf(Prev[b])[Vtx[b][k]] = NoCoins

(* the undo data that a block has to have *)
UndoIn(b, k, n) ==
  LET out == Vin[Vtx[b][k]][n] IN
    IF Left(b, k, n + 1, out[1]) = {}
    THEN <<At(Before(b, k), out[1]), IsCoinBase(out[1])>> ELSE <<0, FALSE>>
UndoTx(b, k) == [n \in 1 .. Len(Vin[Vtx[b][k]]) |-> UndoIn(b, k, n)]
UndoBlock(b) == [k \in 1 .. Len(Vtx[b]) - 1 |-> UndoTx(b, k + 1)]

-----------------------------------------------------------------------------
(* The inductive invariant                                                 *)

TypeInv ==
  /\ db \in Cache /\ tip \in Cache /\ view \in Cache
  /\ dbBest \in Blocks /\ tipBest \in Blocks /\ viewBest \in Blocks
  /\ active \in Blocks /\ cur \in Blocks
  /\ undo \in [Blocks -> Seq(Seq(Nat \X BOOLEAN)) \union {NoUndo}]
  /\ failed \subseteq Blocks
  /\ pc \in {"idle", "connect", "remove", "restore", "flush", "write", "verify",
             "reconnect", "down"}
  /\ i \in Nat /\ j \in Nat
  /\ blockundo \in Seq(Seq(Nat \X BOOLEAN)) /\ txundo \in Seq(Nat \X BOOLEAN)
  /\ fClean \in BOOLEAN /\ verifying \in BOOLEAN
  /\ nStops \in 0 .. MaxStops

(* undo data is there only for valid blocks on valid chains, and is right *)
Stored(b) == \A c \in Anc[b] \ {Genesis} : undo[c] # NoUndo
UndoInv ==
  /\ \A b \in Blocks : undo[b] # NoUndo =>
        b # Genesis /\ Stored(b) /\ Valid(b) /\ b \notin BadScript /\ undo[b] = UndoBlock(b)
  /\ Stored(dbBest) /\ Stored(tipBest) /\ Stored(viewBest) /\ Stored(active)

(* every layer shows the coins of its best block *)
LayersInv ==
  /\ \A t \in Txs : Shown(db)[t] = CoinsOf(dbBest)[t]
  /\ \A t \in Txs : Shown(TipCoins)[t] = CoinsOf(tipBest)[t]
  /\ pc \in {"idle", "write", "down"} => view = EmptyCache /\ viewBest = tipBest
  /\ pc \in {"verify", "reconnect", "flush"} =>
        \A t \in Txs : Shown(ViewCoins)[t] = CoinsOf(viewBest)[t]

(* where the best blocks are *)
BestInv ==
  /\ pc # "write" => tipBest = active
  /\ pc = "down" => tip = EmptyCache /\ dbBest = tipBest
  /\ pc \in {"idle", "flush", "write", "down"} => ~verifying
  /\ pc \in {"verify", "reconnect"} => verifying
  /\ verifying => viewBest \in Anc[active]
  /\ ~verifying /\ pc \in {"connect", "remove", "restore"} => viewBest = tipBest
  /\ pc = "flush" => \/ viewBest # Genesis /\ Prev[viewBest] = tipBest /\ Valid(viewBest)
                     \/ tipBest # Genesis /\ viewBest = Prev[tipBest]

(* ConnectBlock, between two inputs *)
ConnectInv ==
  pc = "connect" =>
    /\ cur # Genesis /\ Prev[cur] = viewBest /\ (verifying => cur \in Anc[active])
    /\ i \in 1 .. Len(Vtx[cur]) + 1
    /\ i <= Len(Vtx[cur]) => j \in 1 .. Len(Vin[Tx]) + 1
    /\ i > Len(Vtx[cur]) => j = 1
    /\ OverwritesNone(cur) /\ \A k \in 1 .. (i - 1) : InputsValid(cur, k)
    /\ j > 1 => InputsValid(cur, i)
    /\ \A t \in Txs : Shown(ViewCoins)[t] = Mid(cur, i, j, t)
    /\ Len(blockundo) = (IF i = 1 THEN 0 ELSE i - 2)
    /\ \A k \in 1 .. Len(blockundo) : blockundo[k] = UndoTx(cur, k + 1)
    /\ Len(txundo) = j - 1 /\ \A n \in 1 .. (j - 1) : txundo[n] = UndoIn(cur, i, n)

(* DisconnectBlock, between two inputs *)
DisconnectInv ==
  pc \in {"remove", "restore"} =>
    /\ cur # Genesis /\ cur = viewBest /\ fClean
    /\ pc = "remove" => /\ i \in 0 .. Len(Vtx[cur])
                        /\ \A t \in Txs : Shown(ViewCoins)[t] = Mid(cur, i + 1, 1, t)
    /\ pc = "restore" => /\ i \in 1 .. Len(Vtx[cur]) /\ j \in 0 .. Len(Vin[Tx])
                         /\ \A t \in Txs : Shown(ViewCoins)[t] = Mid(cur, i, j + 1, t)

IndInv == TypeInv /\ UndoInv /\ LayersInv /\ BestInv /\ ConnectInv /\ DisconnectInv

-----------------------------------------------------------------------------
(* The coins of a chain                                                    *)

(* every set of naturals has a least element *)
LEMMA LeastNatural ==
  ASSUME NEW T, T \subseteq Nat, T # {}
  PROVE  \E m \in T : \A n \in T : m <= n
<1>1. PICK x \in T : \A y \in T : ~(<<y, x>> \in OpToRel(<, Nat))
  BY NatLessThanWellFounded, WFMin
<1>2. \A y \in T : ~(y < x)
  BY <1>1, Zenon DEF OpToRel
<1> QED BY <1>2

LEMMA TreeFacts ==
  ASSUME NEW b \in Blocks
  PROVE  /\ b \in Anc[b] /\ Anc[b] \subseteq Blocks
         /\ b # Genesis => Prev[b] \in Blocks /\ Prev[b] \in Anc[b] /\ Prev[b] # b
         /\ \A c \in Anc[b] : b \in Anc[c] => b = c
         /\ Height[b] \in Nat /\ (b # Genesis => Height[b] >= 1)
<1>1. b \in Anc[b] /\ Anc[b] \subseteq Blocks
  BY BlocksAssumption
<1>2. ASSUME b # Genesis PROVE Prev[b] \in Blocks /\ Prev[b] \in Anc[b] /\ Prev[b] # b
  BY <1>2, BlocksAssumption
<1>3. ASSUME NEW c \in Anc[b], b \in Anc[c] PROVE b = c
  BY <1>1, <1>3, BlocksAssumption
<1>4. Height[b] \in Nat /\ (b # Genesis => Height[b] >= 1)
  BY BlocksAssumption
<1> QED BY <1>1, <1>2, <1>3, <1>4

LEMMA TxFacts ==
  ASSUME NEW b \in Blocks
  PROVE  /\ Vtx[b] \in Seq(Txs) /\ Len(Vtx[b]) \in Nat /\ DOMAIN Vtx[b] = 1 .. Len(Vtx[b])
         /\ \A k \in DOMAIN Vtx[b] : Vtx[b][k] \in Txs
         /\ b = Genesis => Len(Vtx[b]) = 0
         /\ b # Genesis => Len(Vtx[b]) >= 1
BY TxsAssumption

LEMMA VinFacts ==
  ASSUME NEW t \in Txs
  PROVE  /\ Vin[t] \in Seq(Txs \X Nat) /\ Len(Vin[t]) \in Nat
         /\ DOMAIN Vin[t] = 1 .. Len(Vin[t])
         /\ \A n \in DOMAIN Vin[t] : /\ Vin[t][n][1] \in Txs /\ Vin[t][n][2] \in Nat
                                     /\ Vin[t][n] = <<Vin[t][n][1], Vin[t][n][2]>>
BY TxsAssumption

LEMMA PlacesFacts ==
  ASSUME NEW b \in Blocks
  PROVE  /\ \A c, k : <<c, k>> \in PlacesOf(b) <=> c \in Anc[b] /\ k \in DOMAIN Vtx[c]
         /\ \A p \in PlacesOf(b) : p = <<p[1], p[2]>> /\ p[1] \in Anc[b] /\ p[2] \in DOMAIN Vtx[p[1]]
BY DEF PlacesOf

LEMMA BeforeFacts ==
  ASSUME NEW b \in Blocks \ {Genesis}
  PROVE  /\ Before(b, 1) = PlacesOf(Prev[b])
         /\ Before(b, Len(Vtx[b]) + 1) = PlacesOf(b)
         /\ \A k \in DOMAIN Vtx[b] : Before(b, k + 1) = Before(b, k) \union {<<b, k>>}
<1> USE TxFacts, TreeFacts, PlacesFacts
<1>1. Anc[b] = Anc[Prev[b]] \union {b} /\ b \notin Anc[Prev[b]] /\ Prev[b] \in Blocks
  BY BlocksAssumption
<1>2. ASSUME NEW p PROVE p \in Before(b, 1) <=> p \in PlacesOf(Prev[b])
  BY <1>1 DEF Before
<1>3. ASSUME NEW p PROVE p \in Before(b, Len(Vtx[b]) + 1) <=> p \in PlacesOf(b)
  BY DEF Before
<1>4. ASSUME NEW k \in DOMAIN Vtx[b]
      PROVE  Before(b, k + 1) = Before(b, k) \union {<<b, k>>}
  <2>1. ASSUME NEW p \in PlacesOf(b), p[1] = b
        PROVE  p[2] < k + 1 <=> p[2] < k \/ p = <<b, k>>
    BY <2>1
  <2>2. <<b, k>> \in PlacesOf(b)
    OBVIOUS
  <2> QED BY <2>1, <2>2 DEF Before
<1> QED BY <1>2, <1>3, <1>4

(* the places of a chain, up to any point, are linearly ordered *)
LEMMA ChainOf ==
  ASSUME NEW b \in Blocks
  PROVE  IsChain(PlacesOf(b)) /\ \A k : IsChain(Before(b, k))
<1>1. IsChain(PlacesOf(b))
  <2>1. ASSUME NEW p \in PlacesOf(b)
        PROVE  p[1] \in Blocks \ {Genesis} /\ p[2] \in DOMAIN Vtx[p[1]] /\ p = <<p[1], p[2]>>
    BY PlacesFacts, TreeFacts, TxFacts
  <2>2. ASSUME NEW p \in PlacesOf(b), NEW q \in PlacesOf(b)
        PROVE  p[1] \in Anc[q[1]] \/ q[1] \in Anc[p[1]]
    BY PlacesFacts, BlocksAssumption
  <2> QED BY <2>1, <2>2 DEF IsChain
<1> QED BY <1>1 DEF IsChain, Before

LEMMA Ordered ==
  ASSUME NEW S, IsChain(S), NEW p \in S, NEW q \in S
  PROVE  (~After(p, q) /\ ~After(q, p)) <=> p = q
<1>1. /\ p[1] \in Blocks /\ p[2] \in DOMAIN Vtx[p[1]] /\ p = <<p[1], p[2]>>
      /\ q[1] \in Blocks /\ q[2] \in DOMAIN Vtx[q[1]] /\ q = <<q[1], q[2]>>
      /\ p[1] \in Anc[q[1]] \/ q[1] \in Anc[p[1]]
  BY DEF IsChain
<1>2. p[1] = q[1] => p[2] \in Nat /\ q[2] \in Nat
  BY <1>1, TxFacts
<1>3. CASE p[1] = q[1]
  BY <1>1, <1>2, <1>3 DEF After
<1>4. CASE p[1] # q[1]
  BY <1>1, <1>4 DEF After
<1> QED BY <1>3, <1>4

LEMMA LastUnique ==
  ASSUME NEW S, IsChain(S), NEW t, NEW p, IsLast(S, t, p)
  PROVE  LastMade(S, t) = p
<1>1. \E x \in Made(S, t) : \A q \in Made(S, t) : ~After(x, q)
  BY DEF IsLast
<1>2. IsLast(S, t, LastMade(S, t))
  BY <1>1 DEF LastMade, IsLast
<1> QED BY <1>2, Ordered DEF IsLast, Made

LEMMA NextIsLater ==
  ASSUME NEW b \in Blocks \ {Genesis}, NEW k \in DOMAIN Vtx[b], NEW q \in Before(b, k)
  PROVE  After(q, <<b, k>>) /\ ~After(<<b, k>>, q) /\ q # <<b, k>>
<1>1. /\ q \in PlacesOf(b) /\ (q[1] # b \/ q[2] < k)
      /\ q[1] \in Anc[b] /\ q[2] \in DOMAIN Vtx[q[1]] /\ q[1] \in Blocks
  BY PlacesFacts, TreeFacts DEF Before
<1>2. k \in Nat /\ q[2] \in Nat
  BY <1>1, TxFacts
<1>3. CASE q[1] = b
  BY <1>1, <1>2, <1>3 DEF After
<1>4. CASE q[1] # b
  BY <1>1, <1>4, TreeFacts DEF After
<1> QED BY <1>3, <1>4

LEMMA NextMade ==
  ASSUME NEW b \in Blocks \ {Genesis}, NEW k \in DOMAIN Vtx[b], NEW t
  PROVE  /\ t # Vtx[b][k] => Made(Before(b, k + 1), t) = Made(Before(b, k), t)
         /\ t = Vtx[b][k] => IsLast(Before(b, k + 1), t, <<b, k>>)
<1>1. Before(b, k + 1) = Before(b, k) \union {<<b, k>>}
  BY BeforeFacts
<1>2. TxAt(<<b, k>>) = Vtx[b][k]
  BY DEF TxAt
<1>3. ~After(<<b, k>>, <<b, k>>)
  BY TxFacts DEF After
<1>4. ASSUME t # Vtx[b][k] PROVE Made(Before(b, k + 1), t) = Made(Before(b, k), t)
  BY <1>1, <1>2, <1>4 DEF Made
<1>5. ASSUME t = Vtx[b][k] PROVE IsLast(Before(b, k + 1), t, <<b, k>>)
  BY <1>1, <1>2, <1>3, <1>5, NextIsLater DEF Made, IsLast
<1> QED BY <1>4, <1>5

LEMMA NextHasLast ==
  ASSUME NEW b \in Blocks \ {Genesis}, NEW k \in DOMAIN Vtx[b], HasLast(Before(b, k))
  PROVE  HasLast(Before(b, k + 1))
<1> SUFFICES ASSUME NEW t \in Txs, Made(Before(b, k + 1), t) # {}
             PROVE  \E p : IsLast(Before(b, k + 1), t, p)
  BY DEF HasLast
<1>1. CASE t = Vtx[b][k]
  BY <1>1, NextMade
<1>2. CASE t # Vtx[b][k]
  <2>1. Made(Before(b, k + 1), t) = Made(Before(b, k), t)
    BY <1>2, NextMade
  <2> QED BY <2>1 DEF HasLast, IsLast
<1> QED BY <1>1, <1>2

(* by induction on the height of the block and on its transactions *)
LEMMA BlockHasLast ==
  ASSUME NEW b \in Blocks \ {Genesis}, HasLast(PlacesOf(Prev[b]))
  PROVE  \A k \in 1 .. Len(Vtx[b]) + 1 : HasLast(Before(b, k))
<1> DEFINE T == {k \in 1 .. Len(Vtx[b]) + 1 : ~HasLast(Before(b, k))}
<1> SUFFICES ASSUME T # {} PROVE FALSE
  OBVIOUS
<1>0. T \subseteq Nat
  OBVIOUS
<1>1. PICK m \in T : \A n \in T : m <= n
  BY <1>0, LeastNatural
<1>2. HasLast(Before(b, 1))
  BY BeforeFacts
<1>3. m # 1 /\ m \in 1 .. Len(Vtx[b]) + 1 /\ Len(Vtx[b]) \in Nat
  BY <1>2, TxFacts
<1>4. PICK k \in 1 .. Len(Vtx[b]) : m = k + 1
  BY <1>3
<1>5. HasLast(Before(b, k))
  BY <1>1, <1>4
<1>6. k \in DOMAIN Vtx[b]
  BY <1>4, TxFacts
<1>7. HasLast(Before(b, k + 1))
  BY <1>5, <1>6, NextHasLast
<1> QED BY <1>4, <1>7

LEMMA AllHaveLast ==
  ASSUME NEW b \in Blocks
  PROVE  /\ HasLast(PlacesOf(b))
         /\ b # Genesis => \A k \in 1 .. Len(Vtx[b]) + 1 : HasLast(Before(b, k))
<1> DEFINE T == {Height[c] : c \in {d \in Blocks : ~HasLast(PlacesOf(d))}}
<1>1. HasLast(PlacesOf(Genesis))
  <2>1. PlacesOf(Genesis) = {}
    BY PlacesFacts, TxFacts, BlocksAssumption
  <2> QED BY <2>1 DEF HasLast, Made
<1>2. ASSUME T # {} PROVE FALSE
  <2>1. T \subseteq Nat
    BY TreeFacts
  <2>2. PICK m \in T : \A n \in T : m <= n
    BY <1>2, <2>1, LeastNatural
  <2>3. PICK c \in Blocks : m = Height[c] /\ ~HasLast(PlacesOf(c))
    OBVIOUS
  <2>4. c # Genesis /\ Prev[c] \in Blocks /\ Height[c] = Height[Prev[c]] + 1 /\ Height[Prev[c]] \in Nat
    BY <1>1, <2>3, BlocksAssumption
  <2>5. HasLast(PlacesOf(Prev[c]))
    <3> SUFFICES ASSUME ~HasLast(PlacesOf(Prev[c])) PROVE FALSE
      OBVIOUS
    <3>1. Height[Prev[c]] \in T
      BY <2>4
    <3> QED BY <2>2, <2>3, <2>4, <3>1
  <2>6. HasLast(Before(c, Len(Vtx[c]) + 1))
    BY <2>4, <2>5, BlockHasLast, TxFacts
  <2> QED BY <2>3, <2>4, <2>6, BeforeFacts
<1>3. \A c \in Blocks : HasLast(PlacesOf(c))
  BY <1>2
<1> QED BY <1>3, BlockHasLast, BlocksAssumption

LEMMA CoinsAtIs ==
  ASSUME NEW S, NEW t \in Txs
  PROVE  CoinsAt(S)[t] = Coin(t, Unspent(S, t), At(S, t))
<1> DEFINE made == {p \in S : TxAt(p) = t}
           last == CHOOSE p \in made : \A q \in made : ~After(p, q)
           vout == {n \in Outs[t] : ~ \E q \in S : After(last, q) /\ Spends(q, <<t, n>>)}
<1>1. CoinsAt(S)[t] = IF made = {} \/ vout = {} THEN NoCoins
        ELSE [fCoinBase |-> t \in Coinbases, vout |-> vout, nHeight |-> Height[last[1]]]
  BY Zenon DEF CoinsAt
<1>2. made = Made(S, t) /\ last = LastMade(S, t)
  BY Zenon DEF Made, LastMade
<1> HIDE DEF made, last
<1>3. made = {} => Unspent(S, t) = {}
  BY <1>2 DEF Unspent
<1>4. made # {} => Unspent(S, t) = vout
  BY <1>2 DEF Unspent
<1>5. Height[last[1]] = At(S, t)
  BY <1>2 DEF At
<1> HIDE DEF vout
<1> QED BY <1>1, <1>3, <1>4, <1>5 DEF Coin, IsCoinBase

LEMMA UnspentFacts ==
  ASSUME NEW S, IsChain(S), HasLast(S), NEW t \in Txs
  PROVE  /\ Unspent(S, t) \subseteq Outs[t] /\ Outs[t] \subseteq Nat
         /\ Unspent(S, t) # {} => At(S, t) \in Nat /\ At(S, t) >= 1
         /\ Made(S, t) # {} => IsLast(S, t, LastMade(S, t))
<1>1. Made(S, t) # {} => IsLast(S, t, LastMade(S, t))
  BY LastUnique DEF HasLast
<1>2. ASSUME Made(S, t) # {} PROVE At(S, t) \in Nat /\ At(S, t) >= 1
  <2>1. LastMade(S, t)[1] \in Blocks \ {Genesis}
    BY <1>1, <1>2 DEF IsLast, Made, IsChain
  <2> QED BY <2>1, TreeFacts DEF At
<1>3. Unspent(S, t) # {} => Made(S, t) # {}
  BY DEF Unspent
<1> QED BY <1>1, <1>2, <1>3, TxsAssumption DEF Unspent

(* going one transaction further spends its inputs and adds its outputs *)
LEMMA NextUnspent ==
  ASSUME NEW b \in Blocks \ {Genesis}, NEW k \in DOMAIN Vtx[b], NEW t \in Txs
  PROVE  /\ t # Vtx[b][k] =>
              /\ Unspent(Before(b, k + 1), t) = Left(b, k, Len(Vin[Vtx[b][k]]) + 1, t)
              /\ At(Before(b, k + 1), t) = At(Before(b, k), t)
         /\ t = Vtx[b][k] => /\ Unspent(Before(b, k + 1), t) = Outs[t]
                             /\ At(Before(b, k + 1), t) = Height[b]
<1> DEFINE S == Before(b, k)
           R == Before(b, k + 1)
           x == Vtx[b][k]
<1>1. R = S \union {<<b, k>>}
  BY BeforeFacts
<1>2. TxAt(<<b, k>>) = x /\ x \in Txs
  BY TxFacts DEF TxAt
<1>3. \A q \in S : After(q, <<b, k>>) /\ ~After(<<b, k>>, q)
  BY NextIsLater
<1>4. ASSUME t # x PROVE Unspent(R, t) = Left(b, k, Len(Vin[x]) + 1, t) /\ At(R, t) = At(S, t)
  <2>1. Made(R, t) = Made(S, t)
    BY <1>4, NextMade
  <2>2. LastMade(R, t) = LastMade(S, t)
    BY <2>1, Zenon DEF LastMade
  <2>3. Made(S, t) # {} => LastMade(S, t) \in S
    <3>1. IsChain(S) /\ HasLast(S)
      <4>1. k \in 1 .. Len(Vtx[b]) + 1
        BY TxFacts
      <4> QED BY <4>1, ChainOf, AllHaveLast
    <3> QED BY <3>1, UnspentFacts DEF IsLast, Made
  <2>4. \A n : Spends(<<b, k>>, <<t, n>>) <=> \E m \in 1 .. Len(Vin[x]) : Vin[x][m] = <<t, n>>
    BY <1>2, VinFacts DEF Spends
  <2>5. ASSUME NEW n PROVE n \in Unspent(R, t) <=> n \in Left(b, k, Len(Vin[x]) + 1, t)
    <3> DEFINE L == LastMade(S, t)
    <3>1. n \in Unspent(R, t) <=>
            n \in Outs[t] /\ Made(S, t) # {} /\ ~ \E q \in R : After(L, q) /\ Spends(q, <<t, n>>)
      BY <2>1, <2>2 DEF Unspent
    <3>2. n \in Unspent(S, t) <=>
            n \in Outs[t] /\ Made(S, t) # {} /\ ~ \E q \in S : After(L, q) /\ Spends(q, <<t, n>>)
      BY DEF Unspent
    <3>3. n \in Left(b, k, Len(Vin[x]) + 1, t) <=>
            n \in Unspent(S, t) /\ ~ Spends(<<b, k>>, <<t, n>>)
      <4>1. 1 .. (Len(Vin[x]) + 1 - 1) = 1 .. Len(Vin[x])
        BY <1>2, VinFacts
      <4> QED BY <2>4, <4>1 DEF Left
    <3>4. Made(S, t) # {} => After(L, <<b, k>>)
      BY <1>3, <2>3
    <3> HIDE DEF L, S, R
    <3> QED BY <1>1, <3>1, <3>2, <3>3, <3>4
  <2>6. At(R, t) = At(S, t)
    BY <2>2 DEF At
  <2> QED BY <2>5, <2>6
<1>5. ASSUME t = x PROVE Unspent(R, t) = Outs[t] /\ At(R, t) = Height[b]
  <2>1. LastMade(R, t) = <<b, k>>
    BY <1>5, NextMade, ChainOf, LastUnique
  <2>2. Made(R, t) # {}
    BY <1>5, NextMade DEF IsLast
  <2>3. \A q \in R : ~After(<<b, k>>, q)
    <3>1. ~After(<<b, k>>, <<b, k>>)
      BY TxFacts DEF After
    <3> QED BY <1>1, <1>3, <3>1
  <2>4. Unspent(R, t) = Outs[t]
    BY <2>1, <2>2, <2>3 DEF Unspent
  <2> QED BY <2>1, <2>4 DEF At
<1> QED BY <1>4, <1>5

LEMMA CoinFacts ==
  ASSUME NEW t, NEW v \in SUBSET Nat, NEW h, v # {} => h \in Nat
  PROVE  /\ Coin(t, v, h) = NoCoins <=> v = {}
         /\ v # {} => /\ Coin(t, v, h) \in Coins
                      /\ Coin(t, v, h).vout = v /\ Coin(t, v, h).nHeight = h
                      /\ Coin(t, v, h).fCoinBase = IsCoinBase(t)
<1>1. ASSUME v # {}
      PROVE  /\ Coin(t, v, h) \in Coins
             /\ Coin(t, v, h).vout = v /\ Coin(t, v, h).nHeight = h
             /\ Coin(t, v, h).fCoinBase = IsCoinBase(t)
  <2>1. IsCoinBase(t) \in BOOLEAN
    BY DEF IsCoinBase
  <2> QED BY <1>1, <2>1 DEF Coin, Coins
<1>2. v = {} => Coin(t, v, h) = NoCoins
  BY DEF Coin
<1> QED BY <1>1, <1>2, ViewAssumption

(* a place in a block is a place in a chain with its last transactions *)
LEMMA PlaceFacts ==
  ASSUME NEW b \in Blocks \ {Genesis}, NEW k \in 1 .. Len(Vtx[b]) + 1, NEW n, NEW t \in Txs
  PROVE  /\ Left(b, k, n, t) \subseteq Unspent(Before(b, k), t)
         /\ Unspent(Before(b, k), t) \subseteq Outs[t] /\ Outs[t] \subseteq Nat
         /\ Unspent(Before(b, k), t) # {} => At(Before(b, k), t) \in Nat /\ At(Before(b, k), t) >= 1
BY ChainOf, AllHaveLast, UnspentFacts DEF Left

LEMMA MidEnds ==
  ASSUME NEW b \in Blocks \ {Genesis}, NEW t \in Txs
  PROVE  /\ Mid(b, 1, 1, t) = CoinsOf(Prev[b])[t]
         /\ Mid(b, Len(Vtx[b]) + 1, 1, t) = CoinsOf(b)[t]
         /\ \A k : Left(b, k, 1, t) = Unspent(Before(b, k), t)
<1>1. ASSUME NEW k PROVE Left(b, k, 1, t) = Unspent(Before(b, k), t)
  BY DEF Left
<1>2. ASSUME NEW k PROVE Mid(b, k, 1, t) = CoinsAt(Before(b, k))[t]
  BY <1>1, CoinsAtIs DEF Mid
<1> QED BY <1>1, <1>2, BeforeFacts DEF CoinsOf

LEMMA MidNext ==
  ASSUME NEW b \in Blocks \ {Genesis}, NEW k \in DOMAIN Vtx[b], NEW t \in Txs
  PROVE  /\ t # Vtx[b][k] => Mid(b, k + 1, 1, t) = Mid(b, k, Len(Vin[Vtx[b][k]]) + 1, t)
         /\ t = Vtx[b][k] => Mid(b, k + 1, 1, t) = Coin(t, Outs[t], Height[b])
<1>1. Left(b, k + 1, 1, t) = Unspent(Before(b, k + 1), t)
  BY MidEnds
<1> QED BY <1>1, NextUnspent DEF Mid

LEMMA LeftInput ==
  ASSUME NEW b \in Blocks \ {Genesis}, NEW k \in DOMAIN Vtx[b], NEW t \in Txs,
         NEW n \in DOMAIN Vin[Vtx[b][k]]
  PROVE  LET out == Vin[Vtx[b][k]][n] IN
         /\ t # out[1] => Left(b, k, n + 1, t) = Left(b, k, n, t)
         /\ t = out[1] => Left(b, k, n + 1, t) = Left(b, k, n, t) \ {out[2]}
         /\ out[2] \in Unspent(Before(b, k), out[1]) => out[2] \in Left(b, k, n, out[1])
<1> DEFINE x == Vtx[b][k]
           out == Vin[x][n]
<1>1. x \in Txs /\ n \in Nat /\ n >= 1 /\ out = <<out[1], out[2]>> /\ n <= Len(Vin[x])
      /\ DOMAIN Vin[x] = 1 .. Len(Vin[x]) /\ Len(Vin[x]) \in Nat
  BY TxFacts, VinFacts
<1>2. 1 .. (n + 1 - 1) = 1 .. (n - 1) \union {n}
  BY <1>1
<1>3. ASSUME NEW o PROVE o \in Left(b, k, n + 1, t) <=> o \in Left(b, k, n, t) /\ out # <<t, o>>
  BY <1>2 DEF Left
<1>4. ASSUME t # out[1] PROVE Left(b, k, n + 1, t) = Left(b, k, n, t)
  <2>1. \A o : out # <<t, o>>
    BY <1>1, <1>4
  <2> QED BY <1>3, <2>1
<1>5. t = out[1] => Left(b, k, n + 1, t) = Left(b, k, n, t) \ {out[2]}
  BY <1>1, <1>3
<1>6. ASSUME out[2] \in Unspent(Before(b, k), out[1]) PROVE out[2] \in Left(b, k, n, out[1])
  <2>1. ASSUME NEW m \in 1 .. (n - 1) PROVE Vin[x][m] # <<out[1], out[2]>>
    <3>1. m \in DOMAIN Vin[x] /\ m # n
      BY <1>1
    <3>2. Vin[x][m] # out
      BY <1>1, <3>1, TxsAssumption
    <3> QED BY <1>1, <3>2
  <2> QED BY <1>6, <2>1 DEF Left
<1> QED BY <1>4, <1>5, <1>6

LEMMA NoneLeft ==
  ASSUME NEW b \in Blocks \ {Genesis}, NEW k \in DOMAIN Vtx[b], OverwritesNone(b)
  PROVE  Unspent(Before(b, k), Vtx[b][k]) = {}
<1> DEFINE S == PlacesOf(Prev[b])
           R == Before(b, k)
           x == Vtx[b][k]
<1>1. x \in Txs /\ Prev[b] \in Blocks
  BY TxFacts, TreeFacts
<1>2. Unspent(S, x) = {}
  <2>1. IsChain(S) /\ HasLast(S)
    BY <1>1, ChainOf, AllHaveLast
  <2>2. CoinsOf(Prev[b])[x] = NoCoins
    BY DEF OverwritesNone
  <2>3. Coin(x, Unspent(S, x), At(S, x)) = NoCoins
    BY <1>1, <2>2, CoinsAtIs DEF CoinsOf
  <2>4. Unspent(S, x) \in SUBSET Nat /\ (Unspent(S, x) # {} => At(S, x) \in Nat)
    BY <1>1, <2>1, UnspentFacts
  <2> QED BY <2>3, <2>4, CoinFacts
<1>3. S \subseteq R
  <2>1. S = Before(b, 1)
    BY BeforeFacts
  <2>2. k \in Nat /\ k >= 1
    BY TxFacts
  <2>3. ASSUME NEW p \in Before(b, 1) PROVE p \in R
    <3>1. p[1] = b => p[2] \in Nat
      BY PlacesFacts, TxFacts DEF Before
    <3> QED BY <2>2, <3>1 DEF Before
  <2> QED BY <2>1, <2>3
<1>4. Made(R, x) = Made(S, x)
  <2>1. ASSUME NEW p \in R, TxAt(p) = x PROVE p \in S
    <3>1. /\ p \in PlacesOf(b) /\ (p[1] # b \/ p[2] < k)
          /\ p = <<p[1], p[2]>> /\ p[1] \in Anc[b] /\ p[2] \in DOMAIN Vtx[p[1]]
      BY PlacesFacts DEF Before
    <3>2. p[1] # b
      <4> SUFFICES ASSUME p[1] = b PROVE FALSE
        OBVIOUS
      <4>1. p[2] \in Nat /\ k \in Nat /\ p[2] # k
        BY <3>1, TxFacts
      <4>2. Vtx[b][p[2]] = Vtx[b][k]
        BY <2>1 DEF TxAt
      <4> QED BY <3>1, <4>1, <4>2, TxsAssumption
    <3>3. p[1] \in Anc[Prev[b]]
      BY <3>1, <3>2, BlocksAssumption
    <3> QED BY <1>1, <3>1, <3>3, PlacesFacts
  <2> QED BY <1>3, <2>1 DEF Made
<1>5. LastMade(R, x) = LastMade(S, x)
  BY <1>4, Zenon DEF LastMade
<1>6. ASSUME NEW n \in Unspent(R, x) PROVE n \in Unspent(S, x)
  BY <1>3, <1>4, <1>5 DEF Unspent
<1> QED BY <1>2, <1>6

(* Valid, transaction by transaction *)
LEMMA ValidIs ==
  ASSUME NEW b \in Blocks \ {Genesis}
  PROVE  Valid(b) <=> OverwritesNone(b) /\ \A k \in DOMAIN Vtx[b] : InputsValid(b, k)
<1>1. ASSUME NEW k \in DOMAIN Vtx[b], NEW n \in DOMAIN Vin[Vtx[b][k]]
      PROVE  LET out  == Vin[Vtx[b][k]][n]
                 coin == CoinsAt(Before(b, k))[out[1]]
             IN out[2] \in Unspent(Before(b, k), out[1]) <=> coin # NoCoins /\ out[2] \in coin.vout
  <2> DEFINE t == Vin[Vtx[b][k]][n][1]
             v == Unspent(Before(b, k), t)
             h == At(Before(b, k), t)
  <2>1. t \in Txs /\ k \in 1 .. Len(Vtx[b]) + 1
    BY TxFacts, VinFacts
  <2>2. CoinsAt(Before(b, k))[t] = Coin(t, v, h)
    BY <2>1, CoinsAtIs
  <2>3. v \in SUBSET Nat /\ (v # {} => h \in Nat)
    BY <2>1, PlaceFacts
  <2> HIDE DEF v, h
  <2>4. Coin(t, v, h) = NoCoins <=> v = {}
    BY <2>3, CoinFacts
  <2>5. v # {} => Coin(t, v, h).vout = v
    BY <2>3, CoinFacts
  <2> QED BY <2>2, <2>4, <2>5 DEF v, h
<1> QED BY <1>1 DEF Valid, OverwritesNone, InputsValid

-----------------------------------------------------------------------------
(* The layers                                                              *)

LEMMA OverFacts ==
  ASSUME NEW c \in Cache, NEW d \in Cache
  PROVE  /\ Over(c, d) \in Cache
         /\ \A t \in Txs : Over(c, d)[t] = IF c[t] # NoCoins THEN c[t] ELSE d[t]
         /\ Over(EmptyCache, d) = d /\ EmptyCache \in Cache
         /\ \A e \in Cache : Over(Over(c, d), e) = Over(c, Over(d, e))
<1>1. Over(c, d) \in Cache /\ \A t \in Txs : Over(c, d)[t] = IF c[t] # NoCoins THEN c[t] ELSE d[t]
  BY DEF Over, Cache
<1>2. Over(EmptyCache, d) = d /\ EmptyCache \in Cache
  BY DEF Over, Cache, EmptyCache
<1>3. ASSUME NEW e \in Cache PROVE Over(Over(c, d), e) = Over(c, Over(d, e))
  BY DEF Over, Cache
<1> QED BY <1>1, <1>2, <1>3

LEMMA FetchFacts ==
  ASSUME NEW c \in Cache, NEW d \in Cache, NEW read
  PROVE  /\ FetchCoins(c, d, read) \in Cache
         /\ Over(FetchCoins(c, d, read), d) = Over(c, d)
BY DEF FetchCoins, Over, Cache

LEMMA LayerTypes ==
  ASSUME TypeInv
  PROVE  /\ TipCoins \in Cache /\ ViewCoins \in Cache /\ BatchWrite(tip) \in Cache
         /\ \A t \in Txs : Shown(BatchWrite(tip))[t] = Shown(TipCoins)[t]
<1>1. db \in Cache /\ tip \in Cache /\ view \in Cache
  BY DEF TypeInv
<1>2. TipCoins \in Cache
  BY <1>1, OverFacts DEF TipCoins
<1>3. ViewCoins \in Cache
  BY <1>1, <1>2, OverFacts DEF ViewCoins
<1>4. BatchWrite(tip) \in Cache
  BY <1>1 DEF BatchWrite, Cache
<1>5. ASSUME NEW t \in Txs PROVE Shown(BatchWrite(tip))[t] = Shown(TipCoins)[t]
  BY <1>1 DEF BatchWrite, Shown, TipCoins, Over, IsPruned
<1> QED BY <1>2, <1>3, <1>4, <1>5

(* reading shows the same, whatever it fills *)
LEMMA ReadFacts ==
  ASSUME TypeInv, NEW read, Read(read), db' = db
  PROVE  tip' \in Cache /\ TipCoins' = TipCoins
<1>1. db \in Cache /\ tip \in Cache
  BY DEF TypeInv
<1> QED BY <1>1, FetchFacts DEF Read, TipCoins

LEMMA Pruned ==
  ASSUME NEW f \in Cache, NEW t \in Txs
  PROVE  /\ f[t] = NoCoins => Shown(f)[t] = NoCoins
         /\ f[t] # NoCoins => f[t] \in Coins
         /\ IsPruned(f[t]) <=> Shown(f)[t] = NoCoins
         /\ ~IsPruned(f[t]) => Shown(f)[t] = f[t]
BY ViewAssumption DEF Cache, Shown, IsPruned

(* an entry that is seen, and one that is to be seen *)
LEMMA Seen ==
  ASSUME NEW f \in Cache, NEW t \in Txs, NEW v \in SUBSET Nat, NEW h, v # {} => h \in Nat,
         Shown(f)[t] = Coin(t, v, h)
  PROVE  /\ IsPruned(f[t]) <=> v = {}
         /\ v # {} => /\ f[t] \in Coins /\ f[t] # NoCoins
                      /\ f[t].vout = v /\ f[t].nHeight = h /\ f[t].fCoinBase = IsCoinBase(t)
<1>1. IsPruned(f[t]) <=> v = {}
  BY Pruned, CoinFacts
<1>2. v # {} => f[t] = Coin(t, v, h)
  BY <1>1, Pruned
<1>3. v # {} => /\ Coin(t, v, h) \in Coins /\ Coin(t, v, h) # NoCoins
                /\ Coin(t, v, h).vout = v /\ Coin(t, v, h).nHeight = h
                /\ Coin(t, v, h).fCoinBase = IsCoinBase(t)
  BY CoinFacts
<1> QED BY <1>1, <1>2, <1>3

LEMMA Shows ==
  ASSUME NEW f \in Cache, NEW t \in Txs, NEW v \in SUBSET Nat, NEW h,
         f[t] \in Coins, f[t].vout = v,
         v # {} => f[t].nHeight = h /\ f[t].fCoinBase = IsCoinBase(t)
  PROVE  Shown(f)[t] = Coin(t, v, h)
<1>1. CASE v = {}
  BY <1>1 DEF Shown, IsPruned, Coin
<1>2. CASE v # {}
  <2>1. f[t] = [fCoinBase |-> f[t].fCoinBase, vout |-> f[t].vout, nHeight |-> f[t].nHeight]
    BY DEF Coins
  <2>2. Coin(t, v, h) = [fCoinBase |-> f[t].fCoinBase, vout |-> f[t].vout, nHeight |-> f[t].nHeight]
    BY <1>2 DEF Coin
  <2>3. ~IsPruned(f[t])
    BY <1>2, ViewAssumption DEF IsPruned
  <2> QED BY <2>1, <2>2, <2>3, Pruned
<1> QED BY <1>1, <1>2

-----------------------------------------------------------------------------
(* The invariant holds initially                                           *)

LEMMA GenesisCoins == \A t \in Txs : CoinsOf(Genesis)[t] = NoCoins
<1> SUFFICES ASSUME NEW t \in Txs PROVE CoinsOf(Genesis)[t] = NoCoins
  OBVIOUS
<1>1. PlacesOf(Genesis) = {}
  BY PlacesFacts, TxFacts, BlocksAssumption
<1>2. Unspent(PlacesOf(Genesis), t) = {}
  BY <1>1 DEF Unspent, Made
<1> QED BY <1>2, CoinsAtIs DEF CoinsOf, Coin

LEMMA InitInd == Init => IndInv
<1> SUFFICES ASSUME Init PROVE IndInv
  OBVIOUS
<1> USE DEF Init
<1>1. TypeInv
  <2>1. db \in Cache /\ tip \in Cache /\ view \in Cache
    BY DEF Cache
  <2>2. undo \in [Blocks -> Seq(Seq(Nat \X BOOLEAN)) \union {NoUndo}]
    OBVIOUS
  <2>3. blockundo \in Seq(Seq(Nat \X BOOLEAN)) /\ txundo \in Seq(Nat \X BOOLEAN)
    BY EmptySeq
  <2>4. fClean \in BOOLEAN /\ verifying \in BOOLEAN
    OBVIOUS
  <2>5. i \in Nat /\ j \in Nat /\ nStops \in 0 .. MaxStops
    BY ViewAssumption
  <2>6. pc = "idle" /\ failed = {} /\ \A b \in {dbBest, tipBest, viewBest, active, cur} : b \in Blocks
    BY BlocksAssumption
  <2> HIDE DEF Init
  <2> QED BY <2>1, <2>2, <2>3, <2>4, <2>5, <2>6 DEF TypeInv
<1>2. UndoInv
  BY BlocksAssumption DEF UndoInv, Stored
<1>3. LayersInv
  <2>1. EmptyCache \in Cache
    BY DEF EmptyCache, Cache
  <2>2. db = EmptyCache /\ tip = EmptyCache /\ view = EmptyCache
    BY DEF EmptyCache
  <2>3. TipCoins = EmptyCache
    BY <2>1, <2>2, OverFacts DEF TipCoins
  <2>4. \A t \in Txs : Shown(EmptyCache)[t] = NoCoins
    BY DEF Shown, EmptyCache
  <2> QED BY <2>2, <2>3, <2>4, GenesisCoins DEF LayersInv
<1>4. BestInv /\ ConnectInv /\ DisconnectInv
  BY DEF BestInv, ConnectInv, DisconnectInv
<1> QED BY <1>1, <1>2, <1>3, <1>4 DEF IndInv

-----------------------------------------------------------------------------
(* ConnectBlock                                                            *)

(* outside a call the scratch view shows the coins of its best block *)
LEMMA ViewAtRest ==
  ASSUME IndInv, pc \in {"idle", "write", "down", "verify", "reconnect", "flush"}
  PROVE  \A t \in Txs : Shown(ViewCoins)[t] = CoinsOf(viewBest)[t]
<1>1. CASE pc \in {"idle", "write", "down"}
  <2>1. ViewCoins = TipCoins
    BY <1>1, LayerTypes, OverFacts DEF IndInv, LayersInv, ViewCoins
  <2> QED BY <1>1, <2>1 DEF IndInv, LayersInv
<1>2. CASE pc \in {"verify", "reconnect", "flush"}
  BY <1>2 DEF IndInv, LayersInv
<1> QED BY <1>1, <1>2

LEMMA ViewReads ==
  ASSUME TypeInv, NEW read, Read(read), db' = db, view' = FetchCoins(view, TipCoins, read)
  PROVE  tip' \in Cache /\ view' \in Cache /\ TipCoins' = TipCoins /\ ViewCoins' = ViewCoins
<1>1. view \in Cache /\ TipCoins \in Cache
  BY LayerTypes DEF TypeInv
<1>2. tip' \in Cache /\ TipCoins' = TipCoins
  BY ReadFacts
<1>3. view' \in Cache /\ Over(view', TipCoins) = Over(view, TipCoins)
  BY <1>1, FetchFacts
<1> QED BY <1>2, <1>3 DEF ViewCoins

(* what is above the database and the tip's cache does not concern them *)
LEMMA LowerLayers ==
  ASSUME IndInv, TipCoins' = TipCoins, UNCHANGED <<db, dbBest, tipBest>>
  PROVE  /\ \A t \in Txs : Shown(db')[t] = CoinsOf(dbBest')[t]
         /\ \A t \in Txs : Shown(TipCoins')[t] = CoinsOf(tipBest')[t]
BY DEF IndInv, LayersInv

LEMMA UndoKept ==
  ASSUME IndInv, UNCHANGED <<undo, dbBest, tipBest, active>>,
         viewBest' \in Blocks, Stored(viewBest')
  PROVE  UndoInv'
BY DEF IndInv, UndoInv, Stored

(* the block that is connected is a child of the best block of the view *)
LEMMA MayConnectFacts ==
  ASSUME IndInv, NEW b \in Blocks \ {Genesis}, MayConnect(b)
  PROVE  /\ Prev[b] = viewBest
         /\ (pc = "idle" /\ ~verifying) \/ (pc = "reconnect" /\ verifying /\ b \in Anc[active])
         /\ \A t \in Txs : Shown(ViewCoins)[t] = CoinsOf(Prev[b])[t]
         /\ Overwrites(b) <=> ~OverwritesNone(b)
<1>1. /\ Prev[b] = viewBest
      /\ (pc = "idle" /\ ~verifying) \/ (pc = "reconnect" /\ verifying /\ b \in Anc[active])
  BY DEF MayConnect, IndInv, LayersInv, BestInv
<1>2. \A t \in Txs : Shown(ViewCoins)[t] = CoinsOf(Prev[b])[t]
  BY <1>1, ViewAtRest
<1>3. ViewCoins \in Cache
  BY LayerTypes DEF IndInv
<1>4. \A k \in DOMAIN Vtx[b] : IsPruned(ViewCoins[Vtx[b][k]]) <=> CoinsOf(Prev[b])[Vtx[b][k]] = NoCoins
  BY <1>2, <1>3, Pruned, TxFacts
<1> QED BY <1>1, <1>2, <1>4 DEF Overwrites, OverwritesNone

LEMMA ConnectBlockInd ==
  ASSUME IndInv, NEW b \in Blocks \ {Genesis}, ConnectBlock(b)
  PROVE  IndInv'
<1> USE DEF disk, index
<1>1. /\ UNCHANGED <<db, dbBest, undo, tipBest, viewBest, active, failed, fClean, verifying, nStops>>
      /\ pc' = "connect" /\ cur' = b /\ i' = 1 /\ j' = 1 /\ blockundo' = << >> /\ txundo' = << >>
      /\ MayConnect(b)
  BY DEF ConnectBlock
<1>2. tip' \in Cache /\ view' \in Cache /\ TipCoins' = TipCoins /\ ViewCoins' = ViewCoins
  BY <1>1, ViewReads DEF ConnectBlock, IndInv
<1>3. TypeInv'
  BY <1>1, <1>2 DEF IndInv, TypeInv
<1>4. UndoInv'
  BY <1>1, UndoKept DEF IndInv, TypeInv, UndoInv
<1>5. LayersInv'
  BY <1>1, <1>2, LowerLayers DEF LayersInv
<1>6. BestInv'
  BY <1>1, MayConnectFacts DEF IndInv, BestInv, LayersInv
<1>7. ConnectInv'
  <2>1. /\ cur' # Genesis /\ Prev[cur'] = viewBest' /\ (verifying' => cur' \in Anc[active'])
        /\ OverwritesNone(cur')
    BY <1>1, MayConnectFacts DEF ConnectBlock
  <2>2. i' \in 1 .. Len(Vtx[cur']) + 1 /\ ~(i' > Len(Vtx[cur']))
    BY <1>1, TxFacts
  <2>3. j' \in 1 .. Len(Vin[Vtx[cur'][i']]) + 1
    BY <1>1, <2>2, TxFacts, VinFacts
  <2>4. \A t \in Txs : Shown(ViewCoins')[t] = Mid(cur', i', j', t)
    BY <1>1, <1>2, MayConnectFacts, MidEnds
  <2> QED BY <1>1, <2>1, <2>2, <2>3, <2>4 DEF ConnectInv, Tx
<1>8. DisconnectInv'
  BY <1>1 DEF DisconnectInv
<1> QED BY <1>3, <1>4, <1>5, <1>6, <1>7, <1>8 DEF IndInv

(* a block that is refused is not one that VerifyDB connects again *)
LEMMA RefuseInd ==
  ASSUME IndInv, NEW b \in Blocks, Refuse(b), ~verifying, pc # "write",
         tip' \in Cache, TipCoins' = TipCoins
  PROVE  IndInv'
<1> USE DEF disk, call
<1>1. /\ UNCHANGED <<db, dbBest, undo, tipBest, active, cur, i, j, blockundo, txundo, fClean,
                     verifying, nStops>>
      /\ pc' = "idle" /\ failed' = failed \union {b} /\ view' = EmptyCache /\ viewBest' = tipBest
  BY DEF Refuse
<1>2. EmptyCache \in Cache
  BY DEF EmptyCache, Cache
<1>3. TypeInv'
  BY <1>1, <1>2 DEF IndInv, TypeInv
<1>4. UndoInv'
  BY <1>1, UndoKept DEF IndInv, TypeInv, UndoInv
<1>5. LayersInv'
  BY <1>1, LowerLayers DEF LayersInv
<1>6. BestInv'
  BY <1>1 DEF IndInv, BestInv
<1>7. ConnectInv' /\ DisconnectInv'
  BY <1>1 DEF ConnectInv, DisconnectInv
<1> QED BY <1>3, <1>4, <1>5, <1>6, <1>7 DEF IndInv

LEMMA RefuseOverwritingInd ==
  ASSUME IndInv, NEW b \in Blocks \ {Genesis}, RefuseOverwriting(b)
  PROVE  IndInv'
<1>1. MayConnect(b) /\ Overwrites(b) /\ Read(Range(Vtx[b])) /\ Refuse(b)
  BY DEF RefuseOverwriting
<1>2. ~OverwritesNone(b)
  BY <1>1, MayConnectFacts
<1>3. ~verifying /\ pc # "write"
  <2>1. ASSUME b \in Anc[active] PROVE FALSE
    <3>1. Valid(b)
      BY <2>1 DEF IndInv, UndoInv, Stored
    <3> QED BY <1>2, <3>1, ValidIs
  <2> QED BY <1>1, <2>1, MayConnectFacts
<1>4. tip' \in Cache /\ TipCoins' = TipCoins
  BY <1>1, ReadFacts DEF IndInv, Refuse, disk
<1> QED BY <1>1, <1>3, <1>4, RefuseInd

(* where ConnectBlock stands *)
LEMMA ConnectingFacts ==
  ASSUME IndInv, pc = "connect"
  PROVE  /\ cur \in Blocks \ {Genesis} /\ Prev[cur] = viewBest
         /\ verifying => Valid(cur) /\ cur \notin BadScript
         /\ ViewCoins \in Cache /\ i \in Nat /\ j \in Nat
         /\ i <= Len(Vtx[cur]) => /\ i \in DOMAIN Vtx[cur] /\ i \in 1 .. Len(Vtx[cur]) + 1
                                  /\ Tx = Vtx[cur][i] /\ Tx \in Txs
                                  /\ j \in 1 .. Len(Vin[Tx]) + 1 /\ Len(Vin[Tx]) \in Nat
         /\ i > Len(Vtx[cur]) => i = Len(Vtx[cur]) + 1 /\ j = 1
<1>1. cur \in Blocks \ {Genesis} /\ Prev[cur] = viewBest /\ ViewCoins \in Cache
      /\ i \in Nat /\ j \in Nat
  BY LayerTypes DEF IndInv, TypeInv, ConnectInv
<1>2. verifying => Valid(cur) /\ cur \notin BadScript
  BY <1>1 DEF IndInv, UndoInv, Stored, ConnectInv
<1>3. /\ i \in 1 .. Len(Vtx[cur]) + 1 /\ Len(Vtx[cur]) \in Nat
      /\ i <= Len(Vtx[cur]) => j \in 1 .. Len(Vin[Tx]) + 1
      /\ i > Len(Vtx[cur]) => j = 1
  BY <1>1, TxFacts DEF IndInv, ConnectInv
<1>4. ASSUME i <= Len(Vtx[cur])
      PROVE  i \in DOMAIN Vtx[cur] /\ Tx = Vtx[cur][i] /\ Tx \in Txs /\ Len(Vin[Tx]) \in Nat
  BY <1>1, <1>3, <1>4, TxFacts, VinFacts DEF Tx
<1> QED BY <1>1, <1>2, <1>3, <1>4

(* CheckInputs decides whether the inputs are valid *)
LEMMA CheckInputsIs ==
  ASSUME IndInv, Connecting, j = 1
  PROVE  CheckInputs <=> InputsValid(cur, i)
<1>1. /\ cur \in Blocks \ {Genesis} /\ i \in DOMAIN Vtx[cur] /\ i \in 1 .. Len(Vtx[cur]) + 1
      /\ Tx = Vtx[cur][i] /\ Tx \in Txs /\ ViewCoins \in Cache /\ Prev[cur] = viewBest
  BY ConnectingFacts DEF Connecting
<1>2. Height[viewBest] + 1 = Height[cur]
  BY <1>1, BlocksAssumption
<1>3. ASSUME NEW n \in DOMAIN Vin[Tx]
      PROVE  LET out == Vin[Tx][n] IN
               (/\ IsAvailable(ViewCoins[out[1]], out[2])
                /\ Mature(ViewCoins[out[1]], Height[viewBest] + 1))
               <=> /\ out[2] \in Unspent(Before(cur, i), out[1])
                   /\ Mature(CoinsAt(Before(cur, i))[out[1]], Height[cur])
  <2> DEFINE t == Vin[Tx][n][1]
             o == Vin[Tx][n][2]
             v == Unspent(Before(cur, i), t)
             h == At(Before(cur, i), t)
  <2>1. t \in Txs
    BY <1>1, VinFacts
  <2>2. Shown(ViewCoins)[t] = Coin(t, v, h)
    <3>1. Shown(ViewCoins)[t] = Mid(cur, i, 1, t)
      BY <2>1 DEF IndInv, ConnectInv, Connecting
    <3> QED BY <1>1, <2>1, <3>1, MidEnds DEF Mid
  <2>3. CoinsAt(Before(cur, i))[t] = Coin(t, v, h)
    BY <2>1, CoinsAtIs
  <2>4. v \in SUBSET Nat /\ (v # {} => h \in Nat)
    BY <1>1, <2>1, PlaceFacts
  <2> HIDE DEF v, h, t, o
  <2>5. IsPruned(ViewCoins[t]) <=> v = {}
    BY <1>1, <2>1, <2>2, <2>4, Seen
  <2>6. v # {} => ViewCoins[t] = Coin(t, v, h) /\ ViewCoins[t].vout = v /\ ViewCoins[t] # NoCoins
    <3>1. v # {} => ViewCoins[t].vout = v /\ ViewCoins[t] # NoCoins
      BY <1>1, <2>1, <2>2, <2>4, Seen
    <3> QED BY <1>1, <2>1, <2>2, <2>5, <3>1, Pruned
  <2>7. IsAvailable(ViewCoins[t], o) <=> o \in v
    BY <2>5, <2>6 DEF IsAvailable, IsPruned
  <2>8. o \in v => (Mature(ViewCoins[t], Height[viewBest] + 1)
                      <=> Mature(CoinsAt(Before(cur, i))[t], Height[cur]))
    BY <1>2, <2>3, <2>6
  <2> QED BY <2>7, <2>8 DEF t, o, v
<1> QED BY <1>1, <1>3 DEF CheckInputs, InputsValid

LEMMA RefuseInputsInd == ASSUME IndInv, RefuseInputs PROVE IndInv'
<1>1. Connecting /\ j = 1 /\ ~CheckInputs /\ Read(InputTxs) /\ Refuse(cur) /\ pc = "connect"
  BY DEF RefuseInputs, Connecting
<1>2. ~InputsValid(cur, i) /\ cur \in Blocks \ {Genesis} /\ i \in DOMAIN Vtx[cur]
  BY <1>1, CheckInputsIs, ConnectingFacts DEF Connecting
<1>3. ~verifying /\ pc # "write"
  BY <1>1, <1>2, ConnectingFacts, ValidIs
<1>4. tip' \in Cache /\ TipCoins' = TipCoins
  BY <1>1, ReadFacts DEF IndInv, Refuse, disk
<1> QED BY <1>1, <1>2, <1>3, <1>4, RefuseInd

LEMMA RefuseScriptInd == ASSUME IndInv, RefuseScript PROVE IndInv'
<1>1. pc = "connect" /\ cur \in BadScript /\ tip' = tip /\ Refuse(cur) /\ cur \in Blocks
  BY ConnectingFacts DEF RefuseScript
<1>2. ~verifying /\ pc # "write"
  BY <1>1, ConnectingFacts
<1>3. tip' \in Cache /\ TipCoins' = TipCoins
  BY <1>1 DEF IndInv, TypeInv, Refuse, disk, TipCoins
<1> QED BY <1>1, <1>2, <1>3, RefuseInd

LEMMA SpentCoin ==
  ASSUME IndInv, Connecting, j <= Len(Vin[Tx]), InputsValid(cur, i)
  PROVE  LET out  == Vin[Tx][j]
             coin == [ViewCoins[out[1]] EXCEPT !.vout = @ \ {out[2]}]
         IN /\ out[1] \in Txs /\ coin \in Coins
            /\ coin.vout = Left(cur, i, j + 1, out[1])
            /\ coin.nHeight = At(Before(cur, i), out[1])
            /\ coin.fCoinBase = IsCoinBase(out[1])
            /\ Undo(coin) = UndoIn(cur, i, j) /\ Undo(coin) \in Nat \X BOOLEAN
<1> DEFINE out == Vin[Tx][j]
           t == out[1]
           o == out[2]
           v == Left(cur, i, j, t)
           h == At(Before(cur, i), t)
           c == ViewCoins[t]
           coin == [c EXCEPT !.vout = @ \ {o}]
<1>1. /\ cur \in Blocks \ {Genesis} /\ i \in DOMAIN Vtx[cur] /\ i \in 1 .. Len(Vtx[cur]) + 1
      /\ Tx = Vtx[cur][i] /\ Tx \in Txs /\ ViewCoins \in Cache /\ j \in 1 .. Len(Vin[Tx]) + 1
      /\ Len(Vin[Tx]) \in Nat
  BY ConnectingFacts DEF Connecting
<1>2. j \in DOMAIN Vin[Tx] /\ t \in Txs /\ o \in Nat
  BY <1>1, VinFacts
<1>3. o \in v /\ Left(cur, i, j + 1, t) = v \ {o}
  <2>1. o \in Unspent(Before(cur, i), t)
    BY <1>1, <1>2 DEF InputsValid
  <2>2. j \in DOMAIN Vin[Vtx[cur][i]] /\ out = Vin[Vtx[cur][i]][j]
    BY <1>1, <1>2
  <2>3. Left(cur, i, j + 1, t) = v \ {o}
    BY <1>1, <1>2, <2>2, LeftInput
  <2>4. o \in v
    BY <1>1, <1>2, <2>1, <2>2, LeftInput
  <2> QED BY <2>3, <2>4
<1>4. v \in SUBSET Nat /\ h \in Nat
  BY <1>1, <1>2, <1>3, PlaceFacts
<1>5. Shown(ViewCoins)[t] = Coin(t, v, h)
  BY <1>2 DEF IndInv, ConnectInv, Connecting, Mid
<1> HIDE DEF out, t, o, v, h
<1>6. c \in Coins /\ c.vout = v /\ c.nHeight = h /\ c.fCoinBase = IsCoinBase(t)
  <2>1. v # {} /\ t \in Txs /\ ViewCoins \in Cache
    BY <1>1, <1>2, <1>3
  <2>2. /\ ViewCoins[t] \in Coins /\ ViewCoins[t].vout = v /\ ViewCoins[t].nHeight = h
        /\ ViewCoins[t].fCoinBase = IsCoinBase(t)
    BY ONLY <2>1, <1>4, <1>5, Seen
  <2> QED BY ONLY <2>2
<1> HIDE DEF c
<1>8. coin \in Coins /\ coin.vout = v \ {o} /\ coin.nHeight = h
      /\ coin.fCoinBase = IsCoinBase(t)
  BY <1>3, <1>4, <1>6 DEF Coins
<1> HIDE DEF coin
<1>10. Undo(coin) \in Nat \X BOOLEAN
  BY <1>8 DEF Undo, Coins
<1>11. Undo(coin) = UndoIn(cur, i, j)
  <2>1. UndoIn(cur, i, j) = IF v \ {o} = {} THEN <<h, IsCoinBase(t)>> ELSE <<0, FALSE>>
    BY <1>1, <1>3 DEF UndoIn, out, t, h
  <2> QED BY <1>8, <2>1 DEF Undo
<1> QED BY <1>2, <1>3, <1>8, <1>10, <1>11 DEF coin, c, out, t, o, h

LEMMA SpendInputInd == ASSUME IndInv, SpendInput PROVE IndInv'
<1> USE DEF disk, index
<1> DEFINE out == Vin[Tx][j]
           t == out[1]
           coin == [ViewCoins[t] EXCEPT !.vout = @ \ {out[2]}]
           filled == FetchCoins(view, TipCoins, InputTxs)
<1>1. /\ Connecting /\ pc = "connect" /\ j <= Len(Vin[Tx])
      /\ Read(InputTxs) /\ view' = [filled EXCEPT ![t] = coin]
      /\ txundo' = Append(txundo, Undo(coin)) /\ j' = j + 1
      /\ UNCHANGED <<db, dbBest, undo, tipBest, viewBest, active, failed, pc, cur, i, blockundo,
                     fClean, verifying, nStops>>
  BY DEF SpendInput, Connecting
<1>2. InputsValid(cur, i)
  <2>1. j = 1 => CheckInputs
    BY DEF SpendInput
  <2>2. CASE j = 1
    BY <1>1, <2>1, <2>2, CheckInputsIs
  <2>3. CASE j > 1
    BY <1>1, <2>3 DEF IndInv, ConnectInv
  <2>4. j = 1 \/ j > 1
    BY <1>1, ConnectingFacts DEF Connecting
  <2> QED BY <2>2, <2>3, <2>4
<1>3. /\ cur \in Blocks \ {Genesis} /\ i \in DOMAIN Vtx[cur] /\ i \in 1 .. Len(Vtx[cur]) + 1
      /\ Tx = Vtx[cur][i] /\ Tx \in Txs /\ j \in 1 .. Len(Vin[Tx]) + 1 /\ Len(Vin[Tx]) \in Nat
      /\ Tx' = Tx
  BY <1>1, ConnectingFacts DEF Connecting, Tx
<1>4. /\ t \in Txs /\ coin \in Coins /\ coin.vout = Left(cur, i, j + 1, t)
      /\ coin.nHeight = At(Before(cur, i), t) /\ coin.fCoinBase = IsCoinBase(t)
      /\ Undo(coin) = UndoIn(cur, i, j) /\ Undo(coin) \in Nat \X BOOLEAN
  BY <1>1, <1>2, SpentCoin
<1>6. tip' \in Cache /\ TipCoins' = TipCoins
  BY <1>1, ReadFacts DEF IndInv
<1>7. view \in Cache /\ TipCoins \in Cache
  BY LayerTypes DEF IndInv, TypeInv
<1>8. filled \in Cache /\ Over(filled, TipCoins) = ViewCoins
  BY <1>7, FetchFacts DEF ViewCoins
<1> HIDE DEF coin, filled
<1>9. view' \in Cache /\ \A x \in Txs : ViewCoins'[x] = IF x = t THEN coin ELSE ViewCoins[x]
  <2>1. t \in Txs /\ coin \in Coins
    BY <1>4
  <2> HIDE DEF t
  <2>2. view' \in Cache /\ \A x \in Txs : Over(view', TipCoins)[x]
                                         = IF x = t THEN coin ELSE Over(filled, TipCoins)[x]
    BY <1>1, <1>7, <1>8, <2>1, ViewAssumption DEF Cache, Over
  <2> QED BY <1>6, <1>8, <2>2 DEF ViewCoins
<1>10. TypeInv'
  <2>1. txundo' \in Seq(Nat \X BOOLEAN) /\ j' \in Nat
    BY <1>1, <1>4 DEF IndInv, TypeInv
  <2> QED BY <1>1, <1>6, <1>9, <2>1 DEF IndInv, TypeInv
<1>11. UndoInv'
  BY <1>1, UndoKept DEF IndInv, TypeInv, UndoInv
<1>12. LayersInv'
  BY <1>1, <1>6, LowerLayers DEF LayersInv
<1>13. BestInv'
  BY <1>1 DEF IndInv, BestInv
<1>14. ConnectInv'
  <2>1. ASSUME NEW x \in Txs PROVE Shown(ViewCoins')[x] = Mid(cur, i, j + 1, x)
    <3>1. ViewCoins' \in Cache /\ ViewCoins \in Cache
      BY <1>6, <1>7, <1>9, OverFacts DEF ViewCoins
    <3>2. CASE x # t
      <4>1. Left(cur, i, j + 1, x) = Left(cur, i, j, x)
        BY <1>1, <1>3, <3>2, LeftInput, VinFacts
      <4>2. Shown(ViewCoins')[x] = Shown(ViewCoins)[x]
        BY <1>9, <3>1, <3>2 DEF Shown
      <4> QED BY <1>1, <4>1, <4>2 DEF IndInv, ConnectInv, Mid
    <3>3. CASE x = t
      <4>1. ViewCoins'[t] = coin
        BY <1>4, <1>9
      <4>2. Left(cur, i, j + 1, t) \in SUBSET Nat
        BY <1>3, <1>4, PlaceFacts
      <4>4. Shown(ViewCoins')[t] = Coin(t, Left(cur, i, j + 1, t), At(Before(cur, i), t))
        BY <1>4, <3>1, <4>1, <4>2, Shows
      <4> QED BY <3>3, <4>4 DEF Mid
    <3> QED BY <3>2, <3>3
  <2>2. Len(txundo') = j' - 1 /\ \A n \in 1 .. (j' - 1) : txundo'[n] = UndoIn(cur', i', n)
    <3>1. /\ txundo \in Seq(Nat \X BOOLEAN) /\ Len(txundo) = j - 1 /\ j \in Nat /\ j >= 1
          /\ \A n \in 1 .. (j - 1) : txundo[n] = UndoIn(cur, i, n)
      BY <1>1, <1>3 DEF IndInv, TypeInv, ConnectInv
    <3> QED BY <1>1, <1>4, <3>1
  <2>3. j' \in 1 .. Len(Vin[Tx]) + 1 /\ i <= Len(Vtx[cur])
    BY <1>1, <1>3 DEF Connecting
  <2>4. /\ cur # Genesis /\ Prev[cur] = viewBest /\ (verifying => cur \in Anc[active])
        /\ i \in 1 .. Len(Vtx[cur]) + 1
        /\ OverwritesNone(cur) /\ \A k \in 1 .. (i - 1) : InputsValid(cur, k)
        /\ Len(blockundo) = (IF i = 1 THEN 0 ELSE i - 2)
        /\ \A k \in 1 .. Len(blockundo) : blockundo[k] = UndoTx(cur, k + 1)
    BY <1>1 DEF IndInv, ConnectInv
  <2>5. ~(i > Len(Vtx[cur]))
    BY <2>3, <1>3, TxFacts
  <2> QED BY <1>1, <1>2, <1>3, <2>1, <2>2, <2>3, <2>4, <2>5 DEF ConnectInv
<1>15. DisconnectInv'
  BY <1>1 DEF DisconnectInv
<1> QED BY <1>10, <1>11, <1>12, <1>13, <1>14, <1>15 DEF IndInv

LEMMA CCoinsFacts ==
  ASSUME NEW t \in Txs, NEW h \in Nat
  PROVE  /\ CCoins(t, h) \in Coins /\ CCoins(t, h).vout = Outs[t] /\ CCoins(t, h).nHeight = h
         /\ CCoins(t, h).fCoinBase = IsCoinBase(t) /\ Outs[t] \in SUBSET Nat
<1>1. CCoins(t, h) = [fCoinBase |-> IsCoinBase(t), vout |-> Outs[t], nHeight |-> h]
  BY Zenon DEF CCoins, IsCoinBase
<1>2. IsCoinBase(t) \in BOOLEAN
  BY DEF IsCoinBase
<1> QED BY <1>1, <1>2, TxsAssumption DEF Coins

LEMMA AddOutputsInd == ASSUME IndInv, AddOutputs PROVE IndInv'
<1> USE DEF disk, index
<1> DEFINE coin == CCoins(Tx, Height[cur])
<1>1. /\ Connecting /\ pc = "connect" /\ j > Len(Vin[Tx]) /\ view' = [view EXCEPT ![Tx] = coin]
      /\ blockundo' = (IF Tx \in Coinbases THEN blockundo ELSE Append(blockundo, txundo))
      /\ txundo' = << >> /\ i' = i + 1 /\ j' = 1
      /\ UNCHANGED <<db, dbBest, undo, tip, tipBest, viewBest, active, failed, pc, cur, fClean,
                     verifying, nStops>>
  BY DEF AddOutputs, Connecting
<1>2. /\ cur \in Blocks \ {Genesis} /\ i \in DOMAIN Vtx[cur] /\ i \in Nat /\ i >= 1
      /\ i <= Len(Vtx[cur]) /\ Len(Vtx[cur]) \in Nat
      /\ Tx = Vtx[cur][i] /\ Tx \in Txs /\ j = Len(Vin[Tx]) + 1 /\ Len(Vin[Tx]) \in Nat
  BY <1>1, ConnectingFacts, TxFacts DEF Connecting
<1>3. /\ coin \in Coins /\ coin.vout = Outs[Tx] /\ coin.nHeight = Height[cur]
      /\ coin.fCoinBase = IsCoinBase(Tx) /\ Outs[Tx] \in SUBSET Nat
  BY <1>2, TreeFacts, CCoinsFacts
<1> HIDE DEF coin
<1>4. TipCoins' = TipCoins
  BY <1>1 DEF TipCoins
<1>5. view \in Cache /\ TipCoins \in Cache
  BY LayerTypes DEF IndInv, TypeInv
<1>6. view' \in Cache /\ \A x \in Txs : ViewCoins'[x] = IF x = Tx THEN coin ELSE ViewCoins[x]
  <2>1. view' \in Cache /\ \A x \in Txs : Over(view', TipCoins)[x]
                                         = IF x = Tx THEN coin ELSE Over(view, TipCoins)[x]
    BY <1>1, <1>2, <1>3, <1>5, ViewAssumption DEF Cache, Over
  <2> QED BY <1>4, <2>1 DEF ViewCoins
<1>7. Tx \in Coinbases <=> i = 1
  BY <1>2, TxsAssumption
<1>8. /\ blockundo \in Seq(Seq(Nat \X BOOLEAN)) /\ txundo \in Seq(Nat \X BOOLEAN)
      /\ Len(blockundo) = (IF i = 1 THEN 0 ELSE i - 2)
      /\ \A k \in 1 .. Len(blockundo) : blockundo[k] = UndoTx(cur, k + 1)
      /\ Len(txundo) = Len(Vin[Tx]) /\ \A n \in 1 .. Len(Vin[Tx]) : txundo[n] = UndoIn(cur, i, n)
  BY <1>1, <1>2 DEF IndInv, TypeInv, ConnectInv
<1>9. txundo = UndoTx(cur, i)
  BY <1>2, <1>8 DEF UndoTx
<1>10. TypeInv'
  <2>1. /\ txundo' \in Seq(Nat \X BOOLEAN) /\ i' \in Nat /\ j' \in Nat
        /\ blockundo' \in Seq(Seq(Nat \X BOOLEAN))
    BY <1>1, <1>2, <1>8
  <2> QED BY <1>1, <1>6, <2>1 DEF IndInv, TypeInv
<1>11. UndoInv'
  BY <1>1, UndoKept DEF IndInv, TypeInv, UndoInv
<1>12. LayersInv'
  BY <1>1, <1>4, LowerLayers DEF LayersInv
<1>13. BestInv'
  BY <1>1 DEF IndInv, BestInv
<1>14. ConnectInv'
  <2>1. ASSUME NEW x \in Txs PROVE Shown(ViewCoins')[x] = Mid(cur, i + 1, 1, x)
    <3>1. ViewCoins' \in Cache /\ ViewCoins \in Cache
      BY <1>4, <1>5, <1>6, OverFacts DEF ViewCoins
    <3>2. CASE x # Tx
      <4>1. Shown(ViewCoins')[x] = Shown(ViewCoins)[x]
        BY <1>6, <3>1, <3>2 DEF Shown
      <4>2. Shown(ViewCoins)[x] = Mid(cur, i, Len(Vin[Tx]) + 1, x)
        BY <1>1, <1>2 DEF IndInv, ConnectInv
      <4> QED BY <1>2, <3>2, <4>1, <4>2, MidNext
    <3>3. CASE x = Tx
      <4>1. ViewCoins'[Tx] = coin
        BY <1>2, <1>6
      <4>2. Shown(ViewCoins')[Tx] = Coin(Tx, Outs[Tx], Height[cur])
        BY <1>2, <1>3, <3>1, <4>1, Shows
      <4> QED BY <1>2, <3>3, <4>2, MidNext
    <3> QED BY <3>2, <3>3
  <2>2. /\ Len(blockundo') = (IF i' = 1 THEN 0 ELSE i' - 2)
        /\ \A k \in 1 .. Len(blockundo') : blockundo'[k] = UndoTx(cur, k + 1)
    <3>1. CASE i = 1
      BY <1>1, <1>7, <1>8, <3>1
    <3>2. CASE i # 1
      <4>1. blockundo' = Append(blockundo, txundo) /\ Len(blockundo) = i - 2
        BY <1>1, <1>7, <1>8, <3>2
      <4>2. /\ Len(blockundo') = i - 1 /\ blockundo'[i - 1] = UndoTx(cur, i)
            /\ \A k \in 1 .. (i - 2) : blockundo'[k] = blockundo[k]
        BY <1>2, <1>8, <1>9, <3>2, <4>1
      <4>3. ASSUME NEW k \in 1 .. (i - 1) PROVE blockundo'[k] = UndoTx(cur, k + 1)
        <5>1. CASE k = i - 1
          BY <1>2, <4>2, <5>1
        <5>2. CASE k # i - 1
          BY <1>2, <1>8, <4>1, <4>2, <5>2
        <5> QED BY <5>1, <5>2
      <4> QED BY <1>1, <1>2, <3>2, <4>2, <4>3
    <3> QED BY <3>1, <3>2
  <2>3. /\ cur # Genesis /\ Prev[cur] = viewBest /\ (verifying => cur \in Anc[active])
        /\ OverwritesNone(cur) /\ \A k \in 1 .. (i - 1) : InputsValid(cur, k)
        /\ j > 1 => InputsValid(cur, i)
    BY <1>1 DEF IndInv, ConnectInv
  <2>4. InputsValid(cur, i)
    <3>1. CASE Len(Vin[Tx]) = 0
      BY <1>2, <3>1, VinFacts DEF InputsValid
    <3>2. CASE Len(Vin[Tx]) > 0
      BY <1>2, <2>3, <3>2
    <3> QED BY <1>2, <3>1, <3>2
  <2>5. \A k \in 1 .. (i' - 1) : InputsValid(cur, k)
    BY <1>1, <1>2, <2>3, <2>4
  <2>6. i' \in 1 .. Len(Vtx[cur]) + 1
    BY <1>1, <1>2
  <2>7. i' <= Len(Vtx[cur]) => j' \in 1 .. Len(Vin[Vtx[cur][i']]) + 1
    BY <1>1, <1>2, <2>6, TxFacts, VinFacts
  <2>8. Len(txundo') = j' - 1 /\ 1 .. (j' - 1) = {} /\ ~(j' > 1)
    BY <1>1
  <2> QED BY <1>1, <2>1, <2>2, <2>3, <2>5, <2>6, <2>7, <2>8 DEF ConnectInv, Tx
<1>15. DisconnectInv'
  BY <1>1 DEF DisconnectInv
<1> QED BY <1>10, <1>11, <1>12, <1>13, <1>14, <1>15 DEF IndInv

LEMMA UndoComplete ==
  ASSUME IndInv, pc = "connect", i > Len(Vtx[cur])
  PROVE  blockundo = UndoBlock(cur) /\ blockundo \in Seq(Seq(Nat \X BOOLEAN))
<1>1. /\ cur \in Blocks \ {Genesis} /\ i = Len(Vtx[cur]) + 1
      /\ Len(Vtx[cur]) \in Nat /\ Len(Vtx[cur]) >= 1
  BY ConnectingFacts, TxFacts
<1>2. /\ blockundo \in Seq(Seq(Nat \X BOOLEAN)) /\ Len(blockundo) = (IF i = 1 THEN 0 ELSE i - 2)
      /\ \A k \in 1 .. Len(blockundo) : blockundo[k] = UndoTx(cur, k + 1)
  BY DEF IndInv, TypeInv, ConnectInv
<1>3. Len(blockundo) = Len(Vtx[cur]) - 1
  BY <1>1, <1>2
<1>4. \A k \in 1 .. Len(Vtx[cur]) - 1 : blockundo[k] = UndoTx(cur, k + 1)
  BY <1>2, <1>3
<1>5. blockundo = [k \in 1 .. Len(Vtx[cur]) - 1 |-> UndoTx(cur, k + 1)]
  <2>1. blockundo = [k \in 1 .. Len(Vtx[cur]) - 1 |-> blockundo[k]]
    BY <1>2, <1>3, LenProperties
  <2> QED BY <1>4, <2>1
<1> QED BY <1>2, <1>5 DEF UndoBlock

LEMMA ConnectBlockReturnsInd == ASSUME IndInv, ConnectBlockReturns PROVE IndInv'
<1> USE DEF index, call
<1>1. /\ pc = "connect" /\ i > Len(Vtx[cur]) /\ cur \notin BadScript
      /\ undo' = (IF undo[cur] = NoUndo THEN [undo EXCEPT ![cur] = blockundo] ELSE undo)
      /\ viewBest' = cur /\ pc' = (IF verifying THEN "reconnect" ELSE "flush")
      /\ UNCHANGED <<db, dbBest, tip, tipBest, view, active, failed, cur, i, j, blockundo, txundo,
                     fClean, verifying, nStops>>
  BY DEF ConnectBlockReturns
<1>2. /\ cur \in Blocks \ {Genesis} /\ Prev[cur] = viewBest /\ i = Len(Vtx[cur]) + 1 /\ j = 1
      /\ Len(Vtx[cur]) \in Nat /\ Len(Vtx[cur]) >= 1 /\ DOMAIN Vtx[cur] = 1 .. Len(Vtx[cur])
  BY <1>1, ConnectingFacts, TxFacts
<1>3. Valid(cur)
  <2>1. OverwritesNone(cur) /\ \A k \in 1 .. Len(Vtx[cur]) : InputsValid(cur, k)
    BY <1>1, <1>2 DEF IndInv, ConnectInv
  <2> QED BY <1>2, <2>1, ValidIs
<1>4. blockundo = UndoBlock(cur) /\ blockundo \in Seq(Seq(Nat \X BOOLEAN))
  BY <1>1, UndoComplete
<1>5. /\ undo' \in [Blocks -> Seq(Seq(Nat \X BOOLEAN)) \union {NoUndo}]
      /\ undo'[cur] = UndoBlock(cur) /\ undo'[cur] # NoUndo
      /\ \A c \in Blocks : c # cur => undo'[c] = undo[c]
  <2>1. undo \in [Blocks -> Seq(Seq(Nat \X BOOLEAN)) \union {NoUndo}]
    BY DEF IndInv, TypeInv
  <2>2. undo[cur] # NoUndo => undo[cur] = UndoBlock(cur)
    BY <1>2 DEF IndInv, UndoInv
  <2> QED BY <1>1, <1>2, <1>4, <2>1, <2>2, ViewAssumption
<1>6. TypeInv'
  BY <1>1, <1>2, <1>5 DEF IndInv, TypeInv
<1>7. UndoInv'
  <2>1. \A c \in Blocks : Stored(c) => \A d \in Anc[c] \ {Genesis} : undo'[d] # NoUndo
    BY <1>2, <1>5, TreeFacts DEF Stored
  <2>2. \A d \in Anc[cur] \ {Genesis} : undo'[d] # NoUndo
    <3>1. Anc[cur] = Anc[viewBest] \union {cur} /\ viewBest \in Blocks
      BY <1>2, BlocksAssumption
    <3>2. Stored(viewBest)
      BY DEF IndInv, UndoInv
    <3> QED BY <1>5, <2>1, <3>1, <3>2
  <2>3. \A b \in Blocks : undo'[b] # NoUndo =>
          /\ b # Genesis /\ Valid(b) /\ b \notin BadScript /\ undo'[b] = UndoBlock(b)
          /\ \A d \in Anc[b] \ {Genesis} : undo'[d] # NoUndo
    <3> SUFFICES ASSUME NEW b \in Blocks, undo'[b] # NoUndo
                 PROVE  /\ b # Genesis /\ Valid(b) /\ b \notin BadScript /\ undo'[b] = UndoBlock(b)
                        /\ \A d \in Anc[b] \ {Genesis} : undo'[d] # NoUndo
      OBVIOUS
    <3>1. CASE b = cur
      BY <1>1, <1>2, <1>3, <1>5, <2>2, <3>1
    <3>2. CASE b # cur
      BY <1>5, <2>1, <3>2 DEF IndInv, UndoInv
    <3> QED BY <3>1, <3>2
  <2>4. dbBest \in Blocks /\ tipBest \in Blocks /\ active \in Blocks
        /\ Stored(dbBest) /\ Stored(tipBest) /\ Stored(active)
    BY DEF IndInv, TypeInv, UndoInv
  <2> QED BY <1>1, <2>1, <2>2, <2>3, <2>4 DEF UndoInv, Stored
<1>8. TipCoins' = TipCoins /\ ViewCoins' = ViewCoins
  BY <1>1 DEF TipCoins, ViewCoins
<1>9. LayersInv'
  <2>1. \A t \in Txs : Shown(ViewCoins)[t] = Mid(cur, Len(Vtx[cur]) + 1, 1, t)
    BY <1>1, <1>2 DEF IndInv, ConnectInv
  <2>2. \A t \in Txs : Shown(ViewCoins')[t] = CoinsOf(viewBest')[t]
    BY <1>1, <1>2, <1>8, <2>1, MidEnds
  <2>3. pc' \notin {"idle", "write", "down"}
    BY <1>1
  <2> QED BY <1>1, <1>8, <2>2, <2>3, LowerLayers DEF LayersInv
<1>10. BestInv'
  <2>1. CASE verifying
    BY <1>1, <2>1 DEF IndInv, BestInv, ConnectInv
  <2>2. CASE ~verifying
    BY <1>1, <1>2, <1>3, <2>2 DEF IndInv, BestInv
  <2> QED BY <2>1, <2>2
<1>11. ConnectInv' /\ DisconnectInv'
  BY <1>1 DEF ConnectInv, DisconnectInv
<1> QED BY <1>6, <1>7, <1>9, <1>10, <1>11 DEF IndInv

-----------------------------------------------------------------------------
(* DisconnectBlock                                                         *)

(* a block on the view's chain has its undo data *)
LEMMA UndoThere ==
  ASSUME IndInv, viewBest # Genesis
  PROVE  /\ viewBest \in Blocks \ {Genesis} /\ Valid(viewBest) /\ undo[viewBest] # NoUndo
         /\ undo[viewBest] = UndoBlock(viewBest) /\ Len(undo[viewBest]) + 1 = Len(Vtx[viewBest])
<1>1. viewBest \in Blocks \ {Genesis}
  BY DEF IndInv, TypeInv
<1>2. undo[viewBest] # NoUndo
  BY <1>1, TreeFacts DEF IndInv, UndoInv, Stored
<1>3. Valid(viewBest) /\ undo[viewBest] = UndoBlock(viewBest)
  BY <1>1, <1>2 DEF IndInv, UndoInv
<1>4. undo[viewBest] \in Seq(Seq(Nat \X BOOLEAN))
  BY <1>1, <1>2 DEF IndInv, TypeInv
<1>5. DOMAIN UndoBlock(viewBest) = 1 .. Len(Vtx[viewBest]) - 1
  BY DEF UndoBlock
<1>6. Len(Vtx[viewBest]) \in Nat /\ Len(Vtx[viewBest]) >= 1
  BY <1>1, TxFacts
<1>7. Len(undo[viewBest]) = Len(Vtx[viewBest]) - 1
  BY <1>3, <1>4, <1>5, <1>6, LenProperties
<1> QED BY <1>1, <1>2, <1>3, <1>6, <1>7

LEMMA DisconnectBlockInd == ASSUME IndInv, DisconnectBlock PROVE IndInv'
<1> USE DEF disk, caches, index
<1>1. /\ pc = "idle" \/ pc = "verify"
      /\ viewBest # Genesis
      /\ pc' = "remove" /\ cur' = viewBest /\ i' = Len(Vtx[viewBest])
      /\ fClean' = (undo[viewBest] # NoUndo /\ Len(undo[viewBest]) + 1 = Len(Vtx[viewBest]))
      /\ UNCHANGED <<db, dbBest, undo, tip, tipBest, view, viewBest, active, failed, j, blockundo,
                     txundo, verifying, nStops>>
  BY DEF DisconnectBlock
<1>2. fClean' = TRUE
  BY <1>1, UndoThere
<1>3. viewBest \in Blocks \ {Genesis} /\ Len(Vtx[viewBest]) \in Nat
  BY <1>1, UndoThere, TxFacts
<1>4. TipCoins' = TipCoins /\ ViewCoins' = ViewCoins
  BY <1>1 DEF TipCoins, ViewCoins
<1>5. TypeInv'
  BY <1>1, <1>2, <1>3 DEF IndInv, TypeInv
<1>6. UndoInv'
  BY <1>1, UndoKept DEF IndInv, TypeInv, UndoInv
<1>7. LayersInv'
  BY <1>1, <1>4, LowerLayers DEF LayersInv
<1>8. BestInv'
  BY <1>1 DEF IndInv, BestInv, LayersInv
<1>9. ConnectInv'
  BY <1>1 DEF ConnectInv
<1>10. DisconnectInv'
  <2>1. \A t \in Txs : Shown(ViewCoins')[t] = Mid(cur', i' + 1, 1, t)
    BY <1>1, <1>3, <1>4, ViewAtRest, MidEnds
  <2>2. i' \in 0 .. Len(Vtx[cur'])
    BY <1>1, <1>3
  <2> QED BY <1>1, <1>2, <2>1, <2>2 DEF DisconnectInv
<1> QED BY <1>5, <1>6, <1>7, <1>8, <1>9, <1>10 DEF IndInv

(* where DisconnectBlock stands *)
LEMMA DisconnectingFacts ==
  ASSUME IndInv, pc \in {"remove", "restore"}
  PROVE  /\ cur \in Blocks \ {Genesis} /\ cur = viewBest /\ fClean
         /\ Valid(cur) /\ OverwritesNone(cur) /\ undo[cur] = UndoBlock(cur)
         /\ ViewCoins \in Cache /\ view \in Cache /\ TipCoins \in Cache
         /\ (pc = "restore" \/ i > 0) =>
              /\ i \in DOMAIN Vtx[cur] /\ i \in 1 .. Len(Vtx[cur]) + 1 /\ Len(Vtx[cur]) \in Nat
              /\ Tx = Vtx[cur][i] /\ Tx \in Txs /\ Len(Vin[Tx]) \in Nat
              /\ DOMAIN Vin[Tx] = 1 .. Len(Vin[Tx])
              /\ InputsValid(cur, i)
<1>1. cur # Genesis /\ cur = viewBest /\ fClean
  BY DEF IndInv, DisconnectInv
<1>2. cur \in Blocks \ {Genesis} /\ Valid(cur) /\ undo[cur] = UndoBlock(cur)
  BY <1>1, UndoThere
<1>3. OverwritesNone(cur) /\ \A k \in DOMAIN Vtx[cur] : InputsValid(cur, k)
  BY <1>2, ValidIs
<1>4. ViewCoins \in Cache /\ view \in Cache /\ TipCoins \in Cache
  BY LayerTypes DEF IndInv, TypeInv
<1>5. ASSUME pc = "restore" \/ i > 0
      PROVE  i \in DOMAIN Vtx[cur] /\ i \in 1 .. Len(Vtx[cur]) + 1 /\ Len(Vtx[cur]) \in Nat
  <2>1. /\ pc = "remove" => i \in 0 .. Len(Vtx[cur])
        /\ pc = "restore" => i \in 1 .. Len(Vtx[cur])
    BY DEF IndInv, DisconnectInv
  <2> QED BY <1>2, <1>5, <2>1, TxFacts
<1>6. i \in DOMAIN Vtx[cur] =>
        /\ Tx = Vtx[cur][i] /\ Tx \in Txs /\ Len(Vin[Tx]) \in Nat /\ DOMAIN Vin[Tx] = 1 .. Len(Vin[Tx])
  BY <1>2, TxFacts, VinFacts DEF Tx
<1> QED BY <1>1, <1>2, <1>3, <1>4, <1>5, <1>6

LEMMA RemoveOutputsInd == ASSUME IndInv, RemoveOutputs PROVE IndInv'
<1> USE DEF disk, index
<1>1. /\ pc = "remove" /\ i > 0 /\ Read({Tx})
      /\ fClean' = SameCoins(ViewCoins[Tx], CCoins(Tx, Height[cur]))
      /\ view' = (IF ViewCoins[Tx] = NoCoins THEN view ELSE [view EXCEPT ![Tx] = EmptyCoins])
      /\ pc' = "restore" /\ j' = Len(Vin[Tx])
      /\ UNCHANGED <<db, dbBest, undo, tipBest, viewBest, active, failed, cur, i, blockundo, txundo,
                     verifying, nStops>>
  BY DEF RemoveOutputs
<1>2. /\ cur \in Blocks \ {Genesis} /\ cur = viewBest /\ OverwritesNone(cur)
      /\ ViewCoins \in Cache /\ view \in Cache /\ TipCoins \in Cache
      /\ i \in DOMAIN Vtx[cur] /\ i \in 1 .. Len(Vtx[cur]) + 1 /\ Len(Vtx[cur]) \in Nat
      /\ Tx = Vtx[cur][i] /\ Tx \in Txs /\ Len(Vin[Tx]) \in Nat
  BY <1>1, DisconnectingFacts
<1>3. tip' \in Cache /\ TipCoins' = TipCoins
  BY <1>1, ReadFacts DEF IndInv
<1>4. /\ EmptyCoins \in Coins /\ EmptyCoins # NoCoins /\ IsPruned(EmptyCoins)
  <2>1. EmptyCoins \in Coins
    BY DEF EmptyCoins, Coins
  <2>2. EmptyCoins.vout = {}
    BY DEF EmptyCoins
  <2> QED BY <2>1, <2>2, ViewAssumption DEF IsPruned
<1>5. /\ view' \in Cache
      /\ \A x \in Txs : x # Tx => ViewCoins'[x] = ViewCoins[x]
      /\ IsPruned(ViewCoins'[Tx])
  <2>1. CASE ViewCoins[Tx] = NoCoins
    BY <1>1, <1>2, <1>3, <2>1 DEF ViewCoins, IsPruned
  <2>2. CASE ViewCoins[Tx] # NoCoins
    <3>1. view' \in Cache /\ \A x \in Txs : Over(view', TipCoins)[x]
                                          = IF x = Tx THEN EmptyCoins ELSE Over(view, TipCoins)[x]
      BY <1>1, <1>2, <1>4, <2>2 DEF Cache, Over
    <3> QED BY <1>2, <1>3, <1>4, <3>1 DEF ViewCoins
  <2> QED BY <2>1, <2>2
<1>6. \A t \in Txs : Shown(ViewCoins)[t] = Mid(cur, i + 1, 1, t)
  BY <1>1 DEF IndInv, DisconnectInv
<1>7. fClean' = TRUE
  <2> DEFINE h == Height[cur]
             c == CCoins(Tx, h)
  <2>1. /\ c \in Coins /\ c.vout = Outs[Tx] /\ c.nHeight = h
        /\ c.fCoinBase = IsCoinBase(Tx) /\ Outs[Tx] \in SUBSET Nat /\ h \in Nat
    BY <1>2, TreeFacts, CCoinsFacts
  <2>2. Shown(ViewCoins)[Tx] = Coin(Tx, Outs[Tx], h)
    BY <1>2, <1>6, MidNext
  <2> HIDE DEF h, c
  <2>3. CASE Outs[Tx] = {}
    <3>1. IsPruned(ViewCoins[Tx])
      BY <1>2, <2>2, <2>3, Pruned DEF Coin
    <3>2. IsPruned(c)
      BY <2>1, <2>3 DEF IsPruned
    <3> QED BY <1>1, <3>1, <3>2 DEF SameCoins, c, h
  <2>4. CASE Outs[Tx] # {}
    <3>1. ViewCoins[Tx] = Coin(Tx, Outs[Tx], h)
      BY <1>2, <2>1, <2>2, <2>4, Seen, Pruned
    <3>2. c = Coin(Tx, Outs[Tx], h)
      BY <2>1, <2>4 DEF Coin, Coins
    <3> QED BY <1>1, <3>1, <3>2 DEF SameCoins, c, h
  <2> QED BY <2>3, <2>4
<1>8. TypeInv'
  BY <1>1, <1>2, <1>3, <1>5, <1>7 DEF IndInv, TypeInv
<1>9. UndoInv'
  BY <1>1, UndoKept DEF IndInv, TypeInv, UndoInv
<1>10. LayersInv'
  BY <1>1, <1>3, LowerLayers DEF LayersInv
<1>11. BestInv'
  BY <1>1 DEF IndInv, BestInv
<1>12. ConnectInv'
  BY <1>1 DEF ConnectInv
<1>13. DisconnectInv'
  <2>1. ViewCoins' \in Cache
    BY <1>2, <1>3, <1>5, OverFacts DEF ViewCoins
  <2>2. ASSUME NEW x \in Txs PROVE Shown(ViewCoins')[x] = Mid(cur, i, Len(Vin[Tx]) + 1, x)
    <3>1. CASE x # Tx
      <4>1. Shown(ViewCoins')[x] = Shown(ViewCoins)[x]
        BY <1>2, <1>5, <2>1, <3>1 DEF Shown
      <4> QED BY <1>2, <1>6, <3>1, <4>1, MidNext
    <3>2. CASE x = Tx
      <4>1. Left(cur, i, Len(Vin[Tx]) + 1, Tx) = {}
        BY <1>2, NoneLeft DEF Left
      <4>2. Shown(ViewCoins')[Tx] = NoCoins
        BY <1>2, <1>5, <2>1, Pruned
      <4> QED BY <3>2, <4>1, <4>2 DEF Mid, Coin
    <3> QED BY <3>1, <3>2
  <2>3. Tx' = Tx /\ j' \in 0 .. Len(Vin[Tx]) /\ i \in 1 .. Len(Vtx[cur])
    BY <1>1, <1>2, TxFacts DEF Tx
  <2> QED BY <1>1, <1>2, <1>7, <2>2, <2>3 DEF DisconnectInv
<1> QED BY <1>8, <1>9, <1>10, <1>11, <1>12, <1>13 DEF IndInv

LEMMA RestoredCoin ==
  ASSUME IndInv, pc = "restore", j > 0
  PROVE  LET out  == Vin[Tx][j]
             u    == undo[cur][i - 1][j]
             have == ViewCoins[out[1]]
             coin == RestoredInto(u, have)
             new  == [coin EXCEPT !.vout = @ \union {out[2]}]
         IN /\ j \in DOMAIN Vin[Tx] /\ out[1] \in Txs
            /\ (u[1] # 0 <=> IsPruned(have)) /\ out[2] \notin coin.vout
            /\ new \in Coins /\ new.vout = Left(cur, i, j, out[1])
            /\ new.nHeight = At(Before(cur, i), out[1]) /\ new.fCoinBase = IsCoinBase(out[1])
<1> DEFINE out == Vin[Tx][j]
           t == out[1]
           o == out[2]
           u == undo[cur][i - 1][j]
           have == ViewCoins[t]
           coin == RestoredInto(u, have)
           new == [coin EXCEPT !.vout = @ \union {o}]
           v == Left(cur, i, j + 1, t)
           w == Left(cur, i, j, t)
           h == At(Before(cur, i), t)
<1>1. /\ cur \in Blocks \ {Genesis} /\ undo[cur] = UndoBlock(cur) /\ ViewCoins \in Cache
      /\ i \in DOMAIN Vtx[cur] /\ i \in 1 .. Len(Vtx[cur]) + 1 /\ Len(Vtx[cur]) \in Nat
      /\ Tx = Vtx[cur][i] /\ Tx \in Txs /\ Len(Vin[Tx]) \in Nat /\ DOMAIN Vin[Tx] = 1 .. Len(Vin[Tx])
      /\ InputsValid(cur, i)
  BY DisconnectingFacts
<1>2. j \in DOMAIN Vin[Tx] /\ j \in Nat /\ i \in Nat /\ i <= Len(Vtx[cur])
  BY <1>1, TxFacts DEF IndInv, TypeInv, DisconnectInv
<1>3. t \in Txs /\ o \in Nat
  BY <1>1, <1>2, VinFacts
<1>4. o \in w /\ v = w \ {o}
  <2>1. j \in DOMAIN Vin[Vtx[cur][i]] /\ out = Vin[Vtx[cur][i]][j]
    BY <1>1, <1>2
  <2>2. o \in Unspent(Before(cur, i), t)
    BY <1>1, <1>2 DEF InputsValid
  <2>3. v = w \ {o}
    BY <1>1, <1>3, <2>1, LeftInput
  <2>4. o \in w
    BY <1>1, <1>3, <2>1, <2>2, LeftInput
  <2> QED BY <2>3, <2>4
<1>5. w \in SUBSET Nat /\ h \in Nat /\ h >= 1
  BY <1>1, <1>3, <1>4, PlaceFacts
<1>6. Shown(ViewCoins)[t] = Coin(t, v, h)
  BY <1>3 DEF IndInv, DisconnectInv, Mid
<1>7. u = IF v = {} THEN <<h, IsCoinBase(t)>> ELSE <<0, FALSE>>
  <2>1. i # 1
    <3> SUFFICES ASSUME i = 1 PROVE FALSE
      OBVIOUS
    <3>1. Vin[Tx] = << >>
      BY <1>1, TxsAssumption
    <3> QED BY <1>2, <3>1
  <2>2. i - 1 \in 1 .. Len(Vtx[cur]) - 1 /\ (i - 1) + 1 = i
    BY <1>1, <1>2, <2>1
  <2>3. undo[cur][i - 1] = UndoTx(cur, i)
    BY <1>1, <2>2 DEF UndoBlock
  <2>4. u = UndoIn(cur, i, j)
    BY <1>1, <1>2, <2>3 DEF UndoTx
  <2> QED BY <1>1, <2>4 DEF UndoIn
<1> HIDE DEF out, t, o, u, v, w, h
<1>8. /\ IsPruned(have) <=> v = {}
      /\ v # {} => /\ have \in Coins /\ have # NoCoins
                   /\ have.vout = v /\ have.nHeight = h /\ have.fCoinBase = IsCoinBase(t)
  <2>1. v \in SUBSET Nat
    BY <1>4, <1>5
  <2> QED BY <1>1, <1>3, <1>5, <1>6, <2>1, Seen
<1> HIDE DEF have
<1>9. u[1] # 0 <=> v = {}
  BY <1>5, <1>7
<1>10. coin \in Coins /\ coin.vout = v /\ coin.nHeight = h /\ coin.fCoinBase = IsCoinBase(t)
  <2>1. CASE v = {}
    <3>1. u[1] = h /\ u[2] = IsCoinBase(t) /\ u[1] # 0
      BY <1>5, <1>7, <2>1
    <3>2. coin = [fCoinBase |-> IsCoinBase(t), vout |-> {}, nHeight |-> h]
      BY <3>1 DEF RestoredInto
    <3>3. IsCoinBase(t) \in BOOLEAN
      BY DEF IsCoinBase
    <3> QED BY <1>5, <2>1, <3>2, <3>3 DEF Coins
  <2>2. CASE v # {}
    BY <1>8, <1>9, <2>2 DEF RestoredInto
  <2> QED BY <2>1, <2>2
<1> HIDE DEF coin
<1>11. /\ new \in Coins /\ new.vout = w /\ new.nHeight = h /\ new.fCoinBase = IsCoinBase(t)
  <2>1. v \union {o} = w
    BY <1>4
  <2> QED BY <1>3, <1>5, <1>10, <2>1 DEF Coins
<1>12. o \notin coin.vout
  BY <1>4, <1>10
<1> HIDE DEF new
<1>13. j \in DOMAIN Vin[Tx] /\ t \in Txs /\ (u[1] # 0 <=> IsPruned(have)) /\ o \notin coin.vout
       /\ new \in Coins /\ new.vout = w /\ new.nHeight = h /\ new.fCoinBase = IsCoinBase(t)
  BY <1>2, <1>3, <1>8, <1>9, <1>11, <1>12
<1> QED BY <1>13 DEF new, coin, have, out, t, o, u, w, h

LEMMA RestoreInputInd == ASSUME IndInv, RestoreInput PROVE IndInv'
<1> USE DEF disk, index
<1> DEFINE out == Vin[Tx][j]
           t == out[1]
           u == undo[cur][i - 1][j]
           have == ViewCoins[t]
           coin == RestoredInto(u, have)
           new == [coin EXCEPT !.vout = @ \union {out[2]}]
<1>1. /\ pc = "restore" /\ j > 0 /\ Read({t})
      /\ fClean' = (fClean /\ (u[1] # 0 <=> IsPruned(have)) /\ out[2] \notin coin.vout)
      /\ view' = [view EXCEPT ![t] = new] /\ j' = j - 1
      /\ UNCHANGED <<db, dbBest, undo, tipBest, viewBest, active, failed, pc, cur, i, blockundo,
                     txundo, verifying, nStops>>
  BY DEF RestoreInput
<1>2. /\ cur \in Blocks \ {Genesis} /\ cur = viewBest /\ fClean
      /\ ViewCoins \in Cache /\ view \in Cache /\ TipCoins \in Cache
      /\ i \in DOMAIN Vtx[cur] /\ i \in 1 .. Len(Vtx[cur]) + 1
      /\ Tx = Vtx[cur][i] /\ Tx \in Txs
  BY <1>1, DisconnectingFacts
<1>3. /\ j \in DOMAIN Vin[Tx] /\ t \in Txs
      /\ (u[1] # 0 <=> IsPruned(have)) /\ out[2] \notin coin.vout
      /\ new \in Coins /\ new.vout = Left(cur, i, j, t)
      /\ new.nHeight = At(Before(cur, i), t) /\ new.fCoinBase = IsCoinBase(t)
  BY <1>1, RestoredCoin
<1>4. fClean' = TRUE
  BY <1>1, <1>2, <1>3
<1>5. tip' \in Cache /\ TipCoins' = TipCoins
  BY <1>1, ReadFacts DEF IndInv
<1> HIDE DEF new
<1>6. view' \in Cache /\ \A x \in Txs : ViewCoins'[x] = IF x = t THEN new ELSE ViewCoins[x]
  <2>1. t \in Txs /\ new \in Coins
    BY <1>3
  <2> HIDE DEF t
  <2>2. view' \in Cache /\ \A x \in Txs : Over(view', TipCoins)[x]
                                         = IF x = t THEN new ELSE Over(view, TipCoins)[x]
    BY <1>1, <1>2, <2>1, ViewAssumption DEF Cache, Over
  <2> QED BY <1>5, <2>2 DEF ViewCoins
<1>7. j \in 0 .. Len(Vin[Tx]) /\ i \in 1 .. Len(Vtx[cur]) /\ Len(Vin[Tx]) \in Nat
      /\ \A x \in Txs : Shown(ViewCoins)[x] = Mid(cur, i, j + 1, x)
  BY <1>1, <1>2, VinFacts DEF IndInv, DisconnectInv
<1>8. TypeInv'
  <2>1. j' \in Nat
    BY <1>1, <1>7
  <2> QED BY <1>1, <1>4, <1>5, <1>6, <2>1 DEF IndInv, TypeInv
<1>9. UndoInv'
  BY <1>1, UndoKept DEF IndInv, TypeInv, UndoInv
<1>10. LayersInv'
  BY <1>1, <1>5, LowerLayers DEF LayersInv
<1>11. BestInv'
  BY <1>1 DEF IndInv, BestInv
<1>12. ConnectInv'
  BY <1>1 DEF ConnectInv
<1>13. DisconnectInv'
  <2>1. ViewCoins' \in Cache
    BY <1>2, <1>5, <1>6, OverFacts DEF ViewCoins
  <2>2. ASSUME NEW x \in Txs PROVE Shown(ViewCoins')[x] = Mid(cur, i, j, x)
    <3>1. CASE x # t
      <4>1. Shown(ViewCoins')[x] = Shown(ViewCoins)[x]
        BY <1>2, <1>6, <2>1, <3>1 DEF Shown
      <4>2. Left(cur, i, j + 1, x) = Left(cur, i, j, x)
        <5>1. j \in DOMAIN Vin[Vtx[cur][i]] /\ x # Vin[Vtx[cur][i]][j][1]
          BY <1>2, <1>3, <3>1
        <5> QED BY <1>2, <5>1, LeftInput
      <4> QED BY <1>7, <4>1, <4>2 DEF Mid
    <3>2. CASE x = t
      <4>1. ViewCoins'[t] = new
        BY <1>3, <1>6
      <4>2. Left(cur, i, j, t) \in SUBSET Nat
        BY <1>2, <1>3, PlaceFacts
      <4>3. Shown(ViewCoins')[t] = Coin(t, Left(cur, i, j, t), At(Before(cur, i), t))
        BY <1>3, <2>1, <4>1, <4>2, Shows
      <4> QED BY <3>2, <4>3 DEF Mid
    <3> QED BY <3>1, <3>2
  <2>3. Tx' = Tx /\ j' \in 0 .. Len(Vin[Tx]) /\ j' + 1 = j
    <3>1. Tx' = Tx
      BY <1>1 DEF Tx
    <3>2. j' = j - 1 /\ j > 0
      BY <1>1
    <3> QED BY <1>7, <3>1, <3>2
  <2> QED BY <1>1, <1>2, <1>4, <1>7, <2>2, <2>3 DEF DisconnectInv
<1> QED BY <1>8, <1>9, <1>10, <1>11, <1>12, <1>13 DEF IndInv

LEMMA RestoredInd == ASSUME IndInv, Restored PROVE IndInv'
<1> USE DEF disk, caches, index
<1>1. /\ pc = "restore" /\ j = 0 /\ pc' = "remove" /\ i' = i - 1
      /\ UNCHANGED <<db, dbBest, undo, tip, tipBest, view, viewBest, active, failed, cur, j,
                     blockundo, txundo, fClean, verifying, nStops>>
  BY DEF Restored
<1>2. /\ cur # Genesis /\ cur = viewBest /\ fClean /\ cur \in Blocks /\ i \in 1 .. Len(Vtx[cur])
      /\ \A t \in Txs : Shown(ViewCoins)[t] = Mid(cur, i, 1, t)
  BY <1>1 DEF IndInv, TypeInv, DisconnectInv
<1>3. i' \in 0 .. Len(Vtx[cur]) /\ i' \in Nat /\ i' + 1 = i
  BY <1>1, <1>2, TxFacts
<1>4. TipCoins' = TipCoins /\ ViewCoins' = ViewCoins
  BY <1>1 DEF TipCoins, ViewCoins
<1>5. TypeInv'
  BY <1>1, <1>3 DEF IndInv, TypeInv
<1>6. UndoInv'
  BY <1>1, UndoKept DEF IndInv, TypeInv, UndoInv
<1>7. LayersInv'
  BY <1>1, <1>4, LowerLayers DEF LayersInv
<1>8. BestInv' /\ ConnectInv'
  BY <1>1 DEF IndInv, BestInv, ConnectInv
<1>9. DisconnectInv'
  BY <1>1, <1>2, <1>3, <1>4 DEF DisconnectInv
<1> QED BY <1>5, <1>6, <1>7, <1>8, <1>9 DEF IndInv

LEMMA DisconnectBlockReturnsInd == ASSUME IndInv, DisconnectBlockReturns PROVE IndInv'
<1> USE DEF disk, index, call
<1>1. pc = "remove" /\ fClean
  BY DisconnectingFacts DEF DisconnectBlockReturns
<1>2. /\ i = 0 /\ viewBest' = Prev[cur] /\ pc' = (IF verifying THEN "verify" ELSE "flush")
      /\ UNCHANGED <<db, dbBest, undo, tip, tipBest, view, active, failed, cur, i, j, blockundo,
                     txundo, fClean, verifying, nStops>>
  BY <1>1 DEF DisconnectBlockReturns
<1>3. cur \in Blocks \ {Genesis} /\ cur = viewBest /\ Prev[cur] \in Blocks /\ Prev[cur] \in Anc[cur]
  BY <1>1, DisconnectingFacts, TreeFacts
<1>4. TipCoins' = TipCoins /\ ViewCoins' = ViewCoins
  BY <1>2 DEF TipCoins, ViewCoins
<1>5. TypeInv'
  BY <1>2, <1>3 DEF IndInv, TypeInv
<1>6. UndoInv'
  <2>1. Stored(Prev[cur])
    <3>1. Stored(cur)
      BY <1>3 DEF IndInv, UndoInv
    <3> QED BY <1>3, <3>1, BlocksAssumption DEF Stored
  <2> QED BY <1>2, <1>3, <2>1, UndoKept
<1>7. LayersInv'
  <2>1. \A t \in Txs : Shown(ViewCoins)[t] = Mid(cur, 1, 1, t)
    BY <1>1, <1>2 DEF IndInv, DisconnectInv
  <2>2. \A t \in Txs : Shown(ViewCoins')[t] = CoinsOf(viewBest')[t]
    BY <1>2, <1>3, <1>4, <2>1, MidEnds
  <2>3. pc' \notin {"idle", "write", "down"}
    BY <1>2
  <2> QED BY <1>2, <1>4, <2>2, <2>3, LowerLayers DEF LayersInv
<1>8. BestInv'
  <2>1. CASE verifying
    <3>1. viewBest \in Anc[active] /\ active \in Blocks
      BY <2>1 DEF IndInv, BestInv, TypeInv
    <3>2. Prev[cur] \in Anc[active]
      BY <1>3, <3>1, BlocksAssumption
    <3> QED BY <1>1, <1>2, <2>1, <3>2 DEF IndInv, BestInv
  <2>2. CASE ~verifying
    BY <1>1, <1>2, <1>3, <2>2 DEF IndInv, BestInv
  <2> QED BY <2>1, <2>2
<1>9. ConnectInv' /\ DisconnectInv'
  BY <1>2 DEF ConnectInv, DisconnectInv
<1> QED BY <1>5, <1>6, <1>7, <1>8, <1>9 DEF IndInv

-----------------------------------------------------------------------------
(* The flushes, the stops and the starts                                   *)

LEMMA FlushViewInd == ASSUME IndInv, FlushView PROVE IndInv'
<1> USE DEF disk, index, call
<1>1. /\ pc = "flush" /\ tip' = Over(view, tip) /\ tipBest' = viewBest /\ view' = EmptyCache
      /\ pc' = "write"
      /\ UNCHANGED <<db, dbBest, undo, viewBest, active, failed, cur, i, j, blockundo, txundo,
                     fClean, verifying, nStops>>
  BY DEF FlushView
<1>2. db \in Cache /\ tip \in Cache /\ view \in Cache
  BY DEF IndInv, TypeInv
<1>3. tip' \in Cache /\ view' \in Cache /\ TipCoins' = ViewCoins
  BY <1>1, <1>2, OverFacts DEF TipCoins, ViewCoins
<1>4. TypeInv'
  BY <1>1, <1>3 DEF IndInv, TypeInv
<1>5. UndoInv'
  BY <1>1 DEF IndInv, UndoInv, Stored
<1>6. LayersInv'
  BY <1>1, <1>3 DEF IndInv, LayersInv
<1>7. BestInv'
  BY <1>1 DEF IndInv, BestInv
<1>8. ConnectInv' /\ DisconnectInv'
  BY <1>1 DEF ConnectInv, DisconnectInv
<1> QED BY <1>4, <1>5, <1>6, <1>7, <1>8 DEF IndInv

LEMMA FlushTipFacts ==
  ASSUME IndInv, FlushTip
  PROVE  /\ db' \in Cache /\ tip' \in Cache /\ TipCoins' = db'
         /\ \A t \in Txs : Shown(db')[t] = CoinsOf(dbBest')[t]
<1>1. db' = BatchWrite(tip) /\ dbBest' = tipBest /\ tip' = EmptyCache
  BY DEF FlushTip
<1>2. db' \in Cache
  BY <1>1, LayerTypes DEF IndInv
<1>3. TipCoins' = db' /\ tip' \in Cache
  BY <1>1, <1>2, OverFacts DEF TipCoins
<1>4. \A t \in Txs : Shown(db')[t] = CoinsOf(dbBest')[t]
  BY <1>1, LayerTypes DEF IndInv, LayersInv
<1> QED BY <1>2, <1>3, <1>4

LEMMA WriteChainStateInd == ASSUME IndInv, WriteChainState PROVE IndInv'
<1> USE DEF call
<1>1. /\ pc = "write" /\ (FlushTip \/ UNCHANGED <<db, dbBest, tip>>)
      /\ active' = tipBest /\ pc' = "idle"
      /\ UNCHANGED <<undo, tipBest, view, viewBest, failed, cur, i, j, blockundo, txundo,
                     fClean, verifying, nStops>>
  BY DEF WriteChainState
<1>2. /\ db' \in Cache /\ tip' \in Cache /\ (dbBest' = dbBest \/ dbBest' = tipBest)
      /\ \A t \in Txs : Shown(db')[t] = CoinsOf(dbBest')[t]
      /\ \A t \in Txs : Shown(TipCoins')[t] = CoinsOf(tipBest')[t]
  <2>1. CASE FlushTip
    BY <1>1, <2>1, FlushTipFacts DEF FlushTip
  <2>2. CASE UNCHANGED <<db, dbBest, tip>>
    <3>1. TipCoins' = TipCoins
      BY <2>2 DEF TipCoins
    <3> QED BY <1>1, <2>2, <3>1, LowerLayers DEF IndInv, TypeInv
  <2> QED BY <1>1, <2>1, <2>2
<1>3. TypeInv'
  BY <1>1, <1>2 DEF IndInv, TypeInv
<1>4. UndoInv'
  BY <1>1, <1>2 DEF IndInv, UndoInv, Stored
<1>5. LayersInv'
  BY <1>1, <1>2 DEF IndInv, LayersInv
<1>6. BestInv'
  BY <1>1 DEF IndInv, BestInv
<1>7. ConnectInv' /\ DisconnectInv'
  BY <1>1 DEF ConnectInv, DisconnectInv
<1> QED BY <1>3, <1>4, <1>5, <1>6, <1>7 DEF IndInv

LEMMA GetCoinsInd == ASSUME IndInv, NEW t \in Txs, GetCoins(t) PROVE IndInv'
<1> USE DEF disk, index, call
<1>1. /\ pc = "idle" /\ Read({t})
      /\ UNCHANGED <<db, dbBest, undo, tipBest, view, viewBest, active, failed, cur, i, j,
                     blockundo, txundo, fClean, pc, verifying, nStops>>
  BY DEF GetCoins
<1>2. tip' \in Cache /\ TipCoins' = TipCoins
  BY <1>1, ReadFacts DEF IndInv
<1>3. TypeInv'
  BY <1>1, <1>2 DEF IndInv, TypeInv
<1>4. UndoInv'
  BY <1>1, UndoKept DEF IndInv, TypeInv, UndoInv
<1>5. LayersInv'
  <2>1. view' = EmptyCache /\ viewBest' = tipBest' /\ pc' = "idle"
    BY <1>1 DEF IndInv, LayersInv
  <2> QED BY <1>1, <1>2, <2>1, LowerLayers DEF LayersInv
<1>6. BestInv' /\ ConnectInv' /\ DisconnectInv'
  BY <1>1 DEF IndInv, BestInv, ConnectInv, DisconnectInv
<1> QED BY <1>3, <1>4, <1>5, <1>6 DEF IndInv

LEMMA StopsInd ==
  ASSUME IndInv, NEW last \in Blocks, Stops(last), Stored(last), db' \in Cache, dbBest' = last,
         \A t \in Txs : Shown(db')[t] = CoinsOf(last)[t]
  PROVE  IndInv'
<1> USE DEF call
<1>1. /\ nStops < MaxStops /\ nStops' = nStops + 1
      /\ tip' = EmptyCache /\ tipBest' = last /\ view' = EmptyCache /\ viewBest' = last
      /\ active' = last /\ pc' = "down" /\ verifying' = FALSE
      /\ UNCHANGED <<undo, failed, cur, i, j, blockundo, txundo, fClean>>
  BY DEF Stops
<1>2. EmptyCache \in Cache /\ TipCoins' = db'
  BY <1>1, OverFacts DEF TipCoins
<1>3. TypeInv'
  <2>1. nStops' \in 0 .. MaxStops
    BY <1>1, ViewAssumption DEF IndInv, TypeInv
  <2>2. verifying' \in BOOLEAN
    BY <1>1
  <2> QED BY <1>1, <1>2, <2>1, <2>2 DEF IndInv, TypeInv
<1>4. UndoInv'
  BY <1>1 DEF IndInv, UndoInv, Stored
<1>5. LayersInv'
  BY <1>1, <1>2 DEF LayersInv
<1>6. BestInv' /\ ConnectInv' /\ DisconnectInv'
  BY <1>1 DEF BestInv, ConnectInv, DisconnectInv
<1> QED BY <1>3, <1>4, <1>5, <1>6 DEF IndInv

LEMMA KillInd == ASSUME IndInv, Kill PROVE IndInv'
<1>1. Stops(dbBest) /\ db' = db /\ dbBest' = dbBest
  BY DEF Kill
<1>2. dbBest \in Blocks /\ Stored(dbBest) /\ db \in Cache
      /\ \A t \in Txs : Shown(db)[t] = CoinsOf(dbBest)[t]
  BY DEF IndInv, TypeInv, UndoInv, LayersInv
<1> QED BY <1>1, <1>2, StopsInd

LEMMA ShutdownInd == ASSUME IndInv, Shutdown PROVE IndInv'
<1>1. db' = BatchWrite(tip) /\ dbBest' = tipBest /\ Stops(tipBest)
  BY DEF Shutdown
<1>2. tipBest \in Blocks /\ Stored(tipBest)
  BY DEF IndInv, TypeInv, UndoInv
<1>3. db' \in Cache /\ \A t \in Txs : Shown(db')[t] = CoinsOf(tipBest)[t]
  BY <1>1, LayerTypes DEF IndInv, LayersInv
<1> QED BY <1>1, <1>2, <1>3, StopsInd

LEMMA StartInd == ASSUME IndInv, Start \/ Level4 PROVE IndInv'
<1> USE DEF disk, caches, index, call
<1>1. /\ UNCHANGED <<db, dbBest, undo, tip, tipBest, view, viewBest, active, failed, cur, i, j,
                     blockundo, txundo, fClean, nStops>>
      /\ \/ pc = "down" /\ pc' = "verify" /\ verifying' = TRUE
         \/ pc = "verify" /\ pc' = "reconnect" /\ verifying' = verifying
  BY DEF Start, Level4
<1>2. TipCoins' = TipCoins /\ ViewCoins' = ViewCoins
  BY <1>1 DEF TipCoins, ViewCoins
<1>3. TypeInv'
  <2>1. verifying' \in BOOLEAN
    BY <1>1 DEF IndInv, TypeInv
  <2> QED BY <1>1, <2>1 DEF IndInv, TypeInv
<1>4. UndoInv'
  BY <1>1, UndoKept DEF IndInv, TypeInv, UndoInv
<1>5. LayersInv'
  <2>1. \A t \in Txs : Shown(ViewCoins')[t] = CoinsOf(viewBest')[t]
    BY <1>1, <1>2, ViewAtRest
  <2> QED BY <1>1, <1>2, <2>1, LowerLayers DEF LayersInv
<1>6. BestInv'
  <2>1. CASE pc = "down"
    BY <1>1, <2>1, TreeFacts DEF IndInv, BestInv, LayersInv, TypeInv
  <2>2. CASE pc = "verify"
    BY <1>1, <2>2 DEF IndInv, BestInv
  <2> QED BY <1>1, <2>1, <2>2
<1>7. ConnectInv' /\ DisconnectInv'
  BY <1>1 DEF ConnectInv, DisconnectInv
<1> QED BY <1>3, <1>4, <1>5, <1>6, <1>7 DEF IndInv

LEMMA VerifyDBReturnsInd == ASSUME IndInv, VerifyDBReturns PROVE IndInv'
<1> USE DEF disk, index, call
<1>1. /\ pc \in {"verify", "reconnect"} /\ pc' = "idle" /\ verifying' = FALSE
      /\ view' = EmptyCache /\ viewBest' = tipBest
      /\ UNCHANGED <<db, dbBest, undo, tip, tipBest, active, failed, cur, i, j, blockundo, txundo,
                     fClean, nStops>>
  BY DEF VerifyDBReturns
<1>2. EmptyCache \in Cache /\ TipCoins' = TipCoins
  BY <1>1 DEF TipCoins, EmptyCache, Cache
<1>3. TypeInv'
  <2>1. verifying' \in BOOLEAN
    BY <1>1
  <2> QED BY <1>1, <1>2, <2>1 DEF IndInv, TypeInv
<1>4. UndoInv'
  BY <1>1, UndoKept DEF IndInv, TypeInv, UndoInv
<1>5. LayersInv'
  BY <1>1, <1>2, LowerLayers DEF LayersInv
<1>6. BestInv' /\ ConnectInv' /\ DisconnectInv'
  BY <1>1 DEF IndInv, BestInv, ConnectInv, DisconnectInv
<1> QED BY <1>3, <1>4, <1>5, <1>6 DEF IndInv

-----------------------------------------------------------------------------
(* The theorems                                                            *)

LEMMA NextInd == IndInv /\ [Next]_vars => IndInv'
<1> SUFFICES ASSUME IndInv, [Next]_vars PROVE IndInv'
  OBVIOUS
<1>1. CASE UNCHANGED vars
  <2>1. /\ UNCHANGED <<db, dbBest, undo, tip, tipBest, view, viewBest, active, failed, pc>>
        /\ UNCHANGED <<cur, i, j, blockundo, txundo, fClean, verifying, nStops>>
    BY <1>1 DEF vars, disk, caches, index, call
  <2>2. TipCoins' = TipCoins /\ ViewCoins' = ViewCoins /\ Tx' = Tx
    BY <2>1 DEF TipCoins, ViewCoins, Tx
  <2>3. TypeInv' /\ UndoInv'
    BY <2>1 DEF IndInv, TypeInv, UndoInv, Stored
  <2>4. LayersInv' /\ BestInv'
    BY <2>1, <2>2 DEF IndInv, LayersInv, BestInv
  <2>5. ConnectInv'
    BY <2>1, <2>2 DEF IndInv, ConnectInv
  <2>6. DisconnectInv'
    BY <2>1, <2>2 DEF IndInv, DisconnectInv
  <2> QED BY <2>3, <2>4, <2>5, <2>6 DEF IndInv
<1>2. CASE Next
  BY <1>2, ConnectBlockInd, RefuseOverwritingInd, RefuseInputsInd, RefuseScriptInd, SpendInputInd,
     AddOutputsInd, ConnectBlockReturnsInd, DisconnectBlockInd, RemoveOutputsInd, RestoreInputInd,
     RestoredInd, DisconnectBlockReturnsInd, FlushViewInd, WriteChainStateInd, GetCoinsInd,
     KillInd, ShutdownInd, StartInd, VerifyDBReturnsInd DEF Next
<1> QED BY <1>1, <1>2

(* In every state, in the middle of a block too, each layer shows exactly  *)
(* the coins of the place it has reached, and what undo data there is      *)
(* belongs to valid blocks and says what their disconnection needs.        *)
THEOREM LayersAgree == Spec => []IndInv
BY InitInd, NextInd, PTL DEF Spec

(* The state is well typed: entries, undo data and indexes stay in range.  *)
THEOREM TypeCorrect == Spec => []TypeOK
<1>1. IndInv => TypeOK
  BY DEF IndInv, TypeInv, TypeOK
<1> QED BY <1>1, LayersAgree, PTL

(* DisconnectBlock undoes ConnectBlock exactly, heights and coinbase flags *)
(* included, over any number of blocks, and the undo data that was written *)
(* the first time is what every later connection would write.              *)
THEOREM DisconnectIsInverse == Spec => []DisconnectInverts
<1>1. IndInv => DisconnectInverts
  <2> SUFFICES ASSUME IndInv PROVE DisconnectInverts
    OBVIOUS
  <2>1. ASSUME pc \in {"verify", "reconnect", "flush"} PROVE Shown(ViewCoins) = CoinsOf(viewBest)
    <3>1. \A t \in Txs : Shown(ViewCoins)[t] = CoinsOf(viewBest)[t]
      BY <2>1, ViewAtRest
    <3> QED BY <3>1 DEF Shown, CoinsOf, CoinsAt
  <2>2. ASSUME pc = "connect", i > Len(Vtx[cur]), undo[cur] # NoUndo PROVE blockundo = undo[cur]
    <3>1. blockundo = UndoBlock(cur) /\ cur \in Blocks
      BY <2>2, UndoComplete, ConnectingFacts
    <3> QED BY <2>2, <3>1 DEF IndInv, UndoInv
  <2> QED BY <2>1, <2>2 DEF DisconnectInverts
<1> QED BY <1>1, LayersAgree, PTL

(* VerifyDB never finds the database inconsistent, and DisconnectTip never *)
(* fails on coins or undo data that do not fit.                            *)
THEOREM AlwaysConsistent == Spec => []NeverInconsistent
<1>1. IndInv => NeverInconsistent
  BY DEF IndInv, TypeInv, NeverInconsistent
<1> QED BY <1>1, LayersAgree, PTL

(* the ledger's own coins and validity are those of Transactions *)
LEMMA SameLedger ==
  /\ \A b : Abstract!CoinsOf(b) = CoinsOf(b)
  /\ \A b : Abstract!Valid(b) <=> Valid(b)
<1>1. \A S : Abstract!CoinsAt(S) = CoinsAt(S)
  BY Zenon DEF CoinsAt, Abstract!CoinsAt, TxAt, Abstract!TxAt, After, Abstract!After, Spends, Abstract!Spends
<1>2. \A b : Abstract!PlacesOf(b) = PlacesOf(b)
  BY Zenon DEF PlacesOf, Abstract!PlacesOf
<1>3. \A b, k : Abstract!Before(b, k) = Before(b, k)
  BY <1>2, Zenon DEF Before, Abstract!Before
<1>4. \A b : Abstract!CoinsOf(b) = CoinsOf(b)
  BY <1>1, <1>2, Zenon DEF CoinsOf, Abstract!CoinsOf
<1>5. \A c, h : Abstract!Mature(c, h) <=> Mature(c, h)
  BY Zenon DEF Mature, Abstract!Mature, GetRequiredMaturityDepth, Abstract!GetRequiredMaturityDepth
<1>6. \A b : Abstract!Valid(b) <=> Valid(b)
  BY <1>1, <1>3, <1>4, <1>5 DEF Valid, Abstract!Valid
<1> QED BY <1>4, <1>6

LEMMA TipShows == IndInv => Shown(TipCoins) = CoinsOf(tipBest)
<1> SUFFICES ASSUME IndInv PROVE Shown(TipCoins) = CoinsOf(tipBest)
  OBVIOUS
<1>1. \A t \in Txs : Shown(TipCoins)[t] = CoinsOf(tipBest)[t]
  BY DEF IndInv, LayersInv
<1> QED BY <1>1 DEF Shown, CoinsOf, CoinsAt

(* how a step moves the two best blocks *)
LEMMA BestBlocksStep ==
  ASSUME IndInv, [Next]_vars
  PROVE  \/ tipBest' = tipBest /\ dbBest' = dbBest
         \/ tipBest' # Genesis /\ Prev[tipBest'] = tipBest /\ Valid(tipBest') /\ dbBest' = dbBest
         \/ tipBest # Genesis /\ tipBest' = Prev[tipBest] /\ dbBest' = dbBest
         \/ tipBest' = tipBest /\ dbBest' = tipBest
         \/ tipBest' = dbBest /\ dbBest' = dbBest
<1> USE DEF disk, caches, index, call
<1>1. CASE UNCHANGED vars
  BY <1>1 DEF vars
<1>2. CASE \E b \in Blocks \ {Genesis} : ConnectBlock(b) \/ RefuseOverwriting(b)
  BY <1>2 DEF ConnectBlock, RefuseOverwriting, Refuse
<1>3. CASE RefuseInputs \/ RefuseScript \/ SpendInput \/ AddOutputs \/ ConnectBlockReturns
  BY <1>3 DEF RefuseInputs, RefuseScript, Refuse, SpendInput, AddOutputs, ConnectBlockReturns
<1>4. CASE DisconnectBlock \/ RemoveOutputs \/ RestoreInput \/ Restored \/ DisconnectBlockReturns
  BY <1>4 DEF DisconnectBlock, RemoveOutputs, RestoreInput, Restored, DisconnectBlockReturns
<1>5. CASE FlushView
  BY <1>5 DEF FlushView, IndInv, BestInv
<1>6. CASE WriteChainState
  BY <1>6 DEF WriteChainState, FlushTip
<1>7. CASE (\E t \in Txs : GetCoins(t)) \/ Start \/ Level4 \/ VerifyDBReturns
  BY <1>7 DEF GetCoins, Start, Level4, VerifyDBReturns
<1>8. CASE Kill \/ Shutdown
  BY <1>8 DEF Kill, Shutdown, Stops
<1> QED BY <1>1, <1>2, <1>3, <1>4, <1>5, <1>6, <1>7, <1>8 DEF Next

(* The coin view implements the plain ledger: whatever is cached, flushed, *)
(* refused or lost in a stop, the tip's coins are those of its chain, only *)
(* valid blocks are added, one at a time, and a restart goes back to the   *)
(* block of the last complete write.                                       *)
THEOREM ViewIsLedger == Spec => ImplementsLedger
<1>1. Init => Abstract!Init
  BY InitInd, TipShows, SameLedger DEF Init, Abstract!Init
<1>2. IndInv /\ IndInv' /\ [Next]_vars => [Abstract!Next]_(Abstract!lvars)
  <2> SUFFICES ASSUME IndInv, IndInv', [Next]_vars
               PROVE  [Abstract!Next]_(Abstract!lvars)
    OBVIOUS
  <2>1. Shown(TipCoins) = CoinsOf(tipBest) /\ Shown(TipCoins)' = CoinsOf(tipBest')
    <3>1. \A t \in Txs : Shown(TipCoins')[t] = CoinsOf(tipBest')[t]
      BY DEF IndInv, LayersInv
    <3>2. Shown(TipCoins') = CoinsOf(tipBest')
      BY <3>1 DEF Shown, CoinsOf, CoinsAt
    <3> QED BY <3>2, TipShows
  <2>2. tipBest' \in Blocks
    BY DEF IndInv, TypeInv
  <2>3. CASE tipBest' = tipBest /\ dbBest' = dbBest
    BY <2>1, <2>3 DEF Abstract!lvars
  <2>4. CASE tipBest' # Genesis /\ Prev[tipBest'] = tipBest /\ Valid(tipBest') /\ dbBest' = dbBest
    BY <2>1, <2>2, <2>4, SameLedger DEF Abstract!Next, Abstract!Connect
  <2>5. CASE tipBest # Genesis /\ tipBest' = Prev[tipBest] /\ dbBest' = dbBest
    BY <2>1, <2>5, SameLedger DEF Abstract!Next, Abstract!Disconnect
  <2>6. CASE tipBest' = tipBest /\ dbBest' = tipBest
    BY <2>1, <2>6 DEF Abstract!Next, Abstract!Save
  <2>7. CASE tipBest' = dbBest /\ dbBest' = dbBest
    BY <2>1, <2>7, SameLedger DEF Abstract!Next, Abstract!Restart
  <2> QED BY <2>3, <2>4, <2>5, <2>6, <2>7, BestBlocksStep
<1> QED BY <1>1, <1>2, LayersAgree, PTL DEF Spec, ImplementsLedger, Abstract!Spec

-----------------------------------------------------------------------------
(* The memory pool over the ledger                                         *)

(* In a chain of valid blocks, the coins of a transaction that no chain    *)
(* has twice are what was made and has not been spent, in whatever order.  *)
ValidChain(b) == \A c \in Anc[b] \ {Genesis} : Valid(c)
ChainTx(b, t) == \E p \in PlacesOf(b) : TxAt(p) = t
ChainSpent(b, out) == \E p \in PlacesOf(b) : Spends(p, out)
Live(b, out) == out[2] \in Unspent(PlacesOf(b), out[1])
Once(t) == \A b \in Blocks : \A p, q \in PlacesOf(b) : TxAt(p) = t /\ TxAt(q) = t => p = q

(* an input of transaction k of block b is there and unspent by what is    *)
(* before                                                                  *)
LEMMA InputThere ==
  ASSUME NEW b \in Blocks \ {Genesis}, Valid(b),
         NEW k \in DOMAIN Vtx[b], NEW n \in DOMAIN Vin[Vtx[b][k]],
         NEW out, out = Vin[Vtx[b][k]][n]
  PROVE  /\ out[2] \in Outs[out[1]]
         /\ \E p \in Before(b, k) : /\ TxAt(p) = out[1]
                                    /\ ~ \E q \in Before(b, k) : After(p, q) /\ Spends(q, out)
<1>1. InputsValid(b, k)
  BY ValidIs
<1>2. out[2] \in Unspent(Before(b, k), out[1])
  BY <1>1 DEF InputsValid
<1>3. out[1] \in Txs /\ out = <<out[1], out[2]>> /\ k \in 1 .. Len(Vtx[b]) + 1
  BY TxFacts, VinFacts
<1>4. IsChain(Before(b, k)) /\ HasLast(Before(b, k))
  BY <1>3, ChainOf, AllHaveLast
<1>5. Made(Before(b, k), out[1]) # {}
  BY <1>2 DEF Unspent
<1>6. IsLast(Before(b, k), out[1], LastMade(Before(b, k), out[1]))
  BY <1>3, <1>4, <1>5, UnspentFacts
<1> DEFINE p == LastMade(Before(b, k), out[1])
<1>7. p \in Before(b, k) /\ TxAt(p) = out[1]
  BY <1>6 DEF IsLast, Made
<1>8. out[2] \in Outs[out[1]] /\ ~ \E q \in Before(b, k) : After(p, q) /\ Spends(q, out)
  BY <1>2, <1>3 DEF Unspent
<1> QED BY <1>7, <1>8

LEMMA BeforeInChain ==
  ASSUME NEW b \in Blocks, NEW c \in Anc[b] \ {Genesis}, NEW k \in DOMAIN Vtx[c]
  PROVE  c \in Blocks /\ Before(c, k) \subseteq PlacesOf(b) /\ <<c, k>> \in PlacesOf(b)
<1>1. c \in Blocks /\ Anc[c] \subseteq Anc[b]
  BY BlocksAssumption, TreeFacts
<1>2. PlacesOf(c) \subseteq PlacesOf(b)
  BY <1>1, PlacesFacts
<1>3. Before(c, k) \subseteq PlacesOf(c)
  BY DEF Before
<1> QED BY <1>1, <1>2, <1>3, PlacesFacts

(* whatever spends an output comes after what made it *)
LEMMA SpentLater ==
  ASSUME NEW b \in Blocks, ValidChain(b), NEW out,
         NEW q \in PlacesOf(b), Spends(q, out)
  PROVE  /\ out[2] \in Outs[out[1]]
         /\ \E p \in PlacesOf(b) :
              /\ TxAt(p) = out[1] /\ After(p, q)
              /\ \A r \in PlacesOf(b) : After(p, r) /\ Spends(r, out) => ~After(r, q)
<1>1. q = <<q[1], q[2]>> /\ q[1] \in Anc[b] /\ q[1] \in Blocks \ {Genesis} /\ q[2] \in DOMAIN Vtx[q[1]]
  BY PlacesFacts, ChainOf DEF IsChain
<1> DEFINE c == q[1]
           k == q[2]
<1>2. Valid(c)
  BY <1>1 DEF ValidChain
<1>3. PICK n \in DOMAIN Vin[Vtx[c][k]] : out = Vin[Vtx[c][k]][n]
  BY DEF Spends, TxAt
<1>4. PICK p \in Before(c, k) : /\ TxAt(p) = out[1]
                                /\ ~ \E r \in Before(c, k) : After(p, r) /\ Spends(r, out)
  BY <1>1, <1>2, <1>3, InputThere
<1>5. out[2] \in Outs[out[1]]
  BY <1>1, <1>2, <1>3, InputThere
<1>6. p \in PlacesOf(b) /\ After(p, q)
  <2>1. After(p, <<c, k>>)
    BY <1>1, NextIsLater
  <2> QED BY <1>1, <2>1, BeforeInChain
<1>7. ASSUME NEW r \in PlacesOf(b), After(p, r), Spends(r, out), After(r, q) PROVE FALSE
  <2>1. r = <<r[1], r[2]>> /\ r[2] \in DOMAIN Vtx[r[1]]
    BY PlacesFacts
  <2>2. r[1] \in Anc[c]
    BY <1>1, <1>7, TreeFacts DEF After
  <2>3. r \in PlacesOf(c)
    BY <1>1, <2>1, <2>2, PlacesFacts
  <2>4. r \in Before(c, k)
    BY <1>7, <2>3 DEF After, Before
  <2> QED BY <1>4, <1>7, <2>4
<1> QED BY <1>4, <1>5, <1>6, <1>7

(* and it is not spent twice *)
LEMMA SpentOnce ==
  ASSUME NEW b \in Blocks, ValidChain(b), NEW out, Once(out[1]),
         NEW q \in PlacesOf(b), Spends(q, out), NEW r \in PlacesOf(b), Spends(r, out)
  PROVE  q = r
<1>1. PICK p \in PlacesOf(b) : /\ TxAt(p) = out[1] /\ After(p, q)
                               /\ \A x \in PlacesOf(b) : After(p, x) /\ Spends(x, out) => ~After(x, q)
  BY SpentLater
<1>2. PICK o \in PlacesOf(b) : /\ TxAt(o) = out[1] /\ After(o, r)
                               /\ \A x \in PlacesOf(b) : After(o, x) /\ Spends(x, out) => ~After(x, r)
  BY SpentLater
<1>3. p = o
  BY <1>1, <1>2 DEF Once
<1>4. ~After(r, q) /\ ~After(q, r)
  BY <1>1, <1>2, <1>3
<1> QED BY <1>4, ChainOf, Ordered

LEMMA LiveIs ==
  ASSUME NEW b \in Blocks, NEW t \in Txs
  PROVE  /\ CoinsOf(b)[t] # NoCoins => /\ CoinsOf(b)[t].vout = Unspent(PlacesOf(b), t)
                                       /\ CoinsOf(b)[t].fCoinBase = IsCoinBase(t)
                                       /\ CoinsOf(b)[t].nHeight = At(PlacesOf(b), t)
         /\ CoinsOf(b)[t] # NoCoins <=> Unspent(PlacesOf(b), t) # {}
         /\ \A n \in Unspent(PlacesOf(b), t) : n \in Outs[t] /\ ChainTx(b, t)
<1> DEFINE S == PlacesOf(b)
<1>1. IsChain(S) /\ HasLast(S)
  BY ChainOf, AllHaveLast
<1>2. \A n \in Unspent(S, t) : n \in Outs[t] /\ ChainTx(b, t)
  BY DEF Unspent, Made, ChainTx
<1>3. CoinsOf(b)[t] = Coin(t, Unspent(S, t), At(S, t))
  BY CoinsAtIs DEF CoinsOf
<1>4. Unspent(S, t) \in SUBSET Nat /\ (Unspent(S, t) # {} => At(S, t) \in Nat)
  BY <1>1, UnspentFacts
<1> QED BY <1>2, <1>3, <1>4, CoinFacts

LEMMA OnceLive ==
  ASSUME NEW b \in Blocks, ValidChain(b), NEW t \in Txs, Once(t), NEW n
  PROVE  Live(b, <<t, n>>) <=> ChainTx(b, t) /\ n \in Outs[t] /\ ~ChainSpent(b, <<t, n>>)
<1> DEFINE S == PlacesOf(b)
           L == LastMade(S, t)
<1>1. IsChain(S) /\ HasLast(S)
  BY ChainOf, AllHaveLast
<1>2. Made(S, t) # {} => L \in S /\ TxAt(L) = t
  BY <1>1, UnspentFacts DEF IsLast, Made
<1>3. Made(S, t) # {} <=> ChainTx(b, t)
  BY DEF Made, ChainTx
<1>4. ASSUME NEW q \in S, Spends(q, <<t, n>>), ChainTx(b, t) PROVE After(L, q)
  <2>1. PICK p \in S : TxAt(p) = t /\ After(p, q)
    BY <1>4, SpentLater
  <2>2. p = L
    BY <1>2, <1>3, <1>4, <2>1 DEF Once
  <2> QED BY <2>1, <2>2
<1> HIDE DEF L
<1>5. n \in Unspent(S, t) <=>
        n \in Outs[t] /\ ChainTx(b, t) /\ ~ \E q \in S : After(L, q) /\ Spends(q, <<t, n>>)
  BY <1>3 DEF Unspent, L
<1> QED BY <1>4, <1>5 DEF Live, ChainSpent

LEMMA InputsAre ==
  ASSUME NEW t \in Txs
  PROVE  /\ \A out : out \in Inputs(t) <=> \E n \in DOMAIN Vin[t] : Vin[t][n] = out
         /\ \A out \in Inputs(t) :
              out[1] \in Txs /\ out[2] \in Nat /\ out = <<out[1], out[2]>>
         /\ \A p : p \in ParentTxs(t) <=> \E out \in Inputs(t) : out[1] = p
         /\ Inputs(t) = {} <=> t \in Coinbases
<1>1. \A out : out \in Inputs(t) <=> \E n \in DOMAIN Vin[t] : Vin[t][n] = out
  BY DEF Inputs, Range
<1>2. \A p : p \in ParentTxs(t) <=> \E out \in Inputs(t) : out[1] = p
  BY DEF ParentTxs
<1>3. \A out \in Inputs(t) : out[1] \in Txs /\ out[2] \in Nat /\ out = <<out[1], out[2]>>
  BY <1>1, VinFacts
<1>4. Inputs(t) = {} <=> Vin[t] = << >>
  <2>1. Vin[t] = << >> <=> Len(Vin[t]) = 0
    BY VinFacts, EmptySeq
  <2>2. Len(Vin[t]) # 0 => Vin[t][1] \in Inputs(t)
    BY <1>1, VinFacts
  <2>3. Len(Vin[t]) = 0 => Inputs(t) = {}
    BY <1>1, VinFacts
  <2> QED BY <2>1, <2>2, <2>3
<1> QED BY <1>1, <1>2, <1>3, <1>4, TxsAssumption

(* a block adds its transactions and what they spend *)
LEMMA ChainGrows ==
  ASSUME NEW b \in Blocks \ {Genesis}
  PROVE  /\ \A t : ChainTx(b, t) <=> ChainTx(Prev[b], t) \/ \E k \in DOMAIN Vtx[b] : Vtx[b][k] = t
         /\ \A out : ChainSpent(b, out) <=>
              \/ ChainSpent(Prev[b], out)
              \/ \E k \in DOMAIN Vtx[b] : out \in Inputs(Vtx[b][k])
         /\ \A p : p \in PlacesOf(b) <=> p \in PlacesOf(Prev[b]) \/ \E k \in DOMAIN Vtx[b] : p = <<b, k>>
<1>1. ASSUME NEW p
      PROVE  p \in PlacesOf(b) <=> p \in PlacesOf(Prev[b]) \/ \E k \in DOMAIN Vtx[b] : p = <<b, k>>
  <2>1. Anc[b] = Anc[Prev[b]] \union {b} /\ Prev[b] \in Blocks
    BY BlocksAssumption
  <2> QED BY <2>1, PlacesFacts
<1>2. \A k \in DOMAIN Vtx[b] : TxAt(<<b, k>>) = Vtx[b][k]
  BY DEF TxAt
<1>3. \A k \in DOMAIN Vtx[b] : \A out : Spends(<<b, k>>, out) <=> out \in Inputs(Vtx[b][k])
  BY <1>2, InputsAre, TxFacts DEF Spends
<1>4. ASSUME NEW t
      PROVE  ChainTx(b, t) <=> ChainTx(Prev[b], t) \/ \E k \in DOMAIN Vtx[b] : Vtx[b][k] = t
  BY <1>1, <1>2 DEF ChainTx
<1>5. ASSUME NEW out
      PROVE  ChainSpent(b, out) <=>
              \/ ChainSpent(Prev[b], out)
              \/ \E k \in DOMAIN Vtx[b] : out \in Inputs(Vtx[b][k])
  BY <1>1, <1>3 DEF ChainSpent
<1> QED BY <1>1, <1>4, <1>5

(* Whether or not the chain has had it before, a block makes the outputs   *)
(* of its transactions and takes what they spend afterwards.               *)
LEMMA LiveGrows ==
  ASSUME NEW b \in Blocks \ {Genesis}, NEW out, out = <<out[1], out[2]>>
  PROVE  /\ (\A m \in DOMAIN Vtx[b] : Vtx[b][m] # out[1]) =>
              (Live(b, out) <=> /\ Live(Prev[b], out)
                                /\ \A k \in DOMAIN Vtx[b] : out \notin Inputs(Vtx[b][k]))
         /\ \A m \in DOMAIN Vtx[b] : Vtx[b][m] = out[1] =>
              (Live(b, out) <=> /\ out[2] \in Outs[out[1]]
                                /\ \A k \in DOMAIN Vtx[b] : m < k => out \notin Inputs(Vtx[b][k]))
<1> DEFINE t == out[1]
           S == PlacesOf(b)
           R == PlacesOf(Prev[b])
<1>1. \A p : p \in S <=> p \in R \/ \E k \in DOMAIN Vtx[b] : p = <<b, k>>
  BY ChainGrows
<1>2. \A k \in DOMAIN Vtx[b] : TxAt(<<b, k>>) = Vtx[b][k]
  BY DEF TxAt
<1>3. \A k \in DOMAIN Vtx[b] : Spends(<<b, k>>, out) <=> out \in Inputs(Vtx[b][k])
  BY <1>2, InputsAre, TxFacts DEF Spends
<1>4. ASSUME NEW p \in R, NEW k
      PROVE  After(p, <<b, k>>) /\ ~After(<<b, k>>, p)
  <2>1. p[1] \in Anc[Prev[b]] /\ Prev[b] \in Blocks
    BY PlacesFacts, TreeFacts
  <2>2. p[1] \in Anc[b] /\ p[1] # b
    BY <2>1, BlocksAssumption
  <2>3. b \notin Anc[p[1]]
    BY <2>2, TreeFacts
  <2> QED BY <2>2, <2>3 DEF After
<1>5. ASSUME \A m \in DOMAIN Vtx[b] : Vtx[b][m] # t
      PROVE  Live(b, out) <=> /\ Live(Prev[b], out)
                              /\ \A k \in DOMAIN Vtx[b] : out \notin Inputs(Vtx[b][k])
  <2>1. Made(S, t) = Made(R, t)
    BY <1>1, <1>2, <1>5 DEF Made
  <2> DEFINE L == LastMade(R, t)
  <2>2. LastMade(S, t) = L
    BY <2>1 DEF LastMade
  <2>3. CASE Made(R, t) = {}
    BY <2>1, <2>3 DEF Live, Unspent
  <2>4. CASE Made(R, t) # {}
    <3>1. L \in R
      <4>1. PICK p \in Made(R, t) : TRUE
        BY <2>4
      <4>2. t \in Txs
        BY <4>1, PlacesFacts, TreeFacts, TxFacts DEF Made, TxAt
      <4> QED BY <2>4, <4>2, UnspentFacts, ChainOf, AllHaveLast, TreeFacts DEF IsLast, Made
    <3> HIDE DEF L
    <3>2. (\E q \in S : After(L, q) /\ Spends(q, out)) <=>
            \/ \E q \in R : After(L, q) /\ Spends(q, out)
            \/ \E k \in DOMAIN Vtx[b] : out \in Inputs(Vtx[b][k])
      <4> HIDE DEF S, R, t
      <4>1. ASSUME NEW q \in S, After(L, q), Spends(q, out)
            PROVE  \/ \E r \in R : After(L, r) /\ Spends(r, out)
                   \/ \E k \in DOMAIN Vtx[b] : out \in Inputs(Vtx[b][k])
        BY <1>1, <1>3, <4>1
      <4>2. ASSUME NEW k \in DOMAIN Vtx[b], out \in Inputs(Vtx[b][k])
            PROVE  \E q \in S : After(L, q) /\ Spends(q, out)
        <5>1. <<b, k>> \in S /\ Spends(<<b, k>>, out) /\ After(L, <<b, k>>)
          BY <1>1, <1>3, <1>4, <3>1, <4>2
        <5> QED BY <5>1
      <4>3. ASSUME NEW q \in R, After(L, q), Spends(q, out)
            PROVE  \E r \in S : After(L, r) /\ Spends(r, out)
        BY <1>1, <4>3
      <4> QED BY <4>1, <4>2, <4>3
    <3>3. Live(b, out) <=> out[2] \in Outs[t] /\ ~ \E q \in S : After(L, q) /\ Spends(q, out)
      BY <2>1, <2>2, <2>4 DEF Live, Unspent
    <3>4. Live(Prev[b], out) <=> out[2] \in Outs[t] /\ ~ \E q \in R : After(L, q) /\ Spends(q, out)
      BY <2>4 DEF Live, Unspent, L
    <3> QED BY <3>2, <3>3, <3>4
  <2> QED BY <2>3, <2>4
<1>6. ASSUME NEW m \in DOMAIN Vtx[b], Vtx[b][m] = t
      PROVE  Live(b, out) <=> /\ out[2] \in Outs[t]
                              /\ \A k \in DOMAIN Vtx[b] : m < k => out \notin Inputs(Vtx[b][k])
  <2>1. <<b, m>> \in Made(S, t)
    BY <1>1, <1>2, <1>6 DEF Made
  <2>2. \A k \in DOMAIN Vtx[b] : After(<<b, m>>, <<b, k>>) <=> m < k
    BY DEF After
  <2>3. \A k \in DOMAIN Vtx[b] : Vtx[b][k] = t => k = m
    BY <1>6, TxsAssumption
  <2>4. ~(m < m)
    BY TxFacts
  <2>5. IsLast(S, t, <<b, m>>)
    BY <1>1, <1>2, <1>4, <2>1, <2>2, <2>3, <2>4 DEF IsLast, Made
  <2>6. LastMade(S, t) = <<b, m>>
    BY <2>5, LastUnique, ChainOf
  <2>7. (\E q \in S : After(<<b, m>>, q) /\ Spends(q, out)) <=>
          \E k \in DOMAIN Vtx[b] : m < k /\ out \in Inputs(Vtx[b][k])
    <3> HIDE DEF S, R, t
    <3>1. ASSUME NEW q \in S, After(<<b, m>>, q), Spends(q, out)
          PROVE  \E k \in DOMAIN Vtx[b] : m < k /\ out \in Inputs(Vtx[b][k])
      <4>1. PICK k \in DOMAIN Vtx[b] : q = <<b, k>>
        BY <1>1, <1>4, <3>1
      <4> QED BY <1>3, <2>2, <3>1, <4>1
    <3>2. ASSUME NEW k \in DOMAIN Vtx[b], m < k, out \in Inputs(Vtx[b][k])
          PROVE  \E q \in S : After(<<b, m>>, q) /\ Spends(q, out)
      <4>1. <<b, k>> \in S /\ Spends(<<b, k>>, out) /\ After(<<b, m>>, <<b, k>>)
        BY <1>1, <1>3, <2>2, <3>2
      <4> QED BY <4>1
    <3> QED BY <3>1, <3>2
  <2>8. Live(b, out) <=> out[2] \in Outs[t] /\ ~ \E q \in S : After(<<b, m>>, q) /\ Spends(q, out)
    BY <2>1, <2>6 DEF Live, Unspent
  <2> QED BY <2>7, <2>8
<1> QED BY <1>5, <1>6

LEMMA OncePerBlock ==
  ASSUME NEW b \in Blocks \ {Genesis}, NEW k \in DOMAIN Vtx[b]
  PROVE  /\ \A m \in DOMAIN Vtx[b] : Vtx[b][m] = Vtx[b][k] => m = k
         /\ Once(Vtx[b][k]) => ~ChainTx(Prev[b], Vtx[b][k])
<1>1. ASSUME NEW p \in PlacesOf(Prev[b]), TxAt(p) = Vtx[b][k], Once(Vtx[b][k]) PROVE FALSE
  <2>1. p \in PlacesOf(b) /\ <<b, k>> \in PlacesOf(b)
    BY ChainGrows
  <2>2. p = <<b, k>>
    BY <1>1, <2>1 DEF Once, TxAt
  <2>3. b \in Anc[Prev[b]]
    BY <1>1, <2>2, PlacesFacts, TreeFacts
  <2> QED BY <2>3, BlocksAssumption
<1> QED BY <1>1, TxsAssumption DEF ChainTx

(* what is not Repeated is once in every chain, and so are its parents *)
LEMMA RepeatedAre ==
  ASSUME NEW t \in Txs, t \notin Repeated
  PROVE  /\ Once(t)
         /\ \A out \in Inputs(t) : out[1] \in Txs /\ out[1] \notin Repeated /\ Once(out[1])
<1>1. ASSUME NEW u \in Txs, u \notin Repeated PROVE Once(u)
  <2>1. u \notin Twice
    BY <1>1 DEF Repeated
  <2> QED BY <2>1 DEF Twice, Once
<1>2. ASSUME NEW out \in Inputs(t), out[1] \in Repeated PROVE FALSE
  <2>1. PICK S \in SUBSET Txs : /\ Twice \subseteq S
                                /\ \A u \in Txs : ParentTxs(u) \intersect S # {} => u \in S
                                /\ t \notin S
    BY DEF Repeated
  <2>2. out[1] \in S
    BY <1>2, <2>1 DEF Repeated
  <2>3. out[1] \in ParentTxs(t)
    BY InputsAre
  <2> QED BY <2>1, <2>2, <2>3
<1> QED BY <1>1, <1>2, InputsAre

LEMMA ValidBelow ==
  ASSUME NEW b \in Blocks \ {Genesis}
  PROVE  ValidChain(b) <=> ValidChain(Prev[b]) /\ Valid(b)
BY BlocksAssumption DEF ValidChain

LEMMA SpentInChain ==
  ASSUME NEW b \in Blocks, ValidChain(b), NEW out, ChainSpent(b, out)
  PROVE  ChainTx(b, out[1]) /\ out[2] \in Outs[out[1]]
BY SpentLater DEF ChainSpent, ChainTx

(* where the inputs of a transaction of a block are, and who else spends   *)
(* them: nobody                                                            *)
LEMMA BlockInputs ==
  ASSUME NEW b \in Blocks \ {Genesis}, ValidChain(b),
         NEW k \in DOMAIN Vtx[b], NEW out \in Inputs(Vtx[b][k]), Once(out[1])
  PROVE  /\ out[2] \in Outs[out[1]] /\ ChainTx(b, out[1])
         /\ ~ChainSpent(Prev[b], out)
         /\ \A m \in DOMAIN Vtx[b] : out \in Inputs(Vtx[b][m]) => m = k
         /\ \A m \in DOMAIN Vtx[b] : Vtx[b][m] = out[1] => m < k
<1>1. <<b, k>> \in PlacesOf(b) /\ Spends(<<b, k>>, out)
  BY ChainGrows, InputsAre, TxFacts DEF Spends, TxAt
<1>2. out[2] \in Outs[out[1]] /\ ChainTx(b, out[1])
  BY <1>1, SpentInChain DEF ChainSpent
<1>3. ASSUME NEW q \in PlacesOf(b), Spends(q, out) PROVE q = <<b, k>>
  BY <1>1, <1>3, SpentOnce
<1>4. ASSUME ChainSpent(Prev[b], out) PROVE FALSE
  <2>1. PICK q \in PlacesOf(Prev[b]) : Spends(q, out)
    BY <1>4 DEF ChainSpent
  <2>2. q = <<b, k>>
    BY <1>3, <2>1, ChainGrows
  <2>3. b \in Anc[Prev[b]]
    BY <2>1, <2>2, PlacesFacts, TreeFacts
  <2> QED BY <2>3, BlocksAssumption
<1>5. ASSUME NEW m \in DOMAIN Vtx[b], out \in Inputs(Vtx[b][m]) PROVE m = k
  <2>1. <<b, m>> \in PlacesOf(b) /\ Spends(<<b, m>>, out)
    BY <1>5, ChainGrows, InputsAre, TxFacts DEF Spends, TxAt
  <2> QED BY <1>3, <2>1
<1>6. ASSUME NEW m \in DOMAIN Vtx[b], Vtx[b][m] = out[1] PROVE m < k
  <2>1. PICK p \in PlacesOf(b) : TxAt(p) = out[1] /\ After(p, <<b, k>>)
    BY <1>1, SpentLater
  <2>2. <<b, m>> \in PlacesOf(b) /\ TxAt(<<b, m>>) = out[1]
    BY <1>6, ChainGrows DEF TxAt
  <2>3. p = <<b, m>>
    BY <2>1, <2>2 DEF Once
  <2> QED BY <2>1, <2>3 DEF After
<1> QED BY <1>2, <1>4, <1>5, <1>6

LEMMA InputMature ==
  ASSUME NEW b \in Blocks \ {Genesis}, ValidChain(b),
         NEW k \in DOMAIN Vtx[b], NEW out \in Inputs(Vtx[b][k]), Once(out[1]),
         CoinsOf(Prev[b])[out[1]] # NoCoins
  PROVE  Mature(CoinsOf(Prev[b])[out[1]], Height[b])
<1> DEFINE t == out[1]
           S == Before(b, k)
           R == PlacesOf(Prev[b])
<1>1. t \in Txs /\ k \in 1 .. Len(Vtx[b]) + 1 /\ Prev[b] \in Blocks /\ ValidChain(Prev[b]) /\ Valid(b)
  BY InputsAre, TxFacts, TreeFacts, ValidBelow
<1>2. PICK n \in DOMAIN Vin[Vtx[b][k]] : out = Vin[Vtx[b][k]][n]
  BY InputsAre, TxFacts
<1>3. out[2] \in Unspent(S, t) /\ Mature(CoinsAt(S)[t], Height[b])
  BY <1>1, <1>2, ValidIs DEF InputsValid
<1>4. CoinsAt(S)[t].fCoinBase = IsCoinBase(t) /\ CoinsAt(S)[t].nHeight = At(S, t)
  <2>1. Unspent(S, t) \in SUBSET Nat /\ Unspent(S, t) # {} /\ At(S, t) \in Nat
    BY <1>1, <1>3, PlaceFacts
  <2> QED BY <1>1, <2>1, CoinsAtIs, CoinFacts
<1>5. CoinsOf(Prev[b])[t].fCoinBase = IsCoinBase(t) /\ CoinsOf(Prev[b])[t].nHeight = At(R, t)
  BY <1>1, LiveIs
<1>6. LastMade(S, t) = LastMade(R, t)
  <2>1. IsChain(S) /\ HasLast(S) /\ IsChain(R) /\ HasLast(R)
    BY <1>1, ChainOf, AllHaveLast
  <2>2. Made(S, t) # {} /\ Made(R, t) # {}
    <3>1. Unspent(R, t) # {}
      BY <1>1, LiveIs
    <3> QED BY <1>3, <3>1 DEF Unspent
  <2>3. IsLast(S, t, LastMade(S, t)) /\ IsLast(R, t, LastMade(R, t))
    BY <1>1, <2>1, <2>2, UnspentFacts
  <2>4. S \subseteq PlacesOf(b) /\ R \subseteq PlacesOf(b)
    BY ChainGrows DEF Before
  <2> QED BY <2>3, <2>4 DEF IsLast, Made, Once
<1>7. At(S, t) = At(R, t)
  BY <1>6 DEF At
<1> HIDE DEF t, S, R
<1> QED BY <1>3, <1>4, <1>5, <1>7 DEF Mature, t

-----------------------------------------------------------------------------
(* The inductive invariant of the memory pool                              *)

Rest == nth .. Len(Vtx[block])

StageInv ==
  /\ best \in Blocks /\ ValidChain(best)
  /\ stage \in {"idle", "queue", "orphans", "connected", "disconnected"}
  /\ stage \in {"connected", "disconnected"} =>
       block \in Blocks \ {Genesis} /\ ValidChain(block) /\ nth \in 1 .. Len(Vtx[block]) + 1
  /\ stage = "connected" => best = block
  /\ stage = "disconnected" => best = Prev[block]

(* An input of the pool is held by the pool or the chain, or was the       *)
(* output of a coinbase that is lost, or is an input or an output of a     *)
(* transaction of the block that is still to come.                         *)
Held(out) == out[1] \in mapTx \/ Live(best, out)
Accounted(out) ==
  \/ Held(out)
  \/ out[1] \in lost
  \/ stage = "connected" /\ \E k \in Rest : out \in Inputs(Vtx[block][k])
  \/ stage = "disconnected" /\ \E k \in Rest : Vtx[block][k] = out[1] /\ out[1] \notin Coinbases
InputsInv ==
  \A t \in mapTx : \A out \in Inputs(t) : out[2] \in Outs[out[1]] /\ Accounted(out)

(* but for what is repeated, the pool has nothing that is in the chain     *)
(* already, and what is lost is not there                                  *)
ApartInv ==
  \A t \in mapTx \ Repeated :
    ChainTx(best, t) => stage = "connected" /\ \E k \in Rest : Vtx[block][k] = t
LostInv ==
  lost \subseteq Coinbases /\ \A c \in lost \ Repeated : ~ChainTx(best, c)

(* going back through a block: nothing stands in the way of what is to     *)
(* come, and what is done is in the pool if its parents are                *)
ParentsIn(b, t, P) ==
  \A p \in ParentTxs(t) : (\E m \in DOMAIN Vtx[b] : Vtx[b][m] = p) => p \in P
BackIn(b, t, P) == t \in P <=> t \notin NonStandard /\ ParentsIn(b, t, P)
ReorgInv ==
  stage = "disconnected" =>
    /\ \A k \in Rest : Vtx[block][k] \notin Repeated =>
         Vtx[block][k] \notin mapTx /\ \A out \in Inputs(Vtx[block][k]) : out \notin Spent
    /\ pruned = {} => \A k \in 1 .. (nth - 1) :
         Vtx[block][k] \notin Coinbases \union Repeated => BackIn(block, Vtx[block][k], mapTx)

PoolInv ==
  /\ mapTx \subseteq Txs \ Coinbases /\ InputsMarked
  /\ StageInv /\ InputsInv /\ ApartInv /\ LostInv /\ ReorgInv

-----------------------------------------------------------------------------
(* What the pool's operators do                                            *)

LEMMA UnspentIs ==
  ASSUME best \in Blocks, NEW t \in Txs
  PROVE  /\ UnspentCoins(t) = CoinsOf(best)[t]
         /\ UnspentCoins(t) # NoCoins => \A n : n \in UnspentCoins(t).vout <=> Live(best, <<t, n>>)
         /\ UnspentCoins(t) # NoCoins <=> \E n : Live(best, <<t, n>>)
         /\ UnspentCoins(t) # NoCoins => ChainTx(best, t)
<1>1. UnspentCoins(t) = CoinsOf(best)[t]
  BY DEF UnspentCoins, ChainCoins
<1> QED BY <1>1, LiveIs DEF Live

LEMMA AvailableIs ==
  ASSUME best \in Blocks, NEW t \in Txs, NEW out \in Inputs(t)
  PROVE  /\ IsSpendable(out) => out[2] \in Outs[out[1]] /\ Held(out)
         /\ Live(best, out) => IsSpendable(out)
         /\ pruned = {} /\ ~ChainTx(best, out[1]) =>
              (IsSpendable(out) <=> out[1] \in mapTx /\ out[2] \in Outs[out[1]])
         /\ Connects(out) <=> IF out[1] \in mapTx THEN out[2] \in Outs[out[1]] ELSE Live(best, out)
<1>1. out[1] \in Txs /\ out = <<out[1], out[2]>>
  BY InputsAre
<1>2. /\ UnspentCoins(out[1]) # NoCoins => (out[2] \in UnspentCoins(out[1]).vout <=> Live(best, out))
      /\ Live(best, out) => UnspentCoins(out[1]) # NoCoins
      /\ UnspentCoins(out[1]) # NoCoins => ChainTx(best, out[1])
  BY <1>1, UnspentIs
<1>3. Live(best, out) => out[2] \in Outs[out[1]]
  BY <1>1, LiveIs DEF Live
<1>4. /\ IsSpendable(out) => out[2] \in Outs[out[1]] /\ Held(out)
      /\ Live(best, out) => IsSpendable(out)
  BY <1>2, <1>3 DEF IsSpendable, Held
<1>5. pruned = {} /\ ~ChainTx(best, out[1]) =>
        (IsSpendable(out) <=> out[1] \in mapTx /\ out[2] \in Outs[out[1]])
  BY <1>2 DEF IsSpendable
<1>6. Connects(out) <=> IF out[1] \in mapTx THEN out[2] \in Outs[out[1]] ELSE Live(best, out)
  BY <1>2 DEF Connects
<1> QED BY <1>4, <1>5, <1>6

(* mapNextTx names one spender for every output *)
LEMMA OneSpender ==
  ASSUME mapTx \subseteq Txs, InputsMarked
  PROVE  /\ \A out : out \in Spent <=> \E t \in mapTx : out \in Inputs(t)
         /\ \A t \in mapTx : \A out \in Inputs(t) : mapNextTx[out][1] = t
         /\ \A t, u \in mapTx : \A out \in Inputs(t) : out \in Inputs(u) => t = u
<1>1. \A out : out \in Spent <=> \E t \in mapTx : out \in Inputs(t)
  BY DEF InputsMarked
<1>2. ASSUME NEW t \in mapTx, NEW out \in Inputs(t) PROVE mapNextTx[out][1] = t
  <2>1. PICK n \in DOMAIN Vin[t] : Vin[t][n] = out
    BY InputsAre
  <2>2. mapNextTx[Vin[t][n]] = <<t, n>>
    BY DEF InputsMarked
  <2> QED BY <2>1, <2>2
<1> QED BY <1>1, <1>2

LEMMA AddMarks ==
  ASSUME mapTx \subseteq Txs, InputsMarked, NEW t \in Txs,
         \A out \in Inputs(t) : out \notin Spent, addUnchecked(t)
  PROVE  /\ mapTx' = mapTx \union {t} /\ InputsMarked'
         /\ Spent' = Spent \union Inputs(t)
<1> DEFINE next(out) == <<t, CHOOSE n \in DOMAIN Vin[t] : Vin[t][n] = out>>
           f == [out \in Spent \union Inputs(t) |->
                   IF out \in Inputs(t) THEN next(out) ELSE mapNextTx[out]]
<1>1. mapTx' = mapTx \union {t} /\ mapNextTx' = f
  BY DEF addUnchecked
<1>2. Spent' = Spent \union Inputs(t)
  BY <1>1 DEF Spent
<1>3. ASSUME NEW n \in DOMAIN Vin[t] PROVE mapNextTx'[Vin[t][n]] = <<t, n>>
  <2>1. Vin[t][n] \in Inputs(t)
    BY InputsAre
  <2>2. mapNextTx'[Vin[t][n]] = next(Vin[t][n])
    BY <1>1, <2>1
  <2>3. (CHOOSE m \in DOMAIN Vin[t] : Vin[t][m] = Vin[t][n]) = n
    BY TxsAssumption
  <2> QED BY <2>2, <2>3
<1>4. ASSUME NEW u \in mapTx, NEW n \in DOMAIN Vin[u] PROVE mapNextTx'[Vin[u][n]] = <<u, n>>
  <2>1. Vin[u][n] \in Spent /\ mapNextTx[Vin[u][n]] = <<u, n>>
    BY InputsAre, OneSpender DEF InputsMarked
  <2>2. Vin[u][n] \notin Inputs(t)
    BY <2>1
  <2> QED BY <1>1, <2>1, <2>2
<1>5. Spent' = UNION {Inputs(u) : u \in mapTx'}
  BY <1>1, <1>2 DEF InputsMarked
<1>6. \A u \in mapTx' : \A n \in DOMAIN Vin[u] : mapNextTx'[Vin[u][n]] = <<u, n>>
  BY <1>1, <1>3, <1>4
<1>7. InputsMarked'
  BY <1>5, <1>6 DEF InputsMarked, Inputs, Range
<1> QED BY <1>1, <1>2, <1>7

LEMMA RemoveMarks ==
  ASSUME mapTx \subseteq Txs, InputsMarked, NEW gone, Without(gone)
  PROVE  /\ mapTx' = mapTx \ gone /\ InputsMarked'
         /\ Spent' \subseteq Spent
<1> DEFINE freed == UNION {Inputs(t) : t \in gone \intersect mapTx}
<1>1. /\ mapTx' = mapTx \ gone
      /\ mapNextTx' = [out \in Spent \ freed |-> mapNextTx[out]]
  BY DEF Without
<1>2. Spent' = Spent \ freed
  BY <1>1 DEF Spent
<1>3. ASSUME NEW t \in mapTx', NEW out \in Inputs(t)
      PROVE  out \in Spent' /\ mapNextTx'[out] = mapNextTx[out]
  <2>1. t \in mapTx /\ t \notin gone
    BY <1>1
  <2>2. out \in Spent /\ out \notin freed
    BY <2>1, OneSpender
  <2> HIDE DEF freed
  <2> QED BY <1>1, <1>2, <2>2
<1>4. Spent' = UNION {Inputs(u) : u \in mapTx'}
  <2>1. ASSUME NEW out \in Spent' PROVE \E u \in mapTx' : out \in Inputs(u)
    <3>1. out \in Spent /\ out \notin freed
      BY <1>2
    <3> QED BY <1>1, <3>1, OneSpender
  <2> QED BY <1>3, <2>1
<1>5. ASSUME NEW u \in mapTx', NEW n \in DOMAIN Vin[u] PROVE mapNextTx'[Vin[u][n]] = <<u, n>>
  <2>1. u \in mapTx /\ u \in Txs
    BY <1>1
  <2>2. mapNextTx'[Vin[u][n]] = mapNextTx[Vin[u][n]]
    BY <1>3, <2>1, InputsAre
  <2> QED BY <2>1, <2>2 DEF InputsMarked
<1>7. InputsMarked'
  BY <1>4, <1>5 DEF InputsMarked, Inputs, Range
<1> QED BY <1>1, <1>2, <1>7

(* remove takes along whatever spends from what it removes, and no more *)
LEMMA DependentsAre ==
  ASSUME mapTx \subseteq Txs, InputsMarked, NEW ts
  PROVE  /\ ts \subseteq Dependents(ts)
         /\ \A t \in mapTx : \A out \in Inputs(t) :
              out[1] \in Dependents(ts) => t \in Dependents(ts)
         /\ \A S \in SUBSET (ts \union mapTx) :
              /\ ts \subseteq S
              /\ \A t \in mapTx : \A out \in Inputs(t) : out[1] \in S => t \in S
              => Dependents(ts) \subseteq S
<1> DEFINE Closed(S) == ts \subseteq S /\ Follows(S) \subseteq S
           D == Dependents(ts)
<1>1. \A x : x \in D <=> /\ x \in ts \union mapTx
                         /\ \A S \in SUBSET (ts \union mapTx) : Closed(S) => x \in S
  BY DEF Dependents
<1>2. \A S : \A t \in mapTx : \A out \in Inputs(t) : out[1] \in S => t \in Follows(S)
  <2> SUFFICES ASSUME NEW S, NEW t \in mapTx, NEW out \in Inputs(t), out[1] \in S
               PROVE  t \in Follows(S)
    OBVIOUS
  <2>1. out \in Spent /\ mapNextTx[out][1] = t
    BY OneSpender
  <2> QED BY <2>1 DEF Follows
<1>3. \A S : \A x \in Follows(S) :
        \E t \in mapTx : \E out \in Inputs(t) : out[1] \in S /\ x = t
  <2> SUFFICES ASSUME NEW S, NEW x \in Follows(S)
               PROVE  \E t \in mapTx : \E out \in Inputs(t) : out[1] \in S /\ x = t
    OBVIOUS
  <2>1. PICK out \in Spent : out[1] \in S /\ x = mapNextTx[out][1]
    BY DEF Follows
  <2> QED BY <2>1, OneSpender
<1> HIDE DEF D
<1>4. ts \subseteq D
  BY <1>1
<1>5. ASSUME NEW t \in mapTx, NEW out \in Inputs(t), out[1] \in D PROVE t \in D
  <2>1. ASSUME NEW S \in SUBSET (ts \union mapTx), Closed(S) PROVE t \in S
    BY <1>1, <1>2, <1>5, <2>1
  <2> QED BY <1>1, <2>1
<1>6. ASSUME NEW S \in SUBSET (ts \union mapTx), ts \subseteq S,
             \A t \in mapTx : \A out \in Inputs(t) : out[1] \in S => t \in S
      PROVE  D \subseteq S
  <2>1. Follows(S) \subseteq S
    BY <1>3, <1>6
  <2> QED BY <1>1, <1>6, <2>1
<1> QED BY <1>4, <1>5, <1>6 DEF D

-----------------------------------------------------------------------------
(* Every step keeps it                                                     *)

LEMMA PoolInitInv == ASSUME PoolInit PROVE PoolInv
<1> USE DEF PoolInit
<1>1. Spent = {}
  BY DEF Spent
<1>2. mapTx \subseteq Txs \ Coinbases /\ InputsMarked
  BY <1>1 DEF InputsMarked
<1>3. StageInv
  BY BlocksAssumption DEF StageInv, ValidChain
<1> QED BY <1>2, <1>3 DEF PoolInv, InputsInv, ApartInv, LostInv, ReorgInv

(* what AcceptToMemoryPool has checked *)
LEMMA AcceptsFacts ==
  ASSUME PoolInv, NEW t \in Txs, NEW fLimitFree, Accepts(t, fLimitFree)
  PROVE  /\ t \notin Coinbases /\ t \notin mapTx
         /\ \A out \in Inputs(t) : /\ out \notin Spent
                                   /\ out[2] \in Outs[out[1]] /\ Held(out)
<1>1. /\ t \notin Coinbases /\ t \notin mapTx
      /\ \A out \in Inputs(t) : out \notin Spent /\ IsSpendable(out)
  BY DEF Accepts, Standing, Known
<1>2. best \in Blocks /\ ValidChain(best)
  BY DEF PoolInv, StageInv
<1> QED BY <1>1, <1>2, AvailableIs

(* what is in the chain has spent its inputs there *)
LEMMA InputsOfChain ==
  ASSUME NEW b \in Blocks, ValidChain(b), NEW t \in Txs, ChainTx(b, t), NEW out \in Inputs(t)
  PROVE  /\ ChainSpent(b, out) /\ ChainTx(b, out[1])
         /\ Once(out[1]) => ~Live(b, out)
<1>1. PICK p \in PlacesOf(b) : TxAt(p) = t
  BY DEF ChainTx
<1>2. Spends(p, out)
  BY <1>1, InputsAre DEF Spends
<1>3. ChainSpent(b, out) /\ ChainTx(b, out[1])
  BY <1>2, SpentInChain DEF ChainSpent
<1>4. out[1] \in Txs /\ out = <<out[1], out[2]>>
  BY InputsAre
<1> QED BY <1>3, <1>4, OnceLive

LEMMA AcceptedIsNew ==
  ASSUME PoolInv, stage # "connected", NEW t \in Txs, NEW fLimitFree,
         Accepts(t, fLimitFree), t \notin Repeated
  PROVE  ~ChainTx(best, t)
<1> SUFFICES ASSUME ChainTx(best, t) PROVE FALSE
  OBVIOUS
<1>1. t \notin Coinbases /\ \A out \in Inputs(t) : Held(out)
  BY AcceptsFacts
<1>2. PICK out \in Inputs(t) : TRUE
  BY <1>1, InputsAre
<1>3. out[1] \notin Repeated /\ Once(out[1])
  BY RepeatedAre
<1>4. ChainTx(best, out[1]) /\ ~Live(best, out)
  BY <1>3, InputsOfChain DEF PoolInv, StageInv
<1>5. out[1] \in mapTx
  BY <1>1, <1>4 DEF Held
<1> QED BY <1>3, <1>4, <1>5 DEF PoolInv, ApartInv

(* a transaction enters the pool between the blocks *)
LEMMA EntersPool ==
  ASSUME PoolInv, NEW t \in Txs, NEW fLimitFree, Accepts(t, fLimitFree),
         addUnchecked(t), UNCHANGED <<best, pruned, lost, block, nth>>,
         stage \in {"idle", "queue", "orphans"}, stage' \in {"idle", "queue", "orphans"}
  PROVE  PoolInv'
<1>1. /\ t \notin Coinbases /\ t \notin mapTx /\ mapTx \subseteq Txs \ Coinbases
      /\ \A out \in Inputs(t) : out \notin Spent /\ out[2] \in Outs[out[1]] /\ Held(out)
      /\ t \notin Repeated => ~ChainTx(best, t)
  BY AcceptsFacts, AcceptedIsNew DEF PoolInv
<1>2. mapTx' = mapTx \union {t} /\ InputsMarked'
  BY <1>1, AddMarks DEF PoolInv
<1>3. StageInv'
  BY DEF PoolInv, StageInv
<1>4. \A out : Held(out) => Held(out)'
  BY <1>2 DEF Held
<1>5. \A out : Accounted(out) => Accounted(out)'
  BY <1>4 DEF Accounted
<1>6. ASSUME NEW u \in mapTx', NEW out \in Inputs(u)
      PROVE  out[2] \in Outs[out[1]] /\ Accounted(out)'
  <2>1. CASE u = t
    BY <1>1, <1>4, <2>1 DEF Accounted
  <2>2. CASE u # t
    BY <1>2, <1>5, <2>2 DEF PoolInv, InputsInv
  <2> QED BY <2>1, <2>2
<1>7. InputsInv'
  BY <1>6 DEF InputsInv, Inputs, Range
<1>8. ApartInv'
  BY <1>1, <1>2 DEF PoolInv, ApartInv
<1>9. LostInv' /\ ReorgInv'
  BY DEF PoolInv, LostInv, ReorgInv
<1> QED BY <1>1, <1>2, <1>3, <1>7, <1>8, <1>9 DEF PoolInv

(* and what leaves the pool alone keeps the invariant, between the blocks *)
LEMMA PoolUntouched ==
  ASSUME PoolInv, UNCHANGED <<best, pruned, lost, mapTx, mapNextTx, block, nth>>,
         stage \in {"idle", "queue", "orphans"}, stage' \in {"idle", "queue", "orphans"}
  PROVE  PoolInv'
<1>1. StageInv'
  BY DEF PoolInv, StageInv
<1>2. InputsMarked'
  BY DEF PoolInv, InputsMarked, Spent, Inputs, Range
<1>3. \A out : Accounted(out) => Accounted(out)'
  BY DEF Accounted, Held
<1>4. InputsInv'
  BY <1>3 DEF PoolInv, InputsInv, Inputs, Range
<1>5. ApartInv' /\ LostInv' /\ ReorgInv'
  BY DEF PoolInv, ApartInv, LostInv, ReorgInv
<1> QED BY <1>1, <1>2, <1>4, <1>5 DEF PoolInv

LEMMA TxMessageInd ==
  ASSUME PoolInv,
         \/ \E t \in Txs : TxAccepted(t) \/ TryOrphan(t) \/ AcceptOwn(t)
         \/ \E t \in Txs, p \in Peers : TxMissingInputs(t, p)
         \/ NextInQueue \/ OrphansTried \/ TxMessageReturns
         \/ \E p \in Peers : EraseOrphansFor(p)
  PROVE  PoolInv'
<1> USE DEF chain, pool, maps, queue, progress
<1>1. ASSUME NEW t \in Txs, TxAccepted(t) PROVE PoolInv'
  BY <1>1, EntersPool DEF TxAccepted
<1>2. ASSUME NEW t \in Txs, TryOrphan(t) PROVE PoolInv'
  <2>1. stage = "orphans" /\ stage' = "orphans" /\ UNCHANGED <<best, pruned, lost, block, nth>>
    BY <1>2 DEF TryOrphan
  <2>2. \/ Accepts(t, TRUE) /\ addUnchecked(t)
        \/ UNCHANGED <<mapTx, mapNextTx>>
    BY <1>2 DEF TryOrphan
  <2> QED BY <2>1, <2>2, EntersPool, PoolUntouched
<1>3. ASSUME NEW t \in Txs, AcceptOwn(t) PROVE PoolInv'
  BY <1>3, EntersPool DEF AcceptOwn
<1>4. ASSUME NEW t \in Txs, NEW p \in Peers, TxMissingInputs(t, p) PROVE PoolInv'
  BY <1>4, PoolUntouched DEF TxMissingInputs
<1>5. ASSUME NextInQueue \/ OrphansTried \/ TxMessageReturns PROVE PoolInv'
  BY <1>5, PoolUntouched DEF NextInQueue, OrphansTried, TxMessageReturns
<1>6. ASSUME NEW p \in Peers, EraseOrphansFor(p) PROVE PoolInv'
  BY <1>6, PoolUntouched DEF EraseOrphansFor
<1> QED BY <1>1, <1>2, <1>3, <1>4, <1>5, <1>6

(* a block is connected: what it spends is still to be removed *)
LEMMA ConnectTipInd ==
  ASSUME PoolInv, NEW b \in Blocks, ConnectTip(b)
  PROVE  PoolInv'
<1> USE DEF pool, maps, queue
<1>1. /\ stage = "idle" /\ b \in Blocks \ {Genesis} /\ Prev[b] = best /\ Valid(b)
      /\ best' = b /\ stage' = "connected" /\ block' = b /\ nth' = 1
      /\ lost' = lost \ {Vtx[b][1]} /\ 1 \in DOMAIN Vtx[b]
      /\ UNCHANGED <<mapTx, mapNextTx>>
  BY TxFacts DEF ConnectTip
<1>2. best \in Blocks /\ ValidChain(best) /\ ValidChain(b)
  BY <1>1, ValidBelow DEF PoolInv, StageInv
<1>3. StageInv'
  BY <1>1, <1>2, TxFacts DEF StageInv
<1>4. InputsMarked'
  BY <1>1 DEF PoolInv, InputsMarked, Spent, Inputs, Range
<1>5. Rest' = DOMAIN Vtx[b]
  BY <1>1, TxFacts DEF Rest
<1>6. ASSUME NEW t \in mapTx, NEW out \in Inputs(t) PROVE out[2] \in Outs[out[1]] /\ Accounted(out)'
  <2>1. out[2] \in Outs[out[1]] /\ (Held(out) \/ out[1] \in lost) /\ out = <<out[1], out[2]>>
    BY <1>1, InputsAre DEF PoolInv, InputsInv, Accounted
  <2> SUFFICES ASSUME out[1] \notin mapTx, out[1] \notin lost \/ out[1] = Vtx[b][1]
               PROVE  Live(b, out) \/ \E k \in DOMAIN Vtx[b] : out \in Inputs(Vtx[b][k])
    BY <1>1, <1>5, <2>1 DEF Accounted, Held, Inputs, Range
  <2>2. CASE \E m \in DOMAIN Vtx[b] : Vtx[b][m] = out[1]
    BY <1>1, <2>1, <2>2, LiveGrows
  <2>3. CASE \A m \in DOMAIN Vtx[b] : Vtx[b][m] # out[1]
    BY <1>1, <2>1, <2>3, LiveGrows DEF Held
  <2> QED BY <2>2, <2>3
<1>7. InputsInv'
  BY <1>1, <1>6 DEF InputsInv, Inputs, Range
<1>8. ApartInv'
  <2> SUFFICES ASSUME NEW t \in mapTx \ Repeated, ChainTx(b, t)
               PROVE  \E k \in DOMAIN Vtx[b] : Vtx[b][k] = t
    BY <1>1, <1>5 DEF ApartInv
  <2>1. ~ChainTx(best, t)
    BY <1>1 DEF PoolInv, ApartInv
  <2> QED BY <1>1, <2>1, ChainGrows
<1>9. LostInv'
  <2>1. lost \subseteq Coinbases /\ \A c \in lost \ Repeated : ~ChainTx(best, c)
    BY DEF PoolInv, LostInv
  <2>2. \A k \in DOMAIN Vtx[b] : Vtx[b][k] \in Coinbases => k = 1
    BY TxsAssumption
  <2>3. \A c \in lost \ {Vtx[b][1]} : ChainTx(b, c) => ChainTx(best, c)
    BY <1>1, <2>1, <2>2, ChainGrows
  <2> QED BY <1>1, <2>1, <2>3 DEF LostInv
<1>10. ReorgInv'
  BY <1>1 DEF ReorgInv
<1> QED BY <1>1, <1>3, <1>4, <1>7, <1>8, <1>9, <1>10 DEF PoolInv

(* one transaction of a connected block, and what it conflicts with, goes *)
LEMMA RemoveConflictsInd ==
  ASSUME PoolInv, RemoveConflicts
  PROVE  PoolInv'
<1> USE DEF chain, maps, queue
<1> DEFINE x == Vtx[block][nth]
           D == Conflicts(x)
<1>1. /\ stage = "connected" /\ stage' = "connected" /\ nth <= Len(Vtx[block]) /\ nth' = nth + 1
      /\ Without({x} \union D) /\ UNCHANGED <<best, pruned, lost, block>>
  BY DEF RemoveConflicts, BlockTx
<1>2. /\ best = block /\ block \in Blocks \ {Genesis} /\ ValidChain(block)
      /\ nth \in DOMAIN Vtx[block] /\ nth \in Nat /\ Len(Vtx[block]) \in Nat /\ x \in Txs
  BY <1>1, TxFacts DEF PoolInv, StageInv
<1>3. mapTx \subseteq Txs \ Coinbases /\ mapTx \subseteq Txs /\ InputsMarked
  BY DEF PoolInv
<1>4. mapTx' = mapTx \ ({x} \union D) /\ InputsMarked'
  BY <1>1, <1>3, RemoveMarks
<1>5. ASSUME NEW t \in mapTx', NEW out \in Inputs(t)
      PROVE  t \in mapTx /\ out[1] \notin D /\ out \notin Inputs(x)
  <2> DEFINE ts == {mapNextTx[o][1] : o \in Inputs(x) \intersect Spent} \ {x}
  <2>1. t \in mapTx /\ t # x /\ t \notin D
    BY <1>4
  <2>2. D = Dependents(ts)
    BY DEF Conflicts
  <2>3. out[1] \notin D
    BY <1>3, <2>1, <2>2, DependentsAre
  <2>4. ts \subseteq D
    BY <1>3, <2>2, DependentsAre
  <2>5. ASSUME out \in Inputs(x) PROVE t \in ts
    BY <1>3, <2>1, <2>5, OneSpender
  <2> QED BY <2>1, <2>3, <2>4, <2>5
<1>6. StageInv'
  BY <1>1, <1>2, TxFacts DEF PoolInv, StageInv
<1>7. \A k \in Rest : k = nth \/ k \in Rest'
  BY <1>1, <1>2 DEF Rest
<1>8. ASSUME NEW t \in mapTx', NEW out \in Inputs(t)
      PROVE  out[2] \in Outs[out[1]] /\ Accounted(out)'
  <2>1. t \in mapTx /\ out[1] \notin D /\ out \notin Inputs(x)
    BY <1>5
  <2>2. out[2] \in Outs[out[1]] /\ Accounted(out)
    BY <2>1 DEF PoolInv, InputsInv
  <2>3. CASE out[1] \in mapTx /\ out[1] # x
    BY <1>4, <2>1, <2>2, <2>3 DEF Accounted, Held
  <2>4. CASE out[1] = x
    <3>1. out = <<out[1], out[2]>>
      BY <1>3, <2>1, InputsAre
    <3>2. CASE Live(best, out)
      BY <1>1, <2>2, <3>2 DEF Accounted, Held
    <3>3. CASE ~Live(best, out)
      <4>1. PICK k \in DOMAIN Vtx[block] : nth < k /\ out \in Inputs(Vtx[block][k])
        BY <1>2, <2>2, <2>4, <3>1, <3>3, LiveGrows
      <4>2. k \in Rest'
        BY <1>1, <1>2, <4>1, TxFacts DEF Rest
      <4> QED BY <1>1, <2>2, <4>1, <4>2 DEF Accounted, Inputs, Range
    <3> QED BY <2>2, <3>2, <3>3
  <2>5. CASE Live(best, out) \/ out[1] \in lost
    BY <1>1, <2>2, <2>5 DEF Accounted, Held
  <2>6. CASE \E k \in Rest : out \in Inputs(Vtx[block][k])
    <3>1. PICK k \in Rest : out \in Inputs(Vtx[block][k])
      BY <2>6
    <3>2. k \in Rest'
      BY <1>7, <2>1, <3>1
    <3> QED BY <1>1, <2>2, <3>1, <3>2 DEF Accounted, Inputs, Range
  <2> QED BY <1>1, <2>2, <2>3, <2>4, <2>5, <2>6 DEF Accounted, Held
<1>9. InputsInv'
  BY <1>8 DEF InputsInv, Inputs, Range
<1>10. ApartInv'
  <2> SUFFICES ASSUME NEW t \in mapTx' \ Repeated, ChainTx(best, t)
               PROVE  \E k \in Rest' : Vtx[block][k] = t
    BY <1>1 DEF ApartInv
  <2>1. PICK k \in Rest : Vtx[block][k] = t
    BY <1>4 DEF PoolInv, ApartInv
  <2> QED BY <1>4, <1>7, <2>1
<1>11. LostInv' /\ ReorgInv'
  BY <1>1 DEF PoolInv, LostInv, ReorgInv
<1> QED BY <1>3, <1>4, <1>6, <1>9, <1>10, <1>11 DEF PoolInv

(* a block is disconnected: nothing in the pool spends what its            *)
(* transactions spent, the repeated ones aside                             *)
LEMMA DisconnectTipInd ==
  ASSUME PoolInv, DisconnectTip
  PROVE  PoolInv'
<1> USE DEF pool, maps, queue
<1>1. /\ stage = "idle" /\ best # Genesis /\ best' = Prev[best]
      /\ stage' = "disconnected" /\ block' = best /\ nth' = 1
      /\ lost' = lost \union {Vtx[best][1]}
      /\ UNCHANGED <<mapTx, mapNextTx>>
  BY DEF DisconnectTip
<1>2. /\ best \in Blocks \ {Genesis} /\ ValidChain(best)
      /\ Prev[best] \in Blocks /\ ValidChain(Prev[best])
  BY <1>1, ValidBelow, TreeFacts DEF PoolInv, StageInv
<1>3. mapTx \subseteq Txs /\ InputsMarked
  BY DEF PoolInv
<1>4. StageInv'
  BY <1>1, <1>2, TxFacts DEF StageInv
<1>5. InputsMarked' /\ Spent' = Spent
  BY <1>1, <1>3 DEF InputsMarked, Spent, Inputs, Range
<1>6. Rest' = DOMAIN Vtx[best]
  BY <1>1, <1>2, TxFacts DEF Rest
<1>7. ASSUME NEW t \in mapTx, NEW out \in Inputs(t)
      PROVE  out[2] \in Outs[out[1]] /\ Accounted(out)'
  <2>1. out[2] \in Outs[out[1]] /\ (Held(out) \/ out[1] \in lost) /\ out = <<out[1], out[2]>>
    BY <1>1, <1>3, InputsAre DEF PoolInv, InputsInv, Accounted
  <2> SUFFICES ASSUME out[1] \notin mapTx, out[1] \notin lost
               PROVE  \/ Live(Prev[best], out) \/ out[1] = Vtx[best][1]
                      \/ \E k \in DOMAIN Vtx[best] : Vtx[best][k] = out[1] /\ out[1] \notin Coinbases
    BY <1>1, <1>6, <2>1 DEF Accounted, Held
  <2>2. Live(best, out)
    BY <2>1 DEF Held
  <2>3. CASE \E m \in DOMAIN Vtx[best] : Vtx[best][m] = out[1]
    BY <1>2, <2>3, TxsAssumption
  <2>4. CASE \A m \in DOMAIN Vtx[best] : Vtx[best][m] # out[1]
    BY <1>2, <2>1, <2>2, <2>4, LiveGrows
  <2> QED BY <2>3, <2>4
<1>8. InputsInv'
  BY <1>1, <1>7 DEF InputsInv, Inputs, Range
<1>9. ApartInv'
  <2>1. ASSUME NEW t \in mapTx \ Repeated PROVE ~ChainTx(Prev[best], t)
    BY <1>1, <1>2, ChainGrows DEF PoolInv, ApartInv
  <2> QED BY <1>1, <2>1 DEF ApartInv
<1>10. ReorgInv'
  <2>1. ASSUME NEW k \in DOMAIN Vtx[best], Vtx[best][k] \notin Repeated
        PROVE  Vtx[best][k] \notin mapTx
    BY <1>1, <1>2, <2>1, ChainGrows DEF PoolInv, ApartInv
  <2>2. ASSUME NEW k \in DOMAIN Vtx[best], Vtx[best][k] \notin Repeated,
               NEW out \in Inputs(Vtx[best][k]), out \in Spent
        PROVE  FALSE
    <3>1. PICK t \in mapTx : out \in Inputs(t)
      BY <1>3, <2>2, OneSpender
    <3>2. Held(out) \/ out[1] \in lost
      BY <1>1, <3>1 DEF PoolInv, InputsInv, Accounted
    <3>3. Vtx[best][k] \in Txs /\ ChainTx(best, Vtx[best][k])
      BY <1>2, ChainGrows, TxFacts
    <3>4. out[1] \notin Repeated /\ Once(out[1])
      BY <2>2, <3>3, RepeatedAre
    <3>5. ChainTx(best, out[1]) /\ ~Live(best, out)
      BY <1>2, <2>2, <3>3, <3>4, InputsOfChain
    <3>6. out[1] \in mapTx
      BY <3>2, <3>4, <3>5 DEF Held, PoolInv, LostInv
    <3> QED BY <1>1, <3>4, <3>5, <3>6 DEF PoolInv, ApartInv
  <2>3. 1 .. (nth' - 1) = {}
    BY <1>1
  <2> QED BY <1>1, <1>5, <1>6, <2>1, <2>2, <2>3 DEF ReorgInv, Inputs, Range
<1>11. LostInv'
  <2>1. 1 \in DOMAIN Vtx[best] /\ Vtx[best][1] \in Coinbases /\ Vtx[best][1] \in Txs
    BY <1>2, TxFacts, TxsAssumption
  <2>2. Vtx[best][1] \notin Repeated => ~ChainTx(Prev[best], Vtx[best][1])
    BY <1>2, <2>1, RepeatedAre, OncePerBlock
  <2>3. lost \subseteq Coinbases /\ \A c \in lost \ Repeated : ~ChainTx(Prev[best], c)
    BY <1>2, ChainGrows DEF PoolInv, LostInv
  <2> QED BY <1>1, <2>1, <2>2, <2>3 DEF LostInv
<1> QED BY <1>1, <1>4, <1>5, <1>8, <1>9, <1>10, <1>11 DEF PoolInv

LEMMA UpdateTipInd ==
  ASSUME PoolInv, UpdateTip
  PROVE  PoolInv'
<1> USE DEF chain, pool, maps, queue
<1>1. /\ stage \in {"connected", "disconnected"} /\ stage' = "idle" /\ nth > Len(Vtx[block])
      /\ UNCHANGED <<best, pruned, lost, mapTx, mapNextTx>>
  BY DEF UpdateTip
<1>2. Rest = {}
  BY <1>1, TxFacts DEF PoolInv, StageInv, Rest
<1>3. StageInv'
  BY <1>1 DEF PoolInv, StageInv
<1>4. InputsMarked'
  BY <1>1 DEF PoolInv, InputsMarked, Spent, Inputs, Range
<1>5. \A out : Accounted(out) => Accounted(out)'
  BY <1>1, <1>2 DEF Accounted, Held
<1>6. InputsInv'
  BY <1>1, <1>5 DEF PoolInv, InputsInv, Inputs, Range
<1>7. ApartInv' /\ LostInv' /\ ReorgInv'
  BY <1>1, <1>2 DEF PoolInv, ApartInv, LostInv, ReorgInv
<1> QED BY <1>1, <1>3, <1>4, <1>6, <1>7 DEF PoolInv

(* The transactions of a disconnected block go back, in order.             *)
Going == Vtx[block][nth]

LEMMA ResurrectFacts ==
  ASSUME PoolInv, Resurrect
  PROVE  /\ stage = "disconnected" /\ stage' = "disconnected" /\ nth' = nth + 1
         /\ UNCHANGED <<best, pruned, lost, block>>
         /\ block \in Blocks \ {Genesis} /\ ValidChain(block) /\ best = Prev[block]
         /\ best \in Blocks /\ ValidChain(best)
         /\ nth \in DOMAIN Vtx[block] /\ nth \in Nat /\ Len(Vtx[block]) \in Nat
         /\ DOMAIN Vtx[block] = 1 .. Len(Vtx[block])
         /\ Going \in Txs
         /\ Going \notin Repeated =>
              /\ Going \notin mapTx /\ ~ChainTx(best, Going)
              /\ \A out \in Inputs(Going) : out \notin Spent
         /\ mapTx \subseteq Txs \ Coinbases /\ mapTx \subseteq Txs /\ InputsMarked
         /\ nth \in Rest /\ \A k : k \in Rest <=> k = nth \/ k \in Rest'
         /\ Rest' \subseteq DOMAIN Vtx[block] /\ \A k \in Rest' : k > nth
<1> USE DEF chain, maps, queue
<1>1. /\ stage = "disconnected" /\ stage' = "disconnected" /\ nth' = nth + 1
      /\ nth <= Len(Vtx[block]) /\ UNCHANGED <<best, pruned, lost, block>>
  BY DEF Resurrect
<1>2. /\ block \in Blocks \ {Genesis} /\ ValidChain(block) /\ best = Prev[block]
      /\ nth \in 1 .. Len(Vtx[block]) + 1 /\ best \in Blocks /\ ValidChain(best)
  BY <1>1 DEF PoolInv, StageInv
<1>3. /\ nth \in DOMAIN Vtx[block] /\ nth \in Nat /\ Len(Vtx[block]) \in Nat
      /\ Going \in Txs /\ DOMAIN Vtx[block] = 1 .. Len(Vtx[block])
  BY <1>1, <1>2, TxFacts DEF Going
<1>4. /\ nth \in Rest /\ \A k : k \in Rest <=> k = nth \/ k \in Rest'
      /\ Rest' \subseteq DOMAIN Vtx[block] /\ \A k \in Rest' : k > nth
  BY <1>1, <1>3 DEF Rest
<1>5. Going \notin Repeated => ~ChainTx(best, Going)
  BY <1>2, <1>3, RepeatedAre, OncePerBlock DEF Going
<1>6. Going \notin Repeated => Going \notin mapTx /\ \A out \in Inputs(Going) : out \notin Spent
  BY <1>1, <1>4 DEF PoolInv, ReorgInv, Going
<1> QED BY <1>1, <1>2, <1>3, <1>4, <1>5, <1>6 DEF PoolInv

(* Standing alone decides: with the parents back, nothing else refuses it *)
LEMMA ResurrectedIff ==
  ASSUME PoolInv, Resurrect, pruned = {}, Going \notin Coinbases \union Repeated
  PROVE  Accepts(Going, FALSE) <=>
           Going \notin NonStandard /\ ParentsIn(block, Going, mapTx)
<1> USE ResurrectFacts
<1>0. \A out \in Inputs(Going) : out[1] \in Txs /\ out[1] \notin Repeated /\ Once(out[1])
  BY RepeatedAre
<1>1. ASSUME NEW p, NEW m \in DOMAIN Vtx[block], Vtx[block][m] = p, Once(p)
      PROVE  ~ChainTx(best, p)
  BY <1>1, OncePerBlock
<1>2. ASSUME Accepts(Going, FALSE),
             NEW p \in ParentTxs(Going), NEW m \in DOMAIN Vtx[block], Vtx[block][m] = p
      PROVE  p \in mapTx
  <2>1. PICK out \in Inputs(Going) : out[1] = p
    BY InputsAre
  <2>2. IsSpendable(out)
    BY <1>2 DEF Accepts, Standing
  <2>3. ~ChainTx(best, p)
    BY <1>0, <1>1, <1>2, <2>1
  <2> QED BY <2>1, <2>2, <2>3, AvailableIs
<1>3. Accepts(Going, FALSE) => Going \notin NonStandard
  BY DEF Accepts, Standing
<1>4. ASSUME Going \notin NonStandard, ParentsIn(block, Going, mapTx)
      PROVE  Accepts(Going, FALSE)
  <2>1. Going \notin BadSig
    BY PoolAssumption DEF Going
  <2>2. ~Known(Going)
    <3>1. UnspentCoins(Going) = NoCoins
      BY UnspentIs
    <3> QED BY <3>1 DEF Known, HaveCoins
  <2>3. ASSUME NEW out \in Inputs(Going) PROVE IsSpendable(out)
    <3>1. out[2] \in Outs[out[1]] /\ ChainTx(block, out[1]) /\ ~ChainSpent(best, out)
      BY <1>0, BlockInputs DEF Going
    <3>2. CASE ChainTx(best, out[1])
      <4>1. out[1] \in Txs /\ Once(out[1]) /\ out = <<out[1], out[2]>>
        BY <1>0, InputsAre
      <4>2. Live(best, out)
        BY <3>1, <3>2, <4>1, OnceLive
      <4> QED BY <4>2, AvailableIs
    <3>3. CASE ~ChainTx(best, out[1])
      <4>1. PICK m \in DOMAIN Vtx[block] : Vtx[block][m] = out[1]
        BY <3>1, <3>3, ChainGrows
      <4>2. out[1] \in mapTx
        BY <1>4, <4>1, InputsAre DEF ParentsIn
      <4> QED BY <3>1, <3>3, <4>2, AvailableIs
    <3> QED BY <3>2, <3>3
  <2>4. AllMature(Going)
    <3> SUFFICES ASSUME NEW p \in ParentTxs(Going), UnspentCoins(p) # NoCoins
                 PROVE  Mature(UnspentCoins(p), Height[best] + 1)
      BY DEF AllMature
    <3>1. PICK out \in Inputs(Going) : out[1] = p
      BY InputsAre
    <3>2. p \in Txs /\ UnspentCoins(p) = CoinsOf(best)[p]
      BY <3>1, InputsAre, UnspentIs
    <3>3. Height[block] = Height[best] + 1
      BY BlocksAssumption
    <3>4. Mature(CoinsOf(Prev[block])[out[1]], Height[block])
      BY <1>0, <3>1, <3>2, InputMature DEF Going
    <3> QED BY <3>1, <3>2, <3>3, <3>4
  <2> QED BY <1>4, <2>1, <2>2, <2>3, <2>4 DEF Accepts, Standing
<1> QED BY <1>2, <1>3, <1>4 DEF ParentsIn

(* what has gone back before keeps its place *)
LEMMA BackStays ==
  ASSUME PoolInv, Resurrect,
         \A m \in 1 .. (nth - 1) : Vtx[block][m] \notin Repeated =>
           (Vtx[block][m] \in mapTx' <=> Vtx[block][m] \in mapTx),
         NEW k \in 1 .. (nth - 1), Vtx[block][k] \notin Repeated, BackIn(block, Vtx[block][k], mapTx)
  PROVE  BackIn(block, Vtx[block][k], mapTx')
<1> USE ResurrectFacts
<1> DEFINE t == Vtx[block][k]
<1>1. k \in DOMAIN Vtx[block] /\ t \in Txs /\ (t \in mapTx' <=> t \in mapTx)
  BY TxFacts
<1>2. ASSUME NEW p \in ParentTxs(t), NEW m \in DOMAIN Vtx[block], Vtx[block][m] = p
      PROVE  p \in mapTx' <=> p \in mapTx
  <2>1. PICK out \in Inputs(t) : out[1] = p
    BY <1>1, InputsAre
  <2>2. p \notin Repeated /\ Once(out[1])
    BY <1>1, <2>1, RepeatedAre
  <2>3. m < k
    BY <1>1, <1>2, <2>1, <2>2, BlockInputs
  <2>4. m \in 1 .. (nth - 1)
    BY <2>3
  <2> QED BY <1>2, <2>2, <2>4
<1> QED BY <1>1, <1>2 DEF BackIn, ParentsIn

LEMMA ResurrectInd ==
  ASSUME PoolInv, Resurrect
  PROVE  PoolInv'
<1> USE ResurrectFacts
<1> DEFINE x == Going
           D == Dependents({x})
<1>1. \/ x \in Coinbases /\ UNCHANGED <<mapTx, mapNextTx>>
      \/ x \notin Coinbases /\ Accepts(x, FALSE) /\ addUnchecked(x)
      \/ x \notin Coinbases /\ ~Accepts(x, FALSE) /\ Without(D)
  BY DEF Resurrect, BlockTx, Going, pool, AcceptsResurrected, RemovedWith
<1>2. StageInv'
  BY TxFacts DEF PoolInv, StageInv
<1>3. \A m \in 1 .. (nth - 1) : m \in DOMAIN Vtx[block] /\ Vtx[block][m] # x
  <2>1. \A m \in 1 .. (nth - 1) : m \in DOMAIN Vtx[block] /\ m # nth
    OBVIOUS
  <2> QED BY <2>1, OncePerBlock DEF Going
<1>4. \A k \in Rest' : Vtx[block][k] \notin Repeated =>
        Vtx[block][k] # x /\ \A out \in Inputs(Vtx[block][k]) : out \notin Inputs(x)
  <2>1. \A k \in Rest' : k \in DOMAIN Vtx[block] /\ k # nth
    OBVIOUS
  <2>2. \A k \in Rest' : Vtx[block][k] # x
    BY <2>1, OncePerBlock DEF Going
  <2>3. ASSUME NEW k \in Rest', Vtx[block][k] \notin Repeated,
               NEW out \in Inputs(Vtx[block][k]), out \in Inputs(x)
        PROVE  FALSE
    <3>1. k \in DOMAIN Vtx[block] /\ k # nth /\ Vtx[block][k] \in Txs
      BY <2>1, TxFacts
    <3>2. Once(out[1])
      BY <2>3, <3>1, RepeatedAre
    <3> QED BY <2>3, <3>1, <3>2, BlockInputs DEF Going
  <2> QED BY <2>2, <2>3
(* it is enough to know what the pool has *)
<1>5. SUFFICES /\ mapTx' \subseteq Txs \ Coinbases /\ InputsMarked'
               /\ \A t \in mapTx' :
                    \/ t \in mapTx
                    \/ t = x /\ \A out \in Inputs(x) : out[2] \in Outs[out[1]] /\ Held(out)'
               /\ \A out \in Spent' : out \in Spent \/ out \in Inputs(x)
               /\ \A t \in mapTx' : \A out \in Inputs(t) :
                    out[1] \in mapTx \/ (out[1] = x /\ x \notin Coinbases) => out[1] \in mapTx'
               /\ \A m \in 1 .. (nth - 1) : Vtx[block][m] \notin Repeated =>
                    (Vtx[block][m] \in mapTx' <=> Vtx[block][m] \in mapTx)
               /\ pruned = {} /\ x \notin Coinbases \union Repeated => BackIn(block, x, mapTx')
  <2>1. ASSUME NEW t \in mapTx', NEW out \in Inputs(t)
        PROVE  out[2] \in Outs[out[1]] /\ Accounted(out)'
    <3>1. CASE t \in mapTx
      <4>1. out[2] \in Outs[out[1]] /\ Accounted(out)
        BY <3>1 DEF PoolInv, InputsInv
      <4>2. out[1] \in mapTx \/ (out[1] = x /\ x \notin Coinbases) => out[1] \in mapTx'
        BY <1>5, <2>1
      <4>3. CASE Held(out)
        BY <4>1, <4>2, <4>3 DEF Held, Accounted
      <4>4. CASE out[1] \in lost
        BY <4>1, <4>4 DEF Accounted
      <4>5. CASE \E k \in Rest : Vtx[block][k] = out[1] /\ out[1] \notin Coinbases
        <5>1. PICK k \in Rest : Vtx[block][k] = out[1] /\ out[1] \notin Coinbases
          BY <4>5
        <5>2. CASE k = nth
          BY <4>1, <4>2, <5>1, <5>2 DEF Accounted, Held, Going
        <5>3. CASE k \in Rest'
          BY <4>1, <5>1, <5>3 DEF Accounted
        <5> QED BY <5>2, <5>3
      <4> QED BY <4>1, <4>3, <4>4, <4>5 DEF Accounted
    <3>2. CASE t \notin mapTx
      BY <1>5, <2>1, <3>2 DEF Accounted
    <3> QED BY <3>1, <3>2
  <2>2. InputsInv'
    BY <2>1 DEF InputsInv, Inputs, Range
  <2>3. ApartInv'
    <3>1. ASSUME NEW t \in mapTx' \ Repeated PROVE ~ChainTx(best, t)
      BY <1>5 DEF PoolInv, ApartInv
    <3> QED BY <3>1 DEF ApartInv
  <2>4. ASSUME NEW k \in Rest', Vtx[block][k] \notin Repeated
        PROVE  Vtx[block][k] \notin mapTx' /\ \A out \in Inputs(Vtx[block][k]) : out \notin Spent'
    <3>1. Vtx[block][k] \notin mapTx /\ \A out \in Inputs(Vtx[block][k]) : out \notin Spent
      BY <2>4 DEF PoolInv, ReorgInv
    <3> QED BY <1>4, <1>5, <2>4, <3>1
  <2>5. ASSUME pruned = {}, NEW k \in 1 .. (nth' - 1), Vtx[block][k] \notin Coinbases \union Repeated
        PROVE  BackIn(block, Vtx[block][k], mapTx')
    <3>1. CASE k = nth
      BY <1>5, <2>5, <3>1 DEF Going
    <3>2. CASE k # nth
      <4>1. k \in 1 .. (nth - 1)
        BY <3>2
      <4>2. BackIn(block, Vtx[block][k], mapTx)
        BY <2>5, <4>1 DEF PoolInv, ReorgInv
      <4> QED BY <1>5, <2>5, <4>1, <4>2, BackStays
    <3> QED BY <3>1, <3>2
  <2>6. ReorgInv'
    BY <2>4, <2>5 DEF ReorgInv, BackIn, ParentsIn, ParentTxs, Inputs, Range
  <2>7. LostInv'
    BY DEF PoolInv, LostInv
  <2> QED BY <1>2, <1>5, <2>2, <2>3, <2>6, <2>7 DEF PoolInv
<1>6. CASE x \in Coinbases /\ UNCHANGED <<mapTx, mapNextTx>>
  <2>1. InputsMarked' /\ Spent' = Spent
    BY <1>6 DEF InputsMarked, Spent, Inputs, Range
  <2> QED BY <1>6, <2>1
<1>7. CASE x \notin Coinbases /\ Accepts(x, FALSE) /\ addUnchecked(x)
  <2>1. \A out \in Inputs(x) : out \notin Spent /\ out[2] \in Outs[out[1]] /\ Held(out)
    BY <1>7, AcceptsFacts
  <2>2. /\ mapTx' = mapTx \union {x} /\ InputsMarked'
        /\ Spent' = Spent \union Inputs(x)
    BY <1>7, <2>1, AddMarks
  <2>3. \A out : Held(out) => Held(out)'
    BY <2>2 DEF Held
  <2>4. ASSUME pruned = {}, x \notin Repeated PROVE BackIn(block, x, mapTx')
    <3>1. x \notin NonStandard /\ ParentsIn(block, x, mapTx)
      BY <1>7, <2>4, ResurrectedIff
    <3> QED BY <2>2, <3>1 DEF BackIn, ParentsIn
  <2> QED BY <1>3, <1>7, <2>1, <2>2, <2>3, <2>4
<1>8. CASE x \notin Coinbases /\ ~Accepts(x, FALSE) /\ Without(D)
  <2>1. mapTx' = mapTx \ D /\ InputsMarked' /\ Spent' \subseteq Spent
    BY <1>8, RemoveMarks
  <2>2. /\ x \in D
        /\ \A t \in mapTx : \A out \in Inputs(t) : out[1] \in D => t \in D
    BY DependentsAre
  <2>3. \A m \in 1 .. (nth - 1) : Vtx[block][m] \notin Repeated => Vtx[block][m] \notin D
    <3> DEFINE done == {Vtx[block][m] : m \in 1 .. (nth - 1)}
               S == ({x} \union mapTx) \ (done \ Repeated)
    <3>1. S \in SUBSET ({x} \union mapTx) /\ {x} \subseteq S
      BY <1>3
    <3>2. ASSUME NEW t \in mapTx, NEW out \in Inputs(t), out[1] \in S PROVE t \in S
      <4> SUFFICES ASSUME NEW m \in 1 .. (nth - 1), t = Vtx[block][m], t \notin Repeated
                   PROVE  FALSE
        OBVIOUS
      <4>0. out[1] \notin Repeated /\ Once(out[1])
        BY <3>2, RepeatedAre
      <4>1. m \in DOMAIN Vtx[block] /\ ChainTx(block, out[1])
        BY <1>3, <3>2, <4>0, BlockInputs
      <4>2. out[1] \in mapTx => ~ChainTx(best, out[1])
        BY <4>0 DEF PoolInv, ApartInv
      <4>3. ~ChainTx(best, out[1])
        BY <3>2, <4>0, <4>2
      <4>4. PICK k \in DOMAIN Vtx[block] : Vtx[block][k] = out[1]
        BY <4>1, <4>3, ChainGrows
      <4>5. k < m
        BY <3>2, <4>0, <4>1, <4>4, BlockInputs
      <4>6. k \in 1 .. (nth - 1)
        BY <4>5
      <4> QED BY <3>2, <4>0, <4>4, <4>6
    <3>3. D \subseteq S
      <4> HIDE DEF S
      <4>1. \A t \in mapTx : \A out \in Inputs(t) : out[1] \in S => t \in S
        BY <3>2
      <4> QED BY <3>1, <4>1, DependentsAre
    <3> QED BY <3>3
  <2>4. ASSUME pruned = {}, x \notin Repeated PROVE BackIn(block, x, mapTx')
    <3>1. ~(x \notin NonStandard /\ ParentsIn(block, x, mapTx))
      BY <1>8, <2>4, ResurrectedIff
    <3> QED BY <2>1, <2>2, <3>1 DEF BackIn, ParentsIn
  <2> QED BY <1>8, <2>1, <2>2, <2>3, <2>4
<1> QED BY <1>1, <1>6, <1>7, <1>8

LEMMA PoolStep ==
  ASSUME PoolInv, [PoolNext]_poolVars
  PROVE  PoolInv'
<1>1. CASE UNCHANGED poolVars
  <2>1. UNCHANGED <<best, pruned, lost, mapTx, mapNextTx>> /\ UNCHANGED <<stage, block, nth>>
    BY <1>1 DEF poolVars, chain, pool, progress
  <2>2. StageInv' /\ ApartInv' /\ LostInv'
    BY <2>1 DEF PoolInv, StageInv, ApartInv, LostInv, Rest
  <2>3. InputsMarked' /\ Spent' = Spent
    BY <2>1 DEF PoolInv, InputsMarked, Spent, Inputs, Range
  <2>4. InputsInv'
    <3>1. \A out : Accounted(out) => Accounted(out)'
      BY <2>1 DEF Accounted, Held, Rest, Inputs, Range
    <3> QED BY <2>1, <3>1 DEF PoolInv, InputsInv, Inputs, Range
  <2>5. ReorgInv'
    BY <2>1, <2>3 DEF PoolInv, ReorgInv, Rest
  <2> QED BY <2>1, <2>2, <2>3, <2>4, <2>5 DEF PoolInv
<1>2. CASE \/ \E t \in Txs : TxAccepted(t) \/ TryOrphan(t) \/ AcceptOwn(t)
           \/ \E t \in Txs, p \in Peers : TxMissingInputs(t, p)
           \/ NextInQueue \/ OrphansTried \/ TxMessageReturns
           \/ \E p \in Peers : EraseOrphansFor(p)
  BY <1>2, TxMessageInd
<1>3. CASE \E b \in Blocks : ConnectTip(b)
  BY <1>3, ConnectTipInd
<1>4. CASE RemoveConflicts \/ DisconnectTip \/ UpdateTip
  BY <1>4, RemoveConflictsInd, DisconnectTipInd, UpdateTipInd
<1>5. CASE Resurrect
  BY <1>5, ResurrectInd
<1> QED BY <1>1, <1>2, <1>3, <1>4, <1>5 DEF PoolNext

(* Through every transaction accepted or refused, every block and every    *)
(* reorganisation, each input of the pool is accounted for: held by the    *)
(* pool or the chain, lost with a coinbase, or about to be dealt with by   *)
(* the loop over the block (the inductive invariant).                      *)
THEOREM PoolAccounts ==
  PoolSpec => []PoolInv
<1>1. PoolInit => PoolInv
  BY PoolInitInv
<1>2. PoolInv /\ [PoolNext]_poolVars => PoolInv'
  BY PoolStep
<1> QED BY <1>1, <1>2, PTL DEF PoolSpec

(* mapNextTx says exactly who spends what, and between calls every input   *)
(* of the pool is unspent in the chain or an output of the pool, except    *)
(* those of a coinbase that a reorganisation has taken away.               *)
THEOREM PoolAlwaysConsistent ==
  PoolSpec => []PoolConsistent
<1>1. PoolInv => PoolConsistent
  <2> SUFFICES ASSUME PoolInv PROVE PoolConsistent
    OBVIOUS
  <2>1. best \in Blocks /\ mapTx \subseteq Txs
    BY DEF PoolInv, StageInv
  <2>2. ASSUME Settled, NEW t \in mapTx, NEW out \in Inputs(t)
        PROVE  Connects(out) \/ out[1] \in lost
    <3>1. out[2] \in Outs[out[1]] /\ (Held(out) \/ out[1] \in lost)
      BY <2>2 DEF Settled, PoolInv, InputsInv, Accounted
    <3> QED BY <2>1, <3>1, AvailableIs DEF Held
  <2> QED BY <2>2 DEF PoolInv, PoolConsistent
<1> QED BY <1>1, PoolAccounts, PTL

(* After a block is disconnected its transactions are in the pool again,   *)
(* fee or no fee, unless policy refuses them or a parent: nothing in the   *)
(* pool conflicts with them, none is refused for its coins, and none that  *)
(* has gone back is removed again with a later one.                        *)
THEOREM ReorgLosesNothing ==
  PoolSpec => []ReorgKeepsTransactions
<1>1. PoolInv => ReorgKeepsTransactions
  <2> SUFFICES ASSUME PoolInv, stage = "disconnected", nth > Len(Vtx[block]), pruned = {},
                      NEW t \in Range(Vtx[block]) \ (Coinbases \union Repeated)
               PROVE  t \in mapTx <=>
                        /\ t \notin NonStandard
                        /\ ParentTxs(t) \intersect Range(Vtx[block]) \subseteq mapTx
    BY DEF ReorgKeepsTransactions
  <2>1. PICK k \in DOMAIN Vtx[block] : t = Vtx[block][k]
    BY DEF Range
  <2>2. block \in Blocks /\ nth \in 1 .. Len(Vtx[block]) + 1
    BY DEF PoolInv, StageInv
  <2>3. k \in 1 .. (nth - 1)
    BY <2>1, <2>2, TxFacts
  <2>4. BackIn(block, t, mapTx)
    BY <2>1, <2>3 DEF PoolInv, ReorgInv
  <2>5. \A p : p \in Range(Vtx[block]) <=> \E m \in DOMAIN Vtx[block] : Vtx[block][m] = p
    BY DEF Range
  <2> QED BY <2>4, <2>5 DEF BackIn, ParentsIn
<1> QED BY <1>1, PoolAccounts, PTL

-----------------------------------------------------------------------------
(* The orphan transactions                                                 *)

OrphanInv ==
  /\ orphans \in [Txs -> Peers \union {Nobody}] /\ IsFiniteSet(OrphanSet)
  /\ OrphansExact
  /\ stage # "orphans" => todo = {}


LEMMA OrphansKept ==
  ASSUME OrphanInv, UNCHANGED <<orphans, byPrev>>, todo' \subseteq todo,
         Nobody \notin setMisbehaving', stage' # "orphans" => todo' = {}
  PROVE  OrphanInv'
<1>1. OrphanSet' = OrphanSet
  BY DEF OrphanSet
<1>2. OrphansExact'
  BY <1>1 DEF OrphanInv, OrphansExact, ParentTxs, Inputs, Range
<1> QED BY <1>1, <1>2 DEF OrphanInv

LEMMA OrphansErased ==
  ASSUME OrphanInv, NEW gone, EraseOrphanTxs(gone), todo = {}, todo' = {},
         Nobody \notin setMisbehaving'
  PROVE  OrphanInv'
<1>1. /\ orphans' = [t \in Txs |-> IF t \in gone THEN Nobody ELSE orphans[t]]
      /\ byPrev' = {e \in byPrev : ~(e[2] \in gone \intersect OrphanSet
                                       /\ e[1] \in ParentTxs(e[2]))}
  BY DEF EraseOrphanTxs
<1>2. orphans' \in [Txs -> Peers \union {Nobody}]
  BY <1>1 DEF OrphanInv
<1>3. OrphanSet' = OrphanSet \ gone
  BY <1>1 DEF OrphanInv, OrphanSet
<1>4. IsFiniteSet(OrphanSet') /\ Cardinality(OrphanSet') <= Cardinality(OrphanSet)
      /\ Cardinality(OrphanSet') \in Nat /\ Cardinality(OrphanSet) \in Nat
  BY <1>3, FS_Subset, FS_CardinalityType DEF OrphanInv
<1>5. byPrev' = {e \in Txs \X Txs : e[2] \in OrphanSet' /\ e[1] \in ParentTxs(e[2])}
  BY <1>1, <1>3 DEF OrphanInv, OrphansExact
<1>6. Cardinality(OrphanSet') <= MaxOrphans
  BY <1>4, PoolAssumption DEF OrphanInv, OrphansExact
<1>7. OrphansExact'
  BY <1>5, <1>6 DEF OrphansExact, ParentTxs, Inputs, Range
<1> QED BY <1>2, <1>4, <1>7 DEF OrphanInv

LEMMA OrphanAdded ==
  ASSUME OrphanInv, NEW t \in Txs, NEW p \in Peers,
         TxMissingInputs(t, p)
  PROVE  OrphanInv'
<1> USE DEF maps, queue, progress
<1>1. /\ stage = "idle" /\ stage' = stage /\ todo' = todo /\ todo = {}
      /\ setMisbehaving' = setMisbehaving /\ Nobody \notin setMisbehaving
  BY DEF TxMissingInputs, OrphanInv, OrphansExact
<1>2. CASE UNCHANGED <<orphans, byPrev>>
  BY <1>1, <1>2, OrphansKept
<1>3. CASE t \notin OrphanSet
           /\ \E evicted \in SUBSET (OrphanSet \union {t}) :
                /\ LimitOrphanTxSize(Cardinality(OrphanSet) + 1, evicted)
                /\ orphans' = [x \in Txs |-> IF x \in evicted THEN Nobody
                                             ELSE IF x = t THEN p ELSE orphans[x]]
                /\ byPrev' = {e \in byPrev \union (ParentTxs(t) \X {t}) : e[2] \notin evicted}
  <2> DEFINE S == OrphanSet \union {t}
  <2>1. PICK evicted \in SUBSET S :
          /\ LimitOrphanTxSize(Cardinality(OrphanSet) + 1, evicted)
          /\ orphans' = [x \in Txs |-> IF x \in evicted THEN Nobody
                                       ELSE IF x = t THEN p ELSE orphans[x]]
          /\ byPrev' = {e \in byPrev \union (ParentTxs(t) \X {t}) : e[2] \notin evicted}
    BY <1>3
  <2>2. orphans' \in [Txs -> Peers \union {Nobody}]
    BY <2>1 DEF OrphanInv
  <2>3. OrphanSet' = S \ evicted
    BY <2>1, PoolAssumption DEF OrphanInv, OrphanSet
  <2>4. /\ IsFiniteSet(S) /\ Cardinality(S) = Cardinality(OrphanSet) + 1
        /\ Cardinality(OrphanSet) \in Nat
    BY <1>3, FS_AddElement, FS_CardinalityType DEF OrphanInv
  <2>5. /\ IsFiniteSet(evicted) /\ Cardinality(evicted) \in Nat
        /\ IsFiniteSet(S \ evicted) /\ Cardinality(S \ evicted) \in Nat
    BY <2>4, FS_Subset, FS_CardinalityType
  <2>6. Cardinality(S \ evicted) = Cardinality(S) - Cardinality(evicted)
    <3>1. S \intersect evicted = evicted
      OBVIOUS
    <3>2. Cardinality(S \ evicted) = Cardinality(S) - Cardinality(S \intersect evicted)
      BY <2>4, FS_Difference
    <3> QED BY <3>1, <3>2
  <2>7. Cardinality(OrphanSet') <= MaxOrphans
    <3>1. MaxOrphans \in Nat
      BY PoolAssumption
    <3>2. Cardinality(evicted) = IF Cardinality(S) > MaxOrphans THEN Cardinality(S) - MaxOrphans ELSE 0
      BY <2>1, <2>4 DEF LimitOrphanTxSize
    <3> HIDE DEF S
    <3> QED BY <2>3, <2>4, <2>5, <2>6, <3>1, <3>2
  <2>8. byPrev' = {e \in Txs \X Txs : e[2] \in OrphanSet' /\ e[1] \in ParentTxs(e[2])}
    <3>1. ParentTxs(t) \subseteq Txs
      BY InputsAre
    <3>2. byPrev = {e \in Txs \X Txs : e[2] \in OrphanSet /\ e[1] \in ParentTxs(e[2])}
      BY DEF OrphanInv, OrphansExact
    <3>3. ASSUME NEW e
          PROVE  e \in byPrev' <=> e \in Txs \X Txs /\ e[2] \in S \ evicted /\ e[1] \in ParentTxs(e[2])
      BY <2>1, <3>1, <3>2
    <3> QED BY <2>3, <3>3
  <2>9. OrphansExact'
    BY <1>1, <2>7, <2>8 DEF OrphansExact, ParentTxs, Inputs, Range
  <2> QED BY <1>1, <2>2, <2>3, <2>5, <2>9 DEF OrphanInv
<1> QED BY <1>2, <1>3 DEF TxMissingInputs, AddOrphanTx

LEMMA OrphanStep ==
  ASSUME OrphanInv, [PoolNext]_poolVars
  PROVE  OrphanInv'
<1> USE DEF chain, pool, maps, queue, progress
<1>1. Nobody \notin setMisbehaving /\ todo \subseteq OrphanSet /\ (stage # "orphans" => todo = {})
  BY DEF OrphanInv, OrphansExact
<1>2. CASE UNCHANGED poolVars
  BY <1>1, <1>2, OrphansKept DEF poolVars
<1>3. ASSUME NEW t \in Txs, TxAccepted(t) PROVE OrphanInv'
  BY <1>3, OrphansKept DEF TxAccepted
<1>4. ASSUME NEW t \in Txs, TryOrphan(t) PROVE OrphanInv'
  <2>1. orphans[t] # Nobody
    BY <1>1, <1>4 DEF TryOrphan, OrphanSet
  <2>2. Nobody \notin setMisbehaving'
    BY <1>1, <1>4, <2>1 DEF TryOrphan
  <2> QED BY <1>4, <2>2, OrphansKept DEF TryOrphan
<1>5. ASSUME NEW t \in Txs, AcceptOwn(t) PROVE OrphanInv'
  BY <1>1, <1>5, OrphansKept DEF AcceptOwn
<1>6. ASSUME NextInQueue PROVE OrphanInv'
  <2>1. /\ stage' = "orphans" /\ UNCHANGED <<orphans, byPrev, setMisbehaving>>
        /\ todo' = {e[2] : e \in {x \in byPrev : x[1] = Head(vWorkQueue)}}
    BY <1>6 DEF NextInQueue
  <2>2. OrphanSet' = OrphanSet
    BY <2>1 DEF OrphanSet
  <2>3. todo' \subseteq OrphanSet
    BY <2>1 DEF OrphanInv, OrphansExact
  <2>4. OrphansExact'
    BY <1>1, <2>1, <2>2, <2>3 DEF OrphanInv, OrphansExact, ParentTxs, Inputs, Range
  <2> QED BY <2>1, <2>2, <2>4 DEF OrphanInv
<1>7. ASSUME OrphansTried PROVE OrphanInv'
  BY <1>1, <1>7, OrphansKept DEF OrphansTried
<1>8. ASSUME TxMessageReturns PROVE OrphanInv'
  BY <1>1, <1>8, OrphansErased DEF TxMessageReturns
<1>9. ASSUME NEW p \in Peers, EraseOrphansFor(p) PROVE OrphanInv'
  BY <1>1, <1>9, OrphansErased DEF EraseOrphansFor
<1>10. ASSUME NEW b \in Blocks, ConnectTip(b) PROVE OrphanInv'
  BY <1>1, <1>10, OrphansKept DEF ConnectTip
<1>11. ASSUME DisconnectTip \/ UpdateTip PROVE OrphanInv'
  BY <1>1, <1>11, OrphansKept DEF DisconnectTip, UpdateTip
<1>12. ASSUME RemoveConflicts \/ Resurrect PROVE OrphanInv'
  <2>1. stage # "orphans" /\ stage' = stage /\ UNCHANGED <<orphans, byPrev, todo, setMisbehaving>>
    BY <1>12 DEF RemoveConflicts, Resurrect
  <2> QED BY <1>1, <2>1, OrphansKept
<1> QED BY <1>2, <1>3, <1>4, <1>5, <1>6, <1>7, <1>8, <1>9, <1>10, <1>11, <1>12, OrphanAdded DEF PoolNext

(* The two maps of orphan transactions agree, stay within -maxorphantx,    *)
(* and every orphan that the work queue will look up is still there.       *)
THEOREM OrphanMapsAgree ==
  PoolSpec => []OrphansExact
<1>1. PoolInit => OrphanInv
  <2> SUFFICES ASSUME PoolInit PROVE OrphanInv
    OBVIOUS
  <2> USE DEF PoolInit
  <2>1. OrphanSet = {}
    BY DEF OrphanSet
  <2>2. IsFiniteSet(OrphanSet) /\ Cardinality(OrphanSet) = 0
    BY <2>1, FS_EmptySet
  <2>3. OrphansExact
    BY <2>1, <2>2, PoolAssumption DEF OrphansExact
  <2> QED BY <2>2, <2>3 DEF OrphanInv
<1>2. OrphanInv /\ [PoolNext]_poolVars => OrphanInv'
  BY OrphanStep
<1>3. OrphanInv => OrphansExact
  BY DEF OrphanInv
<1> QED BY <1>1, <1>2, <1>3, PTL DEF PoolSpec
=============================================================================
