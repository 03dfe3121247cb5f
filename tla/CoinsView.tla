----------------------------- MODULE CoinsView -----------------------------
(***************************************************************************)
(* The coin view (src/src/coins.cpp, src/src/txdb.cpp) and the blocks that *)
(* ConnectBlock and DisconnectBlock apply to it (src/src/main.cpp).        *)
(*                                                                         *)
(* Three layers: the coin database, the cache pcoinsTip over it, and the   *)
(* scratch view over pcoinsTip on which one block is connected or          *)
(* disconnected before it is flushed, or all the blocks that VerifyDB      *)
(* tries.  A cache entry hides what is below it, a pruned one too; reading *)
(* fills the caches.                                                       *)
(*                                                                         *)
(* One step is one iteration of a loop: one transaction's outputs, or one  *)
(* of its inputs.  All of it happens with cs_main held.  A kill loses both *)
(* caches.  ChainPersistence treats what a power loss does to the files,   *)
(* ChainState the choice of the blocks and system errors.                  *)
(***************************************************************************)
EXTENDS Transactions, Functions

CONSTANTS
  NoUndo,     \* nUndoPos is null
  BadScript,  \* blocks refused after their transactions, for a script or the reward
  MaxStops    \* bound: kills and shutdowns

ASSUME ViewAssumption ==
  /\ NoCoins \notin Coins /\ NoUndo \notin Seq(Seq(Nat \X BOOLEAN))
  /\ BadScript \subseteq Blocks \ {Genesis} /\ MaxStops \in Nat

VARIABLES
  db, dbBest,        \* the coin database and its best block
  tip, tipBest,      \* cacheCoins and hashBlock of pcoinsTip
  view, viewBest,    \* the same of the scratch view
  undo,              \* the undo data of each block, once written
  active,            \* chainActive.Tip()
  failed,            \* blocks with BLOCK_FAILED_VALID
  pc, cur, i, j,     \* the running call: its block, transaction and input
  blockundo, txundo, \* the undo data that ConnectBlock collects
  fClean, verifying,
  nStops

caches == <<tip, tipBest, view, viewBest>>
disk   == <<db, dbBest, undo>>
index  == <<active, failed>>
call   == <<cur, i, j, blockundo, txundo, fClean>>
vars   == <<disk, caches, index, call, pc, verifying, nStops>>

Init ==
  /\ db = [t \in Txs |-> NoCoins] /\ dbBest = Genesis
  /\ tip = [t \in Txs |-> NoCoins] /\ tipBest = Genesis
  /\ view = [t \in Txs |-> NoCoins] /\ viewBest = Genesis
  /\ undo = [b \in Blocks |-> NoUndo]
  /\ active = Genesis /\ failed = {}
  /\ pc = "idle" /\ cur = Genesis /\ i = 0 /\ j = 0
  /\ blockundo = << >> /\ txundo = << >> /\ fClean = TRUE
  /\ verifying = FALSE /\ nStops = 0

-----------------------------------------------------------------------------
(* The layers                                                              *)

EmptyCache == [t \in Txs |-> NoCoins]
EmptyCoins == [fCoinBase |-> FALSE, vout |-> {}, nHeight |-> 0]

(* what a cache shows over its base *)
Over(cache, base) == [t \in Txs |-> IF cache[t] # NoCoins THEN cache[t] ELSE base[t]]

TipCoins  == Over(tip, db)
ViewCoins == Over(view, TipCoins)

(* reading fills a cache *)
FetchCoins(cache, base, read) ==
  [t \in Txs |-> IF t \in read /\ cache[t] = NoCoins THEN base[t] ELSE cache[t]]

Unread(read) == {t \in read : view[t] = NoCoins}
Read(read) == tip' = FetchCoins(tip, db, Unread(read))

IsPruned(coin) == coin = NoCoins \/ coin.vout = {}
IsAvailable(coin, n) == coin # NoCoins /\ n \in coin.vout

(* BatchWriteCoins erases pruned entries *)
BatchSkipsPruned(cache) ==
  [t \in Txs |-> IF IsPruned(cache[t]) THEN db[t] ELSE cache[t]]
BatchWrite(cache) ==
  [t \in Txs |-> IF cache[t] = NoCoins THEN db[t]
                 ELSE IF IsPruned(cache[t]) THEN NoCoins ELSE cache[t]]

-----------------------------------------------------------------------------
(* ConnectBlock                                                            *)

Overwrites(b) ==
  \E k \in DOMAIN Vtx[b] : ~IsPruned(ViewCoins[Vtx[b][k]])

(* the block that ConnectTip, or VerifyDB at level 4, turns to *)
MayConnect(b) ==
  \/ pc = "idle" /\ Prev[b] = active /\ b \notin failed
  \/ pc = "reconnect" /\ Prev[b] = viewBest /\ b \in Anc[active]

ConnectBlock(b) ==
  /\ MayConnect(b) /\ ~Overwrites(b)
  /\ Read(Range(Vtx[b])) /\ view' = FetchCoins(view, TipCoins, Range(Vtx[b]))
  /\ pc' = "connect" /\ cur' = b /\ i' = 1 /\ j' = 1
  /\ blockundo' = << >> /\ txundo' = << >>
  /\ UNCHANGED <<disk, tipBest, viewBest, index, fClean, verifying, nStops>>

(* ConnectBlock returns false: the scratch view is dropped and the block   *)
(* is marked; for VerifyDB the database is inconsistent                    *)
Refuse(b) ==
  /\ IF verifying THEN pc' = "inconsistent" /\ UNCHANGED failed
                  ELSE pc' = "idle" /\ failed' = failed \union {b}
  /\ view' = EmptyCache /\ viewBest' = tipBest
  /\ UNCHANGED <<disk, tipBest, active, call, verifying, nStops>>

RefuseOverwriting(b) ==
  MayConnect(b) /\ Overwrites(b) /\ Read(Range(Vtx[b])) /\ Refuse(b)

Tx == Vtx[cur][i]
Connecting == pc = "connect" /\ i <= Len(Vtx[cur])

(* HaveInputs and the maturity check of CheckInputs *)
CheckInputs ==
  \A k \in DOMAIN Vin[Tx] :
    LET out == Vin[Tx][k] IN
      /\ IsAvailable(ViewCoins[out[1]], out[2])
      /\ Mature(ViewCoins[out[1]], Height[viewBest] + 1)

InputTxs == {Vin[Tx][k][1] : k \in DOMAIN Vin[Tx]}

RefuseInputs ==
  /\ Connecting /\ j = 1 /\ ~CheckInputs
  /\ Read(InputTxs) /\ Refuse(cur)

RefuseScript ==
  /\ pc = "connect" /\ i > Len(Vtx[cur]) /\ cur \in BadScript
  /\ UNCHANGED tip /\ Refuse(cur)

(* the undo data of an input says where its transaction was, if this was   *)
(* its last unspent output                                                 *)
UndoWithoutHeight(coin) == <<0, FALSE>>
UndoRelativeHeight(coin) ==
  IF coin.vout = {} THEN <<coin.nHeight - Height[cur], coin.fCoinBase>> ELSE <<0, FALSE>>
Undo(coin) == IF coin.vout = {} THEN <<coin.nHeight, coin.fCoinBase>> ELSE <<0, FALSE>>

SpendInput ==
  LET out  == Vin[Tx][j]
      coin == [ViewCoins[out[1]] EXCEPT !.vout = @ \ {out[2]}]
  IN /\ Connecting /\ j <= Len(Vin[Tx]) /\ (j = 1 => CheckInputs)
     /\ Read(InputTxs)
     /\ view' = [FetchCoins(view, TipCoins, InputTxs) EXCEPT ![out[1]] = coin]
     /\ txundo' = Append(txundo, Undo(coin))
     /\ j' = j + 1
     /\ UNCHANGED <<disk, tipBest, viewBest, index, pc, cur, i, blockundo, fClean,
                    verifying, nStops>>

CCoins(t, h) == [fCoinBase |-> t \in Coinbases, vout |-> Outs[t], nHeight |-> h]

AddOutputs ==
  /\ Connecting /\ j > Len(Vin[Tx])
  /\ view' = [view EXCEPT ![Tx] = CCoins(Tx, Height[cur])]
  /\ blockundo' = IF Tx \in Coinbases THEN blockundo ELSE Append(blockundo, txundo)
  /\ txundo' = << >> /\ i' = i + 1 /\ j' = 1
  /\ UNCHANGED <<disk, tip, tipBest, viewBest, index, pc, cur, fClean, verifying, nStops>>

ConnectBlockReturns ==
  /\ pc = "connect" /\ i > Len(Vtx[cur]) /\ cur \notin BadScript
  /\ undo' = IF undo[cur] = NoUndo THEN [undo EXCEPT ![cur] = blockundo] ELSE undo
  /\ viewBest' = cur
  /\ pc' = IF verifying THEN "reconnect" ELSE "flush"
  /\ UNCHANGED <<db, dbBest, tip, tipBest, view, index, call, verifying, nStops>>

-----------------------------------------------------------------------------
(* DisconnectBlock, for DisconnectTip or VerifyDB at level 3               *)

DisconnectBlock ==
  /\ pc = "idle" \/ pc = "verify"
  /\ viewBest # Genesis
  /\ pc' = "remove" /\ cur' = viewBest /\ i' = Len(Vtx[viewBest])
  /\ fClean' = (undo[viewBest] # NoUndo /\ Len(undo[viewBest]) + 1 = Len(Vtx[viewBest]))
  /\ UNCHANGED <<disk, caches, index, j, blockundo, txundo, verifying, nStops>>

SameCoins(a, b) == a = b \/ (IsPruned(a) /\ IsPruned(b))

RemoveOutputs ==
  /\ pc = "remove" /\ i > 0 /\ fClean
  /\ Read({Tx})
  /\ fClean' = SameCoins(ViewCoins[Tx], CCoins(Tx, Height[cur]))
  /\ view' = IF ViewCoins[Tx] = NoCoins THEN view
             ELSE [view EXCEPT ![Tx] = EmptyCoins]
  /\ pc' = "restore" /\ j' = Len(Vin[Tx])
  /\ UNCHANGED <<disk, tipBest, viewBest, index, cur, i, blockundo, txundo, verifying, nStops>>

(* what an input is restored into: if it was the last unspent output of    *)
(* its transaction, the undo data says what else there was to know         *)
RestoredNotCoinBase(u, have) ==
  IF u[1] # 0 THEN [fCoinBase |-> FALSE, vout |-> {}, nHeight |-> u[1]]
  ELSE IF have = NoCoins THEN EmptyCoins ELSE have
RestoredInto(u, have) ==
  IF u[1] # 0 THEN [fCoinBase |-> u[2], vout |-> {}, nHeight |-> u[1]]
  ELSE IF have = NoCoins THEN EmptyCoins ELSE have

RestoreInput ==
  LET out  == Vin[Tx][j]
      u    == undo[cur][i - 1][j]
      have == ViewCoins[out[1]]
      coin == RestoredInto(u, have)
  IN /\ pc = "restore" /\ j > 0
     /\ Read({out[1]})
     /\ fClean' = (fClean /\ (u[1] # 0 <=> IsPruned(have)) /\ out[2] \notin coin.vout)
     /\ view' = [view EXCEPT ![out[1]] = [coin EXCEPT !.vout = @ \union {out[2]}]]
     /\ j' = j - 1
     /\ UNCHANGED <<disk, tipBest, viewBest, index, pc, cur, i, blockundo, txundo,
                    verifying, nStops>>

Restored ==
  /\ pc = "restore" /\ j = 0
  /\ pc' = "remove" /\ i' = i - 1
  /\ UNCHANGED <<disk, caches, index, cur, j, blockundo, txundo, fClean, verifying, nStops>>

(* unclean, DisconnectTip fails and VerifyDB will; neither goes on         *)
DisconnectBlockReturns ==
  /\ pc = "remove" /\ (i = 0 \/ ~fClean)
  /\ IF fClean THEN viewBest' = Prev[cur] /\ pc' = IF verifying THEN "verify" ELSE "flush"
               ELSE pc' = "inconsistent" /\ UNCHANGED viewBest
  /\ UNCHANGED <<disk, tip, tipBest, view, index, call, verifying, nStops>>

-----------------------------------------------------------------------------
(* The end of ConnectTip and DisconnectTip                                 *)

FlushView ==
  /\ pc = "flush"
  /\ tip' = Over(view, tip) /\ tipBest' = viewBest
  /\ view' = EmptyCache
  /\ pc' = "write"
  /\ UNCHANGED <<disk, viewBest, index, call, verifying, nStops>>

FlushTip ==
  /\ db' = BatchWrite(tip) /\ dbBest' = tipBest
  /\ tip' = EmptyCache

WriteChainState ==
  /\ pc = "write"
  /\ FlushTip \/ UNCHANGED <<db, dbBest, tip>>
  /\ active' = tipBest /\ pc' = "idle"
  /\ UNCHANGED <<undo, tipBest, view, viewBest, failed, call, verifying, nStops>>

(* the memory pool, the miner and RPC commands read through pcoinsTip *)
GetCoins(t) ==
  /\ pc = "idle" /\ Read({t})
  /\ UNCHANGED <<disk, tipBest, view, viewBest, index, call, pc, verifying, nStops>>

-----------------------------------------------------------------------------
(* Stopping and starting                                                   *)

Stops(best) ==
  /\ nStops < MaxStops /\ nStops' = nStops + 1
  /\ tip' = EmptyCache /\ tipBest' = best
  /\ view' = EmptyCache /\ viewBest' = best
  /\ active' = best
  /\ pc' = "down" /\ verifying' = FALSE
  /\ UNCHANGED <<undo, failed, call>>

Kill == pc # "down" /\ Stops(dbBest) /\ UNCHANGED <<db, dbBest>>

Shutdown ==
  /\ pc = "idle"
  /\ db' = BatchWrite(tip) /\ dbBest' = tipBest
  /\ Stops(tipBest)

Start ==
  /\ pc = "down"
  /\ pc' = "verify" /\ verifying' = TRUE
  /\ UNCHANGED <<disk, caches, index, call, nStops>>

(* VerifyDB stops going down at -checkblocks or when the caches are full,  *)
(* and goes up again at level 4                                            *)
Level4 ==
  /\ pc = "verify" /\ pc' = "reconnect"
  /\ UNCHANGED <<disk, caches, index, call, verifying, nStops>>

VerifyDBReturns ==
  /\ pc = "verify" \/ (pc = "reconnect" /\ viewBest = active)
  /\ pc' = "idle" /\ verifying' = FALSE
  /\ view' = EmptyCache /\ viewBest' = tipBest
  /\ UNCHANGED <<disk, tip, tipBest, index, call, nStops>>

Next ==
  \/ \E b \in Blocks \ {Genesis} : ConnectBlock(b) \/ RefuseOverwriting(b)
  \/ RefuseInputs \/ RefuseScript \/ SpendInput \/ AddOutputs \/ ConnectBlockReturns
  \/ DisconnectBlock \/ RemoveOutputs \/ RestoreInput \/ Restored \/ DisconnectBlockReturns
  \/ FlushView \/ WriteChainState \/ (\E t \in Txs : GetCoins(t))
  \/ Kill \/ Shutdown \/ Start \/ Level4 \/ VerifyDBReturns

Spec == Init /\ [][Next]_vars

-----------------------------------------------------------------------------
(* Properties                                                              *)

Cache == [Txs -> Coins \union {NoCoins}]

TypeOK ==
  /\ db \in Cache /\ tip \in Cache /\ view \in Cache
  /\ {dbBest, tipBest, viewBest, active, cur} \subseteq Blocks
  /\ \A b \in Blocks : undo[b] \in Seq(Seq(Nat \X BOOLEAN)) \union {NoUndo}
  /\ failed \subseteq Blocks
  /\ pc \in {"idle", "connect", "remove", "restore", "flush", "write", "verify",
             "reconnect", "inconsistent", "down"}
  /\ i \in Nat /\ j \in Nat
  /\ blockundo \in Seq(Seq(Nat \X BOOLEAN)) /\ txundo \in Seq(Nat \X BOOLEAN)
  /\ fClean \in BOOLEAN /\ verifying \in BOOLEAN
  /\ nStops \in 0 .. MaxStops

(* a pruned entry shows nothing *)
Shown(coins) == [t \in Txs |-> IF IsPruned(coins[t]) THEN NoCoins ELSE coins[t]]

(* Whatever was connected, disconnected, refused, cached, flushed or lost  *)
(* in a kill, pcoinsTip shows the coins of its best block's chain, the     *)
(* database those of the block that a restart goes back to, and only valid *)
(* blocks are added: the view implements the plain ledger.                 *)
Abstract == INSTANCE Ledger WITH best <- tipBest, coins <- Shown(TipCoins), saved <- dbBest
ImplementsLedger == Abstract!Spec

(* Disconnecting a block is the inverse of connecting it: the scratch view *)
(* shows exactly the coins of the block it has reached, with the heights   *)
(* and coinbase flags that CheckInputs will look at, also after VerifyDB   *)
(* has taken several blocks off and put them back; and the undo data, that *)
(* is written only the first time a block is connected (main.cpp:2228), is *)
(* what any later connection on restored coins would write.                *)
DisconnectInverts ==
  /\ pc \in {"verify", "reconnect", "flush"} => Shown(ViewCoins) = CoinsOf(viewBest)
  /\ pc = "connect" /\ i > Len(Vtx[cur]) /\ undo[cur] # NoUndo => blockundo = undo[cur]

(* No start is refused for inconsistent coins, and no reorganisation stops *)
(* at "added transaction mismatch" or at undo data that does not fit.      *)
NeverInconsistent == pc # "inconsistent"
=============================================================================
