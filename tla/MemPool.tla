------------------------------ MODULE MemPool ------------------------------
(***************************************************************************)
(* The memory pool (src/src/txmempool.cpp), the transactions that wait for *)
(* their inputs, and what the tx message, a block and a reorganisation do  *)
(* to both (src/src/main.cpp).                                             *)
(*                                                                         *)
(* pcoinsTip is the ledger of Ledger, which CoinsView implements, with one *)
(* detail that is visible here: a transaction without unspent outputs may  *)
(* still have a pruned entry in its cache, and HaveCoins answers true.     *)
(* Which blocks are connected is decided in ChainState.  cs_main is held   *)
(* throughout a call; a step is one transaction of the block or one orphan *)
(* of the work queue.  A transaction breaks a policy (NonStandard), pays   *)
(* no relay fee (Free) or has a bad signature (BadSig), or none of these.  *)
(***************************************************************************)
EXTENDS Transactions, FiniteSets, Functions

CONSTANTS
  Peers, Nobody,
  NonStandard, Free, BadSig,
  Large,          \* transactions too large to wait as orphans
  MaxOrphans,     \* -maxorphantx
  None            \* no block, no transaction

ASSUME PoolAssumption ==
  /\ NonStandard \union Free \union BadSig \union Large \subseteq Txs \ Coinbases
  /\ \A b \in Blocks : \A k \in DOMAIN Vtx[b] : Vtx[b][k] \notin BadSig
  /\ MaxOrphans \in Nat /\ Nobody \notin Peers

VARIABLES
  best,          \* the best block of pcoinsTip
  pruned,        \* transactions with a pruned entry in its cache
  lost,          \* history: the coinbases of blocks that were taken off the chain
  mapTx, mapNextTx,
  orphans,       \* mapOrphanTransactions: the peer each one is from
  byPrev,        \* mapOrphanTransactionsByPrev, as pairs
  stage, block, nth,   \* the running call, its block, and the transaction it is at
  vWorkQueue, vEraseQueue, setMisbehaving,
  todo           \* the orphans left of the set that mi walks over

chain    == <<best, pruned, lost>>
pool     == <<mapTx, mapNextTx>>
maps     == <<orphans, byPrev>>
queue    == <<vWorkQueue, vEraseQueue, setMisbehaving, todo>>
progress == <<stage, block, nth>>
poolVars == <<chain, pool, maps, queue, progress>>

PoolInit ==
  /\ best = Genesis /\ pruned = {} /\ lost = {}
  /\ mapTx = {} /\ mapNextTx = << >>
  /\ orphans = [t \in Txs |-> Nobody] /\ byPrev = {}
  /\ stage = "idle" /\ block = None /\ nth = 0
  /\ vWorkQueue = << >> /\ vEraseQueue = {} /\ setMisbehaving = {} /\ todo = {}

-----------------------------------------------------------------------------
(* The view of CCoinsViewMemPool over pcoinsTip                            *)

ChainCoins == [b \in Blocks |-> CoinsOf(b)]
UnspentCoins(t) == ChainCoins[best][t]

HaveCoins(t) == UnspentCoins(t) # NoCoins \/ t \in pruned \/ t \in mapTx

(* pcoinsTip first: a pruned entry hides a transaction of the pool *)
IsSpendable(out) ==
  IF UnspentCoins(out[1]) # NoCoins THEN out[2] \in UnspentCoins(out[1]).vout
  ELSE out[1] \notin pruned /\ out[1] \in mapTx /\ out[2] \in Outs[out[1]]

Inputs(t) == Range(Vin[t])
ParentTxs(t) == {out[1] : out \in Inputs(t)}

(* the outpoints that the pool spends *)
Spent == DOMAIN mapNextTx

AllMature(t) ==
  \A p \in ParentTxs(t) : UnspentCoins(p) # NoCoins => Mature(UnspentCoins(p), Height[best] + 1)

-----------------------------------------------------------------------------
(* AcceptToMemoryPool, and the reasons it returns false for                *)

Known(t) == t \in mapTx \/ Inputs(t) \intersect Spent # {} \/ HaveCoins(t)

MissingInputs(t) ==
  /\ t \notin Coinbases \union NonStandard /\ ~Known(t)
  /\ \E p \in ParentTxs(t) : ~HaveCoins(p)

(* everything before the signatures *)
Standing(t, fLimitFree) ==
  /\ t \notin Coinbases \union NonStandard /\ ~Known(t)
  /\ \A out \in Inputs(t) : IsSpendable(out)
  /\ fLimitFree => t \notin Free
  /\ AllMature(t)

Accepts(t, fLimitFree) == Standing(t, fLimitFree) /\ t \notin BadSig

(* DoS(100), for which a peer is punished *)
Punishable(t) == Standing(t, TRUE) /\ t \in BadSig

addUnchecked(t) ==
  /\ mapTx' = mapTx \union {t}
  /\ mapNextTx' = [out \in Spent \union Inputs(t) |->
                     IF out \in Inputs(t)
                       THEN <<t, CHOOSE n \in DOMAIN Vin[t] : Vin[t][n] = out>>
                       ELSE mapNextTx[out]]

(* What remove takes along when it is recursive: the smallest set that has *)
(* t and whatever spends an output of a member.                            *)
Follows(S) == {mapNextTx[out][1] : out \in {o \in Spent : o[1] \in S}}
Dependents(ts) ==
  {x \in ts \union mapTx :
     \A S \in SUBSET (ts \union mapTx) : ts \subseteq S /\ Follows(S) \subseteq S => x \in S}

Without(gone) ==
  /\ mapTx' = mapTx \ gone
  /\ mapNextTx' = [out \in Spent \ UNION {Inputs(t) : t \in gone \intersect mapTx} |->
                     mapNextTx[out]]

-----------------------------------------------------------------------------
(* The orphan maps                                                         *)

OrphanSet == {t \in Txs : orphans[t] # Nobody}

EraseKeepsPrev(gone) ==
  /\ orphans' = [t \in Txs |-> IF t \in gone THEN Nobody ELSE orphans[t]]
  /\ byPrev' = {e \in byPrev : ~(e[2] \in gone /\ e[1] = Vin[e[2]][1][1])}
EraseOrphanTxs(gone) ==
  /\ orphans' = [t \in Txs |-> IF t \in gone THEN Nobody ELSE orphans[t]]
  /\ byPrev' = {e \in byPrev : ~(e[2] \in gone \intersect OrphanSet /\ e[1] \in ParentTxs(e[2]))}

(* AddOrphanTx and LimitOrphanTxSize, which evicts at random *)
LimitOrphanTxSize(size, evicted) ==
  Cardinality(evicted) = IF size > MaxOrphans THEN size - MaxOrphans ELSE 0

AddOrphanTx(t, peer) ==
  IF t \in OrphanSet \union Large THEN UNCHANGED maps
  ELSE \E evicted \in SUBSET (OrphanSet \union {t}) :
         /\ LimitOrphanTxSize(Cardinality(OrphanSet) + 1, evicted)
         /\ orphans' = [x \in Txs |-> IF x \in evicted THEN Nobody
                                      ELSE IF x = t THEN peer ELSE orphans[x]]
         /\ byPrev' = {e \in byPrev \union (ParentTxs(t) \X {t}) : e[2] \notin evicted}

EraseOrphansFor(peer) ==
  /\ stage = "idle"
  /\ EraseOrphanTxs({t \in Txs : orphans[t] = peer})
  /\ UNCHANGED <<chain, pool, queue, progress>>

-----------------------------------------------------------------------------
(* The tx message                                                          *)

TxAccepted(t) ==
  /\ stage = "idle" /\ Accepts(t, TRUE)
  /\ addUnchecked(t)
  /\ vWorkQueue' = <<t>> /\ vEraseQueue' = {t} /\ setMisbehaving' = {} /\ todo' = {}
  /\ stage' = "queue"
  /\ UNCHANGED <<chain, maps, block, nth>>

TxMissingInputs(t, peer) ==
  /\ stage = "idle" /\ MissingInputs(t)
  /\ AddOrphanTx(t, peer)
  /\ UNCHANGED <<chain, pool, queue, progress>>

(* the next transaction of the work queue *)
NextInQueue ==
  /\ stage = "queue" /\ vWorkQueue # << >>
  /\ todo' = {e[2] : e \in {x \in byPrev : x[1] = Head(vWorkQueue)}}
  /\ vWorkQueue' = Tail(vWorkQueue)
  /\ stage' = "orphans"
  /\ UNCHANGED <<chain, pool, maps, vEraseQueue, setMisbehaving, block, nth>>

(* One of its orphans, in the order of their hashes.  Whatever comes of    *)
(* it, it will be erased.                                                  *)
TryOrphan(t) ==
  /\ stage = "orphans" /\ t \in todo
  /\ todo' = todo \ {t} /\ vEraseQueue' = vEraseQueue \union {t}
  /\ IF orphans[t] \notin setMisbehaving /\ Accepts(t, TRUE)
       THEN addUnchecked(t) /\ vWorkQueue' = Append(vWorkQueue, t)
       ELSE UNCHANGED <<pool, vWorkQueue>>
  /\ setMisbehaving' = IF Punishable(t) THEN setMisbehaving \union {orphans[t]}
                                        ELSE setMisbehaving
  /\ UNCHANGED <<chain, maps, progress>>

OrphansTried ==
  /\ stage = "orphans" /\ todo = {} /\ stage' = "queue"
  /\ UNCHANGED <<chain, pool, maps, queue, block, nth>>

TxMessageReturns ==
  /\ stage = "queue" /\ vWorkQueue = << >>
  /\ EraseOrphanTxs(vEraseQueue)
  /\ vEraseQueue' = {} /\ setMisbehaving' = {}
  /\ stage' = "idle"
  /\ UNCHANGED <<chain, pool, vWorkQueue, todo, block, nth>>

(* the wallet's own transactions and sendrawtransaction *)
AcceptOwn(t) ==
  /\ stage = "idle" /\ Accepts(t, FALSE)
  /\ addUnchecked(t)
  /\ UNCHANGED <<chain, maps, queue, progress>>

-----------------------------------------------------------------------------
(* ConnectTip and DisconnectTip                                            *)

BlockTx == Vtx[block][nth]

(* The entries that the flushed scratch view leaves in pcoinsTip, unless   *)
(* WriteChainState flushes that too.                                       *)
Touched(b) == Range(Vtx[b]) \union UNION {ParentTxs(t) : t \in Range(Vtx[b])}
PrunedAt(b, touched) == {t \in pruned \union touched : ChainCoins[b][t] = NoCoins}

ConnectTip(b) ==
  /\ stage = "idle" /\ b # Genesis /\ Prev[b] = best /\ Valid(b)
  /\ best' = b /\ pruned' \in {{}, PrunedAt(b, Touched(b))}
  /\ lost' = lost \ {Vtx[b][1]}
  /\ stage' = "connected" /\ block' = b /\ nth' = 1
  /\ UNCHANGED <<pool, maps, queue>>

(* the transactions of the pool that spend an input of t, t not among them *)
Conflicts(t) == Dependents({mapNextTx[out][1] : out \in Inputs(t) \intersect Spent} \ {t})

RemoveConflicts ==
  /\ stage = "connected" /\ nth <= Len(Vtx[block])
  /\ Without({BlockTx} \union Conflicts(BlockTx))
  /\ nth' = nth + 1
  /\ UNCHANGED <<chain, maps, queue, stage, block>>

DisconnectTip ==
  /\ stage = "idle" /\ best # Genesis
  /\ best' = Prev[best]
  /\ pruned' \in {{}, PrunedAt(Prev[best], {t \in Touched(best) : Outs[t] # {}})}
  /\ lost' = lost \union {Vtx[best][1]}
  /\ stage' = "disconnected" /\ block' = best /\ nth' = 1
  /\ UNCHANGED <<pool, maps, queue>>

AcceptsResurrectedPaying(t) == Accepts(t, TRUE)
AcceptsResurrected(t) == Accepts(t, FALSE)

RemovesOnlyItself(t) == {t}
RemovedWith(t) == Dependents({t})

Resurrect ==
  /\ stage = "disconnected" /\ nth <= Len(Vtx[block])
  /\ IF BlockTx \in Coinbases THEN UNCHANGED pool
     ELSE IF AcceptsResurrected(BlockTx) THEN addUnchecked(BlockTx)
     ELSE Without(RemovedWith(BlockTx))
  /\ nth' = nth + 1
  /\ UNCHANGED <<chain, maps, queue, stage, block>>

UpdateTip ==
  /\ stage \in {"connected", "disconnected"} /\ nth > Len(Vtx[block])
  /\ stage' = "idle" /\ block' = None /\ nth' = 0
  /\ UNCHANGED <<chain, pool, maps, queue>>

PoolNext ==
  \/ \E t \in Txs : TxAccepted(t) \/ TryOrphan(t) \/ AcceptOwn(t)
  \/ \E t \in Txs, p \in Peers : TxMissingInputs(t, p)
  \/ NextInQueue \/ OrphansTried \/ TxMessageReturns
  \/ \E p \in Peers : EraseOrphansFor(p)
  \/ \E b \in Blocks : ConnectTip(b)
  \/ RemoveConflicts \/ DisconnectTip \/ Resurrect \/ UpdateTip

PoolSpec == PoolInit /\ [][PoolNext]_poolVars

-----------------------------------------------------------------------------
(* Properties                                                              *)

(* mapNextTx says exactly who spends what: no two transactions of the pool *)
(* spend the same output, and none that has left still claims one          *)
(* (txmempool.cpp:154-172).                                                *)
InputsMarked ==
  /\ Spent = UNION {Inputs(t) : t \in mapTx}
  /\ \A t \in mapTx : \A n \in DOMAIN Vin[t] : mapNextTx[Vin[t][n]] = <<t, n>>

Connects(out) ==
  IF out[1] \in mapTx THEN out[2] \in Outs[out[1]]
  ELSE UnspentCoins(out[1]) # NoCoins /\ out[2] \in UnspentCoins(out[1]).vout

Settled == stage \notin {"connected", "disconnected"}

(* Between calls, after any blocks and reorganisations, whatever was       *)
(* refused on the way back, an input of the pool is an output of the pool  *)
(* or unspent in the chain (txmempool.cpp:143-152), but for one exception: *)
(* the outputs of a coinbase whose block was taken off the chain, and      *)
(* which no later block has brought back.                                  *)
PoolConsistent ==
  /\ InputsMarked
  /\ Settled => \A t \in mapTx : \A out \in Inputs(t) :
       Connects(out) \/ out[1] \in lost

(* "all transactions in the memory pool should connect to either           *)
(* transactions in the chain or other transactions in the memory pool"     *)
(* (miner.cpp:176)                                                         *)
(* The code does not keep it: README, section 5.                           *)
PoolConnected == Settled => \A t \in mapTx : \A out \in Inputs(t) : Connects(out)

(* The two orphan maps agree and stay within their limit, and while the    *)
(* work queue walks one of them every orphan that it will look up is still *)
(* in the other, with its peer (operator[] would invent an empty one).     *)
OrphansExact ==
  /\ todo \subseteq OrphanSet /\ Nobody \notin setMisbehaving
  /\ byPrev = {e \in Txs \X Txs : e[2] \in OrphanSet /\ e[1] \in ParentTxs(e[2])}
  /\ Cardinality(OrphanSet) <= MaxOrphans

(* BIP30 lets a chain have a transaction again once it is fully spent      *)
(* (main.cpp:2132).  These are the transactions that some chain has twice, *)
(* and all that descend from them.                                         *)
Twice ==
  {t \in Txs : \E b \in Blocks : \E p, q \in PlacesOf(b) : p # q /\ TxAt(p) = t /\ TxAt(q) = t}
Repeated ==
  {t \in Txs : \A S \in SUBSET Txs :
     Twice \subseteq S /\ (\A u \in Txs : ParentTxs(u) \intersect S # {} => u \in S) => t \in S}

(* A transaction is not lost in a reorganisation: those of a block that is *)
(* taken off the chain are in the pool again, with or without a fee,       *)
(* unless policy refuses them or a parent of theirs, if the coins were     *)
(* written (main.cpp:2349-2357).  Repeated ones can be lost: a spender of  *)
(* the coinbase that is gone stays in the pool, and stands in their way.   *)
ReorgKeepsTransactions ==
  stage = "disconnected" /\ nth > Len(Vtx[block]) /\ pruned = {} =>
    \A t \in Range(Vtx[block]) \ (Coinbases \union Repeated) :
      t \in mapTx <=> /\ t \notin NonStandard
                     /\ ParentTxs(t) \intersect Range(Vtx[block]) \subseteq mapTx
=============================================================================
