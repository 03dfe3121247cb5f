--------------------------- MODULE SyncCheckpoint ---------------------------
(***************************************************************************)
(* Synchronized checkpoints (src/src/checkpointsync.cpp and the calls to   *)
(* it in src/src/main.cpp): blocks named by messages that the checkpoint   *)
(* master signs and every node checks, keeps and relays.                   *)
(*                                                                         *)
(* Blocks are accepted with cs_main held, by the message handler, a miner  *)
(* or an RPC thread.  A checkpoint message is processed by the message     *)
(* handler without cs_main, so between any two steps of a block that       *)
(* another thread accepts; cs_hashSyncCheckpoint makes it one step.  What  *)
(* was adopted is relayed after that lock is released.                     *)
(*                                                                         *)
(* IsInMainChain() is false and SetBestChain() succeeds without effect for *)
(* every block: pnext and pindexBest are never assigned and SetBestChain   *)
(* is a stub.  The walks along pprev are ancestor tests.  Signatures are   *)
(* sound: Signed holds the checkpoints that the master has signed.  Height *)
(* stands for the work of a block; a block whose contents are refused      *)
(* after its header was indexed is in Bad.                                 *)
(***************************************************************************)
EXTENDS Integers

CONSTANTS
  Blocks, Genesis, NoBlock,
  Prev, Anc, Height,
  Bad,           \* blocks whose header is indexed before AcceptBlock refuses them
  Signed,        \* checkpoints the master has signed, consistent or not
  Hardened,      \* GetLatestHardenedCheckpoint()
  Peers,
  CheckpointDepthNegative,  \* -checkpointdepth is given, and negative
  MaxKills       \* bound: killed processes

ASSUME TreeAssumption ==
  /\ Genesis \in Blocks /\ NoBlock \notin Blocks
  /\ Prev \in [Blocks \ {Genesis} -> Blocks]
  /\ Anc \in [Blocks -> SUBSET Blocks]
  /\ Anc[Genesis] = {Genesis}
  /\ \A b \in Blocks \ {Genesis} : Anc[b] = Anc[Prev[b]] \union {b}
  /\ \A b \in Blocks : Genesis \in Anc[b] /\ b \in Anc[b]
  /\ \A b \in Blocks : \A a \in Anc[b] : Anc[a] \subseteq Anc[b]
  /\ \A b \in Blocks : \A a, c \in Anc[b] : a \in Anc[c] \/ c \in Anc[a]
  /\ Height \in [Blocks -> Nat]
  /\ \A b \in Blocks : \A a \in Anc[b] \ {b} : Height[a] < Height[b]

ASSUME ParameterAssumption ==
  /\ Bad \subseteq Blocks \ {Genesis} /\ Signed \subseteq Blocks
  /\ Hardened \in Blocks
  /\ CheckpointDepthNegative \in BOOLEAN
  /\ MaxKills \in Nat

VARIABLES
  mapBlockIndex,             \* blocks and headers indexed in memory
  dbIndex,                   \* index entries in the block tree database
  dbSyncCheckpoint,          \* "hashSyncCheckpoint" in the database, synced
  hashSyncCheckpoint, hashPendingCheckpoint, hashInvalidCheckpoint,
  checkpointMessage, checkpointMessagePending,
  vNodes,                    \* connected peers
  hashCheckpointKnown,       \* of each peer
  fEnforce,                  \* -checkpointenforce
  fMaster,                   \* -checkpointkey is given
  tip,                       \* chainActive.Tip()
  pc, cur,                   \* the thread that holds cs_main
  relaying,                  \* what the message handler has adopted and not yet relayed
  nKills

blocks   == <<mapBlockIndex, dbIndex, tip>>
current  == <<hashSyncCheckpoint, dbSyncCheckpoint, checkpointMessage>>
pending  == <<hashPendingCheckpoint, checkpointMessagePending>>
relay    == <<vNodes, hashCheckpointKnown>>
settings == <<fEnforce, fMaster>>
vars     == <<blocks, current, pending, hashInvalidCheckpoint, relay, settings, pc, cur,
              relaying, nKills>>

(* the first start, after ReceivedBlockTransactions of the genesis block:  *)
(* checkpoints are enforced, or UpdateTip has read pindexBest already      *)
Init ==
  /\ mapBlockIndex = {Genesis} /\ dbIndex = {Genesis} /\ tip = Genesis
  /\ hashSyncCheckpoint = NoBlock /\ dbSyncCheckpoint = NoBlock
  /\ hashPendingCheckpoint = NoBlock /\ hashInvalidCheckpoint = NoBlock
  /\ checkpointMessage = NoBlock /\ checkpointMessagePending = NoBlock
  /\ vNodes = {} /\ hashCheckpointKnown = [p \in Peers |-> NoBlock]
  /\ fEnforce \in BOOLEAN /\ fMaster \in BOOLEAN /\ (fEnforce \/ fMaster)
  /\ pc = "init" /\ cur = NoBlock /\ relaying = NoBlock /\ nKills = 0

-----------------------------------------------------------------------------
(* Helpers                                                                 *)

Stopped == pc \in {"down", "assert", "nulltip", "nullauto"}
Running == ~Stopped /\ pc \notin {"init", "pubkey", "start"}

IsSyncCheckpointEnforced == fEnforce \/ fMaster

(* the database is written and synced first *)
WriteForgotten(c) == UNCHANGED dbSyncCheckpoint /\ hashSyncCheckpoint' = c
WriteSyncCheckpoint(c) == dbSyncCheckpoint' = c /\ hashSyncCheckpoint' = c

(* ValidateSyncCheckpoint: a descendant of the current checkpoint, that is *)
(* above it; or one that conflicts with it; or an older one, ignored       *)
IndexedInChain(c) == c \in Anc[tip]
Indexed(c) == c \in mapBlockIndex
Comparable(c) == Indexed(hashSyncCheckpoint) /\ Indexed(c)
Newer(c) == hashSyncCheckpoint \in Anc[c] /\ c # hashSyncCheckpoint
ConflictingUnlessNewer(c) == ~Newer(c)
Conflicting(c) == hashSyncCheckpoint \notin Anc[c] /\ c \notin Anc[hashSyncCheckpoint]

Valid(c) == Comparable(c) /\ Newer(c)

InvalidAfter(c) == IF Comparable(c) /\ Conflicting(c) THEN c ELSE hashInvalidCheckpoint

(* RelayTo, for every node *)
RelayToAll(c) == hashCheckpointKnown' =
  [p \in Peers |-> IF p \in vNodes THEN c ELSE hashCheckpointKnown[p]]

NoPending == hashPendingCheckpoint' = NoBlock /\ checkpointMessagePending' = NoBlock

-----------------------------------------------------------------------------
(* InitBlockIndex, on the first start only                                 *)

InitSyncCheckpoint ==
  /\ pc = "init"
  /\ WriteSyncCheckpoint(Genesis)
  /\ pc' = "pubkey"
  /\ UNCHANGED <<blocks, checkpointMessage, pending, hashInvalidCheckpoint, relay, settings,
                 cur, relaying, nKills>>

(* CheckCheckpointPubKey calls ResetSyncCheckpoint *)
ResetSyncCheckpoint ==
  /\ pc = "pubkey"
  /\ hashPendingCheckpoint' = IF Indexed(Hardened) THEN hashPendingCheckpoint ELSE Hardened
  /\ WriteSyncCheckpoint(Genesis)
  /\ pc' = "idle"
  /\ UNCHANGED <<blocks, checkpointMessage, checkpointMessagePending, hashInvalidCheckpoint,
                 relay, settings, cur,
                 relaying, nKills>>

-----------------------------------------------------------------------------
(* Accepting a block                                                       *)

(* CheckSyncCheckpoint of a block that is not indexed *)
CheckSyncCheckpoint(b) ==
  /\ Height[b] > Height[hashSyncCheckpoint] => hashSyncCheckpoint \in Anc[Prev[b]]
  /\ Height[b] = Height[hashSyncCheckpoint] => b = hashSyncCheckpoint
  /\ Height[b] >= Height[hashSyncCheckpoint]

Arrives(b) == pc = "idle" /\ b \notin mapBlockIndex /\ Prev[b] \in dbIndex

(* the check is made when checkpoints are not enforced *)
AcceptBlockHeader(b) ==
  /\ Arrives(b)
  /\ ~IsSyncCheckpointEnforced => Indexed(hashSyncCheckpoint) /\ CheckSyncCheckpoint(b)
  /\ mapBlockIndex' = mapBlockIndex \union {b}
  /\ pc' = "header" /\ cur' = b
  /\ UNCHANGED <<dbIndex, tip, current, pending, hashInvalidCheckpoint, relay, settings,
                 relaying, nKills>>

(* assert(mapBlockIndex.count(hashSyncCheckpoint)) *)
AssertionFails(b) ==
  /\ Arrives(b) /\ ~IsSyncCheckpointEnforced /\ ~Indexed(hashSyncCheckpoint)
  /\ pc' = "assert"
  /\ UNCHANGED <<blocks, current, pending, hashInvalidCheckpoint, relay, settings, cur,
                 relaying, nKills>>

RefuseBlock ==
  /\ pc = "header" /\ cur \in Bad
  /\ pc' = "idle" /\ cur' = NoBlock
  /\ UNCHANGED <<blocks, current, pending, hashInvalidCheckpoint, relay, settings,
                 relaying, nKills>>

EntryWritten == dbIndex \union {cur}

ReceivedBlockTransactions ==
  /\ pc = "header" /\ cur \notin Bad
  /\ dbIndex' = EntryWritten
  /\ pc' = "stored"
  /\ UNCHANGED <<mapBlockIndex, tip, current, pending, hashInvalidCheckpoint, relay, settings,
                 cur, relaying, nKills>>

(* FindMostWorkChain and the switch to it, also once after a start *)
MostWork == {b \in dbIndex : Height[b] > Height[tip] /\ \A c \in dbIndex : Height[c] <= Height[b]}

ActivateBestChain ==
  /\ pc \in {"stored", "start"} /\ (MostWork # {} => IsSyncCheckpointEnforced)
  /\ IF MostWork = {} THEN tip' = tip ELSE tip' \in MostWork
  /\ pc' = IF pc = "start" THEN "idle" ELSE "pending"
  /\ UNCHANGED <<mapBlockIndex, dbIndex, current, pending, hashInvalidCheckpoint, relay, settings,
                 cur, relaying, nKills>>

(* UpdateTip in advisory mode reads pindexBest->pprev *)
UpdateTipReadsNull ==
  /\ pc \in {"stored", "start"} /\ MostWork # {} /\ ~IsSyncCheckpointEnforced
  /\ pc' = "nulltip"
  /\ UNCHANGED <<blocks, current, pending, hashInvalidCheckpoint, relay, settings, cur,
                 relaying, nKills>>

(* AcceptPendingSyncCheckpoint, before AcceptBlock returns *)
PendingKnown == hashPendingCheckpoint # NoBlock /\ Indexed(hashPendingCheckpoint)

PendingStays ==
  /\ pc = "pending" /\ ~PendingKnown
  /\ pc' = "return"
  /\ UNCHANGED <<blocks, current, pending, hashInvalidCheckpoint, relay, settings, cur,
                 relaying, nKills>>

DropPending ==
  /\ pc = "pending" /\ PendingKnown /\ ~Valid(hashPendingCheckpoint)
  /\ hashInvalidCheckpoint' = InvalidAfter(hashPendingCheckpoint)
  /\ NoPending
  /\ pc' = "return"
  /\ UNCHANGED <<blocks, current, relay, settings, cur,
                 relaying, nKills>>

MessageKept == checkpointMessage
MessageAfterPending == checkpointMessagePending

AcceptPending ==
  /\ pc = "pending" /\ PendingKnown /\ Valid(hashPendingCheckpoint)
  /\ WriteSyncCheckpoint(hashPendingCheckpoint)
  /\ checkpointMessage' = MessageAfterPending
  /\ NoPending
  /\ IF checkpointMessage' # NoBlock THEN RelayToAll(checkpointMessage')
                                     ELSE UNCHANGED hashCheckpointKnown
  /\ pc' = "return"
  /\ UNCHANGED <<blocks, hashInvalidCheckpoint, vNodes, settings, cur,
                 relaying, nKills>>

(* a master that is not told otherwise sends a checkpoint for every block  *)
(* a peer sent; AutoSelectSyncCheckpoint reads *pindexBest                 *)
AutoSelectReadsNull ==
  /\ pc = "return" /\ fMaster /\ ~CheckpointDepthNegative
  /\ pc' = "nullauto"
  /\ UNCHANGED <<blocks, current, pending, hashInvalidCheckpoint, relay, settings, cur,
                 relaying, nKills>>

ProcessBlockReturns ==
  /\ pc = "return"
  /\ pc' = "idle" /\ cur' = NoBlock
  /\ UNCHANGED <<blocks, current, pending, hashInvalidCheckpoint, relay, settings,
                 relaying, nKills>>

-----------------------------------------------------------------------------
(* CSyncCheckpoint::ProcessSyncCheckpoint                                  *)

KeepPending(c) ==
  /\ ~Indexed(c)
  /\ hashPendingCheckpoint' = c /\ checkpointMessagePending' = c
  /\ UNCHANGED <<current, hashInvalidCheckpoint>>

Ignore(c) ==
  /\ Indexed(c) /\ ~Valid(c)
  /\ hashInvalidCheckpoint' = InvalidAfter(c)
  /\ UNCHANGED <<current, pending>>

Adopt(c) ==
  /\ Indexed(c) /\ Valid(c)
  /\ WriteSyncCheckpoint(c)
  /\ checkpointMessage' = c
  /\ NoPending
  /\ UNCHANGED hashInvalidCheckpoint

(* "checkpoint" from a peer, any number of times and in any order *)
CheckpointMessage(c) ==
  /\ Running /\ vNodes # {} /\ relaying = NoBlock
  /\ \/ (KeepPending(c) \/ Ignore(c)) /\ UNCHANGED relaying
     \/ Adopt(c) /\ relaying' = c
  /\ UNCHANGED <<blocks, relay, settings, pc, cur, nKills>>

RelayCheckpoint ==
  /\ Running /\ relaying # NoBlock
  /\ RelayToAll(relaying)
  /\ relaying' = NoBlock
  /\ UNCHANGED <<blocks, current, pending, hashInvalidCheckpoint, vNodes, settings, pc, cur, nKills>>

(* SendSyncCheckpoint, by the RPC command with cs_main held *)
SendCheckpoint(c) ==
  /\ pc = "idle" /\ fMaster
  /\ \/ (KeepPending(c) \/ Ignore(c)) /\ UNCHANGED <<pc, cur>>
     \/ Adopt(c) /\ pc' = "send" /\ cur' = c
  /\ UNCHANGED <<blocks, relay, settings, relaying, nKills>>

RelaySent ==
  /\ pc = "send"
  /\ RelayToAll(cur)
  /\ pc' = "idle" /\ cur' = NoBlock
  /\ UNCHANGED <<blocks, current, pending, hashInvalidCheckpoint, vNodes, settings, relaying, nKills>>

(* a peer's "version" message; the peer is counted in from here *)
RelayedPending == checkpointMessagePending
RelayedToNew == checkpointMessage

VersionMessage(p) ==
  /\ Running /\ p \notin vNodes /\ relaying = NoBlock
  /\ vNodes' = vNodes \union {p}
  /\ hashCheckpointKnown' = [hashCheckpointKnown EXCEPT ![p] = RelayedToNew]
  /\ UNCHANGED <<blocks, current, pending, hashInvalidCheckpoint, settings, pc, cur,
                 relaying, nKills>>

Disconnect(p) ==
  /\ Running /\ p \in vNodes
  /\ vNodes' = vNodes \ {p}
  /\ hashCheckpointKnown' = [hashCheckpointKnown EXCEPT ![p] = NoBlock]
  /\ UNCHANGED <<blocks, current, pending, hashInvalidCheckpoint, settings, pc, cur,
                 relaying, nKills>>

(* the RPC command; a master must enforce *)
EnforceCheckpoint(e) ==
  /\ pc = "idle" /\ (fMaster => e)
  /\ fEnforce' = e
  /\ UNCHANGED <<blocks, current, pending, hashInvalidCheckpoint, relay, fMaster, pc, cur,
                 relaying, nKills>>

-----------------------------------------------------------------------------
(* Kill and restart                                                        *)

Kill ==
  /\ ~Stopped /\ nKills < MaxKills
  /\ nKills' = nKills + 1
  /\ pc' = "down"
  /\ UNCHANGED <<blocks, current, pending, hashInvalidCheckpoint, relay, settings, cur,
                 relaying>>

(* LoadBlockIndexDB, with the chain state that was flushed last;           *)
(* InitBlockIndex does nothing once there is a genesis block               *)
Start ==
  /\ pc = "down"
  /\ mapBlockIndex' = dbIndex
  /\ hashSyncCheckpoint' = dbSyncCheckpoint
  /\ checkpointMessage' = NoBlock
  /\ NoPending
  /\ hashInvalidCheckpoint' = NoBlock
  /\ vNodes' = {} /\ hashCheckpointKnown' = [p \in Peers |-> NoBlock]
  /\ fEnforce' \in BOOLEAN
  /\ tip' \in {b \in dbIndex : Height[b] <= Height[tip]}
  /\ pc' = "start" /\ cur' = NoBlock /\ relaying' = NoBlock
  /\ UNCHANGED <<dbIndex, dbSyncCheckpoint, fMaster, nKills>>

Crashed == Stopped /\ UNCHANGED vars

Next ==
  \/ InitSyncCheckpoint \/ ResetSyncCheckpoint
  \/ \E b \in Blocks \ {Genesis} : AcceptBlockHeader(b) \/ AssertionFails(b)
  \/ RefuseBlock \/ ReceivedBlockTransactions \/ ActivateBestChain \/ UpdateTipReadsNull
  \/ PendingStays \/ DropPending \/ AcceptPending
  \/ AutoSelectReadsNull \/ ProcessBlockReturns
  \/ \E c \in Signed : CheckpointMessage(c) \/ SendCheckpoint(c)
  \/ RelayCheckpoint \/ RelaySent
  \/ \E p \in Peers : VersionMessage(p) \/ Disconnect(p)
  \/ \E e \in BOOLEAN : EnforceCheckpoint(e)
  \/ Kill \/ Start \/ Crashed

Spec == Init /\ [][Next]_vars
-----------------------------------------------------------------------------
(* Properties                                                              *)

MaybeBlock == Blocks \union {NoBlock}

TypeOK ==
  /\ mapBlockIndex \in SUBSET Blocks /\ dbIndex \in SUBSET mapBlockIndex /\ tip \in dbIndex
  /\ hashSyncCheckpoint \in MaybeBlock /\ dbSyncCheckpoint \in MaybeBlock
  /\ hashPendingCheckpoint \in MaybeBlock /\ hashInvalidCheckpoint \in MaybeBlock
  /\ checkpointMessage \in MaybeBlock /\ checkpointMessagePending \in MaybeBlock
  /\ vNodes \in SUBSET Peers /\ hashCheckpointKnown \in [Peers -> MaybeBlock]
  /\ fEnforce \in BOOLEAN /\ fMaster \in BOOLEAN
  /\ pc \in {"init", "pubkey", "start", "idle", "header", "stored", "pending", "return", "send",
             "down", "assert", "nulltip", "nullauto"}
  /\ cur \in MaybeBlock /\ relaying \in MaybeBlock
  /\ (pc \in {"header", "stored", "pending", "return", "send"} => cur \in mapBlockIndex)
  /\ (pc \in {"stored", "pending", "return"} => cur \in dbIndex)
  /\ nKills \in 0 .. MaxKills

(* "Only descendant of current sync-checkpoint is allowed": whatever the   *)
(* order, repetition or conflict of the messages, and across restarts, the *)
(* checkpoint only moves to a descendant, once there is one.               *)
CheckpointAdvances ==
  [][hashSyncCheckpoint # NoBlock =>
       /\ hashSyncCheckpoint' # NoBlock
       /\ hashSyncCheckpoint \in Anc[hashSyncCheckpoint']]_vars

(* A warning about an inconsistent checkpoint is never a false alarm: the  *)
(* checkpoint it is about is on another fork than the current one, also    *)
(* when the current one has moved since.                                   *)
NoFalseAlarm ==
  hashInvalidCheckpoint # NoBlock =>
    /\ hashSyncCheckpoint # NoBlock
    /\ hashInvalidCheckpoint \notin Anc[hashSyncCheckpoint]
    /\ hashSyncCheckpoint \notin Anc[hashInvalidCheckpoint]

(* The message kept for new peers is the one of the current checkpoint,    *)
(* and the pending message the one of the pending checkpoint.              *)
MessagesCurrent ==
  /\ checkpointMessage \in {NoBlock, hashSyncCheckpoint}
  /\ checkpointMessagePending \in {NoBlock, hashPendingCheckpoint}

(* A peer is only ever told a checkpoint that this node has adopted.       *)
RelayedAdopted ==
  \A p \in Peers : hashCheckpointKnown[p] # NoBlock =>
     /\ hashSyncCheckpoint # NoBlock
     /\ hashCheckpointKnown[p] \in Anc[hashSyncCheckpoint]

(* No wakeup is lost between the thread that stores a block and the one    *)
(* that makes its checkpoint pending: between blocks the pending           *)
(* checkpoint is not a stored block.                                       *)
NoLostPending == pc = "idle" => hashPendingCheckpoint \notin dbIndex

(* "sync-checkpoint should always be accepted block" (checkpointsync.cpp:224) *)
(* The code does not keep it: README, section 5.                           *)
CheckpointIndexed == Running => hashSyncCheckpoint \in mapBlockIndex

(* "The 'enforce' mode of subscribemode means checkpoints are enforced"    *)
(* (checkpointsync.cpp:58): the active chain holds the checkpoint or leads *)
(* to it.                                                                  *)
(* The code does not keep it: README, section 5.                           *)
EnforcedChain ==
  pc = "idle" /\ IsSyncCheckpointEnforced /\ hashSyncCheckpoint # NoBlock =>
    hashSyncCheckpoint \in Anc[tip] \/ tip \in Anc[hashSyncCheckpoint]
=============================================================================
