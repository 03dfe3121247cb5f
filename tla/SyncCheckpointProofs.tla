------------------------- MODULE SyncCheckpointProofs -------------------------
(***************************************************************************)
(* Proofs about SyncCheckpoint for every block tree, every set of signed   *)
(* checkpoints, conflicting ones included, and any number of peers, blocks *)
(* and kills.                                                              *)
(***************************************************************************)
EXTENDS SyncCheckpoint, TLAPS

-----------------------------------------------------------------------------
(* The inductive invariant                                                 *)

(* What a restart will load is what is in use.                             *)
Synced == dbSyncCheckpoint = hashSyncCheckpoint

(* During the first start nothing has been received or told yet.           *)
FirstStart ==
  pc \in {"init", "pubkey"} =>
    /\ hashSyncCheckpoint = IF pc = "init" THEN NoBlock ELSE Genesis
    /\ hashPendingCheckpoint = NoBlock /\ checkpointMessagePending = NoBlock
    /\ checkpointMessage = NoBlock /\ hashInvalidCheckpoint = NoBlock

(* What a thread is about to relay has been adopted.                       *)
RelayingAdopted ==
  /\ relaying # NoBlock =>
       hashSyncCheckpoint # NoBlock /\ relaying \in Anc[hashSyncCheckpoint]
  /\ pc = "send" =>
       hashSyncCheckpoint # NoBlock /\ cur \in Anc[hashSyncCheckpoint]

(* A stored block is pending only until its acceptance gets to look.       *)
PendingNoticed ==
  hashPendingCheckpoint \in dbIndex => pc \in {"stored", "pending"} \/ Stopped

IndInv ==
  /\ TypeOK
  /\ Synced
  /\ FirstStart
  /\ RelayingAdopted
  /\ PendingNoticed
  /\ NoFalseAlarm
  /\ MessagesCurrent
  /\ RelayedAdopted

-----------------------------------------------------------------------------
(* Facts about the tree and the helpers                                    *)

(* If the checkpoint moves to a descendant, a block that conflicted with   *)
(* it still conflicts, and what was below it still is.                     *)
LEMMA DescendantKeeps ==
  ASSUME NEW s \in Blocks, NEW c \in Blocks, s \in Anc[c]
  PROVE  /\ Anc[s] \subseteq Anc[c]
         /\ \A i \in Blocks : i \notin Anc[s] /\ s \notin Anc[i] => i \notin Anc[c] /\ c \notin Anc[i]
<1>1. Anc[s] \subseteq Anc[c]
  BY TreeAssumption
<1>2. ASSUME NEW i \in Blocks, i \notin Anc[s], s \notin Anc[i] PROVE i \notin Anc[c]
  BY <1>2, TreeAssumption
<1>3. ASSUME NEW i \in Blocks, s \notin Anc[i] PROVE c \notin Anc[i]
  BY <1>3, TreeAssumption
<1> QED BY <1>1, <1>2, <1>3

(* A valid checkpoint is a descendant of the current one.                  *)
LEMMA ValidDescends ==
  ASSUME TypeOK, NEW c, Valid(c)
  PROVE  /\ c \in Blocks /\ hashSyncCheckpoint \in Blocks
         /\ hashSyncCheckpoint \in Anc[c] /\ c \in Anc[c] /\ c # NoBlock /\ hashSyncCheckpoint # NoBlock
BY TreeAssumption DEF TypeOK, Valid, Comparable, Newer, Indexed

(* ValidateSyncCheckpoint only records real conflicts.                     *)
LEMMA InvalidIsConflict ==
  ASSUME TypeOK, NoFalseAlarm, NEW c, hashSyncCheckpoint' = hashSyncCheckpoint,
         hashInvalidCheckpoint' = InvalidAfter(c)
  PROVE  NoFalseAlarm' /\ hashInvalidCheckpoint' \in MaybeBlock
<1>1. CASE Comparable(c) /\ Conflicting(c)
  <2>1. hashInvalidCheckpoint' = c /\ c \in Blocks /\ hashSyncCheckpoint \in Blocks
    BY <1>1, TreeAssumption DEF InvalidAfter, Comparable, Indexed, TypeOK
  <2> QED BY <1>1, <2>1, TreeAssumption DEF NoFalseAlarm, Conflicting, MaybeBlock
<1>2. CASE ~(Comparable(c) /\ Conflicting(c))
  BY <1>2 DEF InvalidAfter, NoFalseAlarm, TypeOK
<1> QED BY <1>1, <1>2

(* Adopting a valid checkpoint keeps what refers to the current one.       *)
LEMMA AdvanceKeeps ==
  ASSUME IndInv, NEW c, Valid(c), hashSyncCheckpoint' = c,
         UNCHANGED <<hashInvalidCheckpoint, hashCheckpointKnown>>
  PROVE  /\ NoFalseAlarm'
         /\ RelayedAdopted'
         /\ \A x : x \in Anc[hashSyncCheckpoint] => x \in Anc[hashSyncCheckpoint']
<1>1. /\ c \in Blocks /\ hashSyncCheckpoint \in Blocks /\ hashSyncCheckpoint \in Anc[c]
      /\ c # NoBlock
  BY ValidDescends DEF IndInv
<1>2. Anc[hashSyncCheckpoint] \subseteq Anc[c]
  BY <1>1, DescendantKeeps
<1>3. NoFalseAlarm'
  <2> SUFFICES ASSUME hashInvalidCheckpoint # NoBlock
               PROVE  hashInvalidCheckpoint \notin Anc[c] /\ c \notin Anc[hashInvalidCheckpoint]
    BY <1>1 DEF NoFalseAlarm
  <2>1. hashInvalidCheckpoint \in Blocks
    BY DEF IndInv, TypeOK, MaybeBlock
  <2> QED BY <1>1, <2>1, DescendantKeeps DEF IndInv, NoFalseAlarm
<1>4. RelayedAdopted'
  BY <1>1, <1>2 DEF IndInv, RelayedAdopted
<1> QED BY <1>2, <1>3, <1>4

-----------------------------------------------------------------------------
(* The steps                                                               *)

LEMMA InitHolds == Init => IndInv
<1> SUFFICES ASSUME Init PROVE IndInv
  OBVIOUS
<1> USE DEF Init
<1>1. TypeOK
  <2>1. hashCheckpointKnown \in [Peers -> MaybeBlock]
    BY Zenon DEF MaybeBlock
  <2>2. nKills \in 0 .. MaxKills
    BY ParameterAssumption
  <2> QED BY <2>1, <2>2, TreeAssumption DEF TypeOK, MaybeBlock
<1> QED BY <1>1, TreeAssumption DEF IndInv, Synced, FirstStart, RelayingAdopted, PendingNoticed,
  NoFalseAlarm, MessagesCurrent, RelayedAdopted, Stopped

LEMMA RefuseStep == IndInv /\ RefuseBlock => IndInv'
<1> SUFFICES ASSUME IndInv, RefuseBlock PROVE IndInv'
  OBVIOUS
<1> USE DEF IndInv, RefuseBlock, blocks, current, pending, relay, settings
<1>1. TypeOK'
  BY TreeAssumption DEF TypeOK, MaybeBlock
<1>2. Synced' /\ NoFalseAlarm' /\ MessagesCurrent' /\ RelayedAdopted'
  BY DEF Synced, NoFalseAlarm, MessagesCurrent, RelayedAdopted
<1>3. FirstStart' /\ RelayingAdopted' /\ PendingNoticed'
  BY TreeAssumption DEF TypeOK, MaybeBlock, FirstStart, RelayingAdopted, PendingNoticed, Stopped
<1> QED BY <1>1, <1>2, <1>3

LEMMA ReceivedStep == IndInv /\ ReceivedBlockTransactions => IndInv'
<1> SUFFICES ASSUME IndInv, ReceivedBlockTransactions PROVE IndInv'
  OBVIOUS
<1> USE DEF IndInv, ReceivedBlockTransactions, blocks, current, pending, relay, settings
<1>1. TypeOK'
  BY TreeAssumption DEF TypeOK, MaybeBlock, EntryWritten
<1>2. Synced' /\ NoFalseAlarm' /\ MessagesCurrent' /\ RelayedAdopted'
  BY DEF Synced, NoFalseAlarm, MessagesCurrent, RelayedAdopted
<1>3. FirstStart' /\ RelayingAdopted' /\ PendingNoticed'
  BY TreeAssumption DEF TypeOK, MaybeBlock, FirstStart, RelayingAdopted, PendingNoticed, Stopped, EntryWritten
<1> QED BY <1>1, <1>2, <1>3

LEMMA ActivateStep == IndInv /\ ActivateBestChain => IndInv'
<1> SUFFICES ASSUME IndInv, ActivateBestChain PROVE IndInv'
  OBVIOUS
<1> USE DEF IndInv, ActivateBestChain, blocks, current, pending, relay, settings
<1>1. TypeOK'
  BY TreeAssumption DEF TypeOK, MaybeBlock, MostWork
<1>2. Synced' /\ NoFalseAlarm' /\ MessagesCurrent' /\ RelayedAdopted'
  BY DEF Synced, NoFalseAlarm, MessagesCurrent, RelayedAdopted
<1>3. FirstStart' /\ RelayingAdopted' /\ PendingNoticed'
  BY TreeAssumption DEF TypeOK, MaybeBlock, FirstStart, RelayingAdopted, PendingNoticed, Stopped, MostWork
<1> QED BY <1>1, <1>2, <1>3

LEMMA ReadsNullStep == IndInv /\ UpdateTipReadsNull => IndInv'
<1> SUFFICES ASSUME IndInv, UpdateTipReadsNull PROVE IndInv'
  OBVIOUS
<1> USE DEF IndInv, UpdateTipReadsNull, blocks, current, pending, relay, settings
<1>1. TypeOK'
  BY TreeAssumption DEF TypeOK, MaybeBlock
<1>2. Synced' /\ NoFalseAlarm' /\ MessagesCurrent' /\ RelayedAdopted'
  BY DEF Synced, NoFalseAlarm, MessagesCurrent, RelayedAdopted
<1>3. FirstStart' /\ RelayingAdopted' /\ PendingNoticed'
  BY TreeAssumption DEF TypeOK, MaybeBlock, FirstStart, RelayingAdopted, PendingNoticed, Stopped
<1> QED BY <1>1, <1>2, <1>3

LEMMA StaysStep == IndInv /\ PendingStays => IndInv'
<1> SUFFICES ASSUME IndInv, PendingStays PROVE IndInv'
  OBVIOUS
<1> USE DEF IndInv, PendingStays, blocks, current, pending, relay, settings
<1>1. TypeOK'
  BY TreeAssumption DEF TypeOK, MaybeBlock, PendingKnown, Indexed
<1>2. Synced' /\ NoFalseAlarm' /\ MessagesCurrent' /\ RelayedAdopted'
  BY DEF Synced, NoFalseAlarm, MessagesCurrent, RelayedAdopted
<1>3. FirstStart' /\ RelayingAdopted' /\ PendingNoticed'
  BY TreeAssumption DEF TypeOK, MaybeBlock, FirstStart, RelayingAdopted, PendingNoticed, Stopped, PendingKnown, Indexed
<1> QED BY <1>1, <1>2, <1>3

LEMMA AutoStep == IndInv /\ AutoSelectReadsNull => IndInv'
<1> SUFFICES ASSUME IndInv, AutoSelectReadsNull PROVE IndInv'
  OBVIOUS
<1> USE DEF IndInv, AutoSelectReadsNull, blocks, current, pending, relay, settings
<1>1. TypeOK'
  BY TreeAssumption DEF TypeOK, MaybeBlock
<1>2. Synced' /\ NoFalseAlarm' /\ MessagesCurrent' /\ RelayedAdopted'
  BY DEF Synced, NoFalseAlarm, MessagesCurrent, RelayedAdopted
<1>3. FirstStart' /\ RelayingAdopted' /\ PendingNoticed'
  BY TreeAssumption DEF TypeOK, MaybeBlock, FirstStart, RelayingAdopted, PendingNoticed, Stopped
<1> QED BY <1>1, <1>2, <1>3

LEMMA ReturnsStep == IndInv /\ ProcessBlockReturns => IndInv'
<1> SUFFICES ASSUME IndInv, ProcessBlockReturns PROVE IndInv'
  OBVIOUS
<1> USE DEF IndInv, ProcessBlockReturns, blocks, current, pending, relay, settings
<1>1. TypeOK'
  BY TreeAssumption DEF TypeOK, MaybeBlock
<1>2. Synced' /\ NoFalseAlarm' /\ MessagesCurrent' /\ RelayedAdopted'
  BY DEF Synced, NoFalseAlarm, MessagesCurrent, RelayedAdopted
<1>3. FirstStart' /\ RelayingAdopted' /\ PendingNoticed'
  BY TreeAssumption DEF TypeOK, MaybeBlock, FirstStart, RelayingAdopted, PendingNoticed, Stopped
<1> QED BY <1>1, <1>2, <1>3

LEMMA InitSyncStep == IndInv /\ InitSyncCheckpoint => IndInv'
<1> SUFFICES ASSUME IndInv, InitSyncCheckpoint PROVE IndInv'
  OBVIOUS
<1> USE DEF IndInv, InitSyncCheckpoint, blocks, current, pending, relay, settings
<1>1. TypeOK'
  BY TreeAssumption DEF TypeOK, MaybeBlock, WriteSyncCheckpoint
<1>2. NoFalseAlarm' /\ RelayedAdopted' /\ RelayingAdopted'
  BY TreeAssumption DEF NoFalseAlarm, RelayedAdopted, RelayingAdopted, FirstStart, WriteSyncCheckpoint
<1>3. Synced' /\ FirstStart' /\ PendingNoticed' /\ MessagesCurrent'
  BY TreeAssumption DEF TypeOK, Synced, FirstStart, PendingNoticed, MessagesCurrent, Stopped,
     WriteSyncCheckpoint
<1> QED BY <1>1, <1>2, <1>3

LEMMA ResetStep == IndInv /\ ResetSyncCheckpoint => IndInv'
<1> SUFFICES ASSUME IndInv, ResetSyncCheckpoint PROVE IndInv'
  OBVIOUS
<1> USE DEF IndInv, ResetSyncCheckpoint, blocks, current, pending, relay, settings
<1>1. TypeOK'
  BY TreeAssumption, ParameterAssumption DEF TypeOK, MaybeBlock, WriteSyncCheckpoint, FirstStart
<1>2. NoFalseAlarm' /\ RelayedAdopted' /\ RelayingAdopted'
  BY DEF NoFalseAlarm, RelayedAdopted, RelayingAdopted, FirstStart, WriteSyncCheckpoint
<1>3. Synced' /\ FirstStart' /\ PendingNoticed' /\ MessagesCurrent'
  BY TreeAssumption DEF TypeOK, Synced, FirstStart, PendingNoticed, MessagesCurrent, Stopped,
     WriteSyncCheckpoint, Indexed
<1> QED BY <1>1, <1>2, <1>3

LEMMA HeaderStep ==
  ASSUME IndInv, NEW b \in Blocks \ {Genesis}, AcceptBlockHeader(b)
  PROVE  IndInv'
<1> USE DEF IndInv, AcceptBlockHeader, blocks, current, pending, relay, settings
<1>1. TypeOK'
  BY DEF TypeOK, MaybeBlock, Arrives
<1>2. Synced' /\ NoFalseAlarm' /\ MessagesCurrent' /\ RelayedAdopted'
  BY DEF Synced, NoFalseAlarm, MessagesCurrent, RelayedAdopted
<1>3. FirstStart' /\ RelayingAdopted' /\ PendingNoticed'
  BY DEF TypeOK, FirstStart, RelayingAdopted, PendingNoticed, Stopped, Arrives
<1> QED BY <1>1, <1>2, <1>3

LEMMA AssertStep ==
  ASSUME IndInv, NEW b \in Blocks \ {Genesis}, AssertionFails(b)
  PROVE  IndInv'
<1> USE DEF IndInv, AssertionFails, blocks, current, pending, relay, settings
<1>1. TypeOK'
  BY DEF TypeOK, MaybeBlock, Arrives
<1>2. Synced' /\ NoFalseAlarm' /\ MessagesCurrent' /\ RelayedAdopted'
  BY DEF Synced, NoFalseAlarm, MessagesCurrent, RelayedAdopted
<1>3. FirstStart' /\ RelayingAdopted' /\ PendingNoticed'
  BY DEF TypeOK, FirstStart, RelayingAdopted, PendingNoticed, Stopped, Arrives
<1> QED BY <1>1, <1>2, <1>3

LEMMA DropStep == IndInv /\ DropPending => IndInv'
<1> SUFFICES ASSUME IndInv, DropPending PROVE IndInv'
  OBVIOUS
<1> USE DEF IndInv, DropPending, blocks, current, pending, relay, settings
<1>1. NoFalseAlarm' /\ hashInvalidCheckpoint' \in MaybeBlock
  BY InvalidIsConflict
<1>2. TypeOK'
  BY <1>1, TreeAssumption DEF TypeOK, NoPending, MaybeBlock
<1>3. Synced' /\ MessagesCurrent' /\ RelayedAdopted'
  BY DEF Synced, MessagesCurrent, RelayedAdopted, NoPending
<1>4. FirstStart' /\ RelayingAdopted' /\ PendingNoticed'
  BY TreeAssumption DEF TypeOK, FirstStart, RelayingAdopted, PendingNoticed, NoPending
<1> QED BY <1>1, <1>2, <1>3, <1>4

(* What every peer is told, as RelayTo leaves it.                          *)
LEMMA RelayTells ==
  ASSUME NEW c \in Blocks, TypeOK, RelayToAll(c), RelayedAdopted,
         hashSyncCheckpoint' \in Blocks, c \in Anc[hashSyncCheckpoint'],
         hashSyncCheckpoint # NoBlock => Anc[hashSyncCheckpoint] \subseteq Anc[hashSyncCheckpoint']
  PROVE  RelayedAdopted' /\ hashCheckpointKnown' \in [Peers -> MaybeBlock]
<1>1. hashCheckpointKnown' \in [Peers -> MaybeBlock]
  BY DEF RelayToAll, TypeOK, MaybeBlock
<1>2. \A p \in Peers : hashCheckpointKnown'[p] \in {c, hashCheckpointKnown[p]}
  BY DEF RelayToAll
<1>3. RelayedAdopted'
  BY <1>2, TreeAssumption DEF RelayedAdopted
<1> QED BY <1>1, <1>3

LEMMA AcceptStep == IndInv /\ AcceptPending => IndInv'
<1> SUFFICES ASSUME IndInv, AcceptPending PROVE IndInv'
  OBVIOUS
<1> USE DEF IndInv, AcceptPending, blocks, current, pending, relay, settings
<1> DEFINE c == hashPendingCheckpoint
<1>1. /\ c \in Blocks /\ hashSyncCheckpoint \in Blocks /\ hashSyncCheckpoint \in Anc[c]
      /\ c \in Anc[c] /\ c # NoBlock /\ hashSyncCheckpoint # NoBlock
  BY ValidDescends
<1>2. hashSyncCheckpoint' = c /\ dbSyncCheckpoint' = c
  BY DEF WriteSyncCheckpoint
<1>3. Anc[hashSyncCheckpoint] \subseteq Anc[hashSyncCheckpoint']
  BY <1>1, <1>2, DescendantKeeps
<1>4. checkpointMessage' \in {NoBlock, c}
  BY DEF MessagesCurrent, MessageAfterPending
<1>5. NoFalseAlarm'
  <2> SUFFICES ASSUME hashInvalidCheckpoint # NoBlock
               PROVE  hashInvalidCheckpoint \notin Anc[c] /\ c \notin Anc[hashInvalidCheckpoint]
    BY <1>1, <1>2 DEF NoFalseAlarm
  <2>1. hashInvalidCheckpoint \in Blocks
    BY DEF TypeOK, MaybeBlock
  <2> QED BY <1>1, <2>1, DescendantKeeps DEF NoFalseAlarm
<1>6. RelayedAdopted' /\ hashCheckpointKnown' \in [Peers -> MaybeBlock]
  <2>1. CASE checkpointMessage' = NoBlock
    BY <2>1, <1>1, <1>2, <1>3 DEF RelayedAdopted, TypeOK
  <2>2. CASE checkpointMessage' # NoBlock
    BY <2>2, <1>1, <1>2, <1>3, <1>4, RelayTells
  <2> QED BY <2>1, <2>2
<1> HIDE DEF c
<1>7. TypeOK'
  BY <1>1, <1>2, <1>4, <1>6, TreeAssumption DEF TypeOK, NoPending, MaybeBlock
<1>8. Synced' /\ MessagesCurrent'
  BY <1>2, <1>4 DEF Synced, MessagesCurrent, NoPending
<1>9. FirstStart' /\ RelayingAdopted' /\ PendingNoticed'
  BY <1>1, <1>2, <1>3, <1>7, TreeAssumption DEF TypeOK, FirstStart, RelayingAdopted, PendingNoticed,
     NoPending
<1> QED BY <1>5, <1>6, <1>7, <1>8, <1>9

(* A message that changes nothing but the pending or invalid checkpoint,   *)
(* or that is adopted, keeps what is said of checkpoints and messages.     *)
LEMMA ProcessKeeps ==
  ASSUME IndInv, NEW c \in Signed, KeepPending(c) \/ Ignore(c) \/ Adopt(c),
         UNCHANGED <<blocks, relay>>
  PROVE  /\ NoFalseAlarm' /\ RelayedAdopted' /\ Synced' /\ MessagesCurrent'
         /\ hashPendingCheckpoint' # hashPendingCheckpoint => hashPendingCheckpoint' \notin dbIndex
         /\ {hashSyncCheckpoint', dbSyncCheckpoint', hashPendingCheckpoint', hashInvalidCheckpoint',
             checkpointMessage', checkpointMessagePending'} \subseteq MaybeBlock
         /\ hashSyncCheckpoint # NoBlock => hashSyncCheckpoint' # NoBlock
         /\ \A x : hashSyncCheckpoint # NoBlock /\ x \in Anc[hashSyncCheckpoint] =>
                   x \in Anc[hashSyncCheckpoint']
         /\ Adopt(c) => hashSyncCheckpoint' = c /\ c \in Anc[c] /\ c \in mapBlockIndex /\ c # NoBlock
<1> USE DEF IndInv, blocks, current, pending, relay
<1>0. c \in Blocks
  BY ParameterAssumption
<1>1. CASE KeepPending(c)
  BY <1>0, <1>1 DEF KeepPending, Adopt, Indexed, TypeOK, MaybeBlock, NoFalseAlarm, RelayedAdopted, Synced,
     MessagesCurrent
<1>2. CASE Ignore(c)
  <2>1. NoFalseAlarm' /\ hashInvalidCheckpoint' \in MaybeBlock
    BY <1>2, InvalidIsConflict DEF Ignore
  <2> QED BY <1>2, <2>1 DEF Ignore, Adopt, TypeOK, RelayedAdopted, Synced, MessagesCurrent
<1>3. CASE Adopt(c)
  <2>1. /\ c \in Blocks /\ hashSyncCheckpoint \in Blocks /\ hashSyncCheckpoint \in Anc[c]
        /\ c \in Anc[c] /\ c # NoBlock /\ hashSyncCheckpoint # NoBlock
    BY <1>3, ValidDescends DEF Adopt
  <2>2. /\ NoFalseAlarm' /\ RelayedAdopted'
        /\ \A x : x \in Anc[hashSyncCheckpoint] => x \in Anc[hashSyncCheckpoint']
    BY <1>3, AdvanceKeeps DEF Adopt, WriteSyncCheckpoint
  <2>3. Synced' /\ MessagesCurrent' /\ hashSyncCheckpoint' = c /\ c \in mapBlockIndex
    BY <1>3 DEF Adopt, WriteSyncCheckpoint, Synced, MessagesCurrent, NoPending, Indexed
  <2>4. {hashSyncCheckpoint', dbSyncCheckpoint', hashPendingCheckpoint', hashInvalidCheckpoint',
         checkpointMessage', checkpointMessagePending'} \subseteq MaybeBlock
    BY <1>3, <2>1 DEF Adopt, WriteSyncCheckpoint, NoPending, TypeOK, MaybeBlock
  <2>5. hashPendingCheckpoint' \notin dbIndex
    BY <1>3, TreeAssumption DEF Adopt, NoPending, TypeOK
  <2> QED BY <2>1, <2>2, <2>3, <2>4, <2>5
<1> QED BY <1>1, <1>2, <1>3

LEMMA MessageStep ==
  ASSUME IndInv, NEW c \in Signed, CheckpointMessage(c)
  PROVE  IndInv'
<1> USE DEF IndInv, CheckpointMessage, blocks, current, pending, relay, settings
<1>0. c \in Blocks
  BY ParameterAssumption
<1>1. KeepPending(c) \/ Ignore(c) \/ Adopt(c)
  OBVIOUS
<1>2. /\ NoFalseAlarm' /\ RelayedAdopted' /\ Synced' /\ MessagesCurrent'
      /\ hashPendingCheckpoint' # hashPendingCheckpoint => hashPendingCheckpoint' \notin dbIndex
      /\ {hashSyncCheckpoint', dbSyncCheckpoint', hashPendingCheckpoint', hashInvalidCheckpoint',
          checkpointMessage', checkpointMessagePending'} \subseteq MaybeBlock
      /\ hashSyncCheckpoint # NoBlock => hashSyncCheckpoint' # NoBlock
      /\ \A x : hashSyncCheckpoint # NoBlock /\ x \in Anc[hashSyncCheckpoint] =>
                x \in Anc[hashSyncCheckpoint']
      /\ Adopt(c) => hashSyncCheckpoint' = c /\ c \in Anc[c] /\ c \in mapBlockIndex /\ c # NoBlock
  BY <1>1, ProcessKeeps
<1>3. TypeOK'
  BY <1>0, <1>2 DEF TypeOK, MaybeBlock
<1>4. FirstStart' /\ PendingNoticed'
  BY <1>2 DEF TypeOK, FirstStart, PendingNoticed, Running, Stopped
<1>5. RelayingAdopted'
  BY <1>2 DEF RelayingAdopted
<1> QED BY <1>2, <1>3, <1>4, <1>5

LEMMA SendStep ==
  ASSUME IndInv, NEW c \in Signed, SendCheckpoint(c)
  PROVE  IndInv'
<1> USE DEF IndInv, SendCheckpoint, blocks, current, pending, relay, settings
<1>0. c \in Blocks
  BY ParameterAssumption
<1>1. KeepPending(c) \/ Ignore(c) \/ Adopt(c)
  OBVIOUS
<1>2. /\ NoFalseAlarm' /\ RelayedAdopted' /\ Synced' /\ MessagesCurrent'
      /\ hashPendingCheckpoint' # hashPendingCheckpoint => hashPendingCheckpoint' \notin dbIndex
      /\ {hashSyncCheckpoint', dbSyncCheckpoint', hashPendingCheckpoint', hashInvalidCheckpoint',
          checkpointMessage', checkpointMessagePending'} \subseteq MaybeBlock
      /\ hashSyncCheckpoint # NoBlock => hashSyncCheckpoint' # NoBlock
      /\ \A x : hashSyncCheckpoint # NoBlock /\ x \in Anc[hashSyncCheckpoint] =>
                x \in Anc[hashSyncCheckpoint']
      /\ Adopt(c) => hashSyncCheckpoint' = c /\ c \in Anc[c] /\ c \in mapBlockIndex /\ c # NoBlock
  BY <1>1, ProcessKeeps
<1>3. TypeOK'
  BY <1>0, <1>2 DEF TypeOK, MaybeBlock
<1>4. FirstStart' /\ PendingNoticed'
  BY <1>2 DEF TypeOK, FirstStart, PendingNoticed, Stopped
<1>5. RelayingAdopted'
  BY <1>2 DEF RelayingAdopted
<1> QED BY <1>2, <1>3, <1>4, <1>5

LEMMA RelayStep == IndInv /\ RelayCheckpoint => IndInv'
<1> SUFFICES ASSUME IndInv, RelayCheckpoint PROVE IndInv'
  OBVIOUS
<1> USE DEF IndInv, RelayCheckpoint, blocks, current, pending, relay, settings
<1>1. /\ relaying \in Blocks /\ hashSyncCheckpoint # NoBlock /\ hashSyncCheckpoint \in Blocks
      /\ relaying \in Anc[hashSyncCheckpoint]
  BY DEF RelayingAdopted, TypeOK, MaybeBlock
<1>2. RelayedAdopted' /\ hashCheckpointKnown' \in [Peers -> MaybeBlock]
  BY <1>1, RelayTells
<1>3. TypeOK'
  BY <1>2 DEF TypeOK, MaybeBlock
<1>4. Synced' /\ NoFalseAlarm' /\ MessagesCurrent'
  BY DEF Synced, NoFalseAlarm, MessagesCurrent
<1>5. FirstStart' /\ RelayingAdopted' /\ PendingNoticed'
  BY DEF FirstStart, RelayingAdopted, PendingNoticed, Stopped
<1> QED BY <1>2, <1>3, <1>4, <1>5

LEMMA RelaySentStep == IndInv /\ RelaySent => IndInv'
<1> SUFFICES ASSUME IndInv, RelaySent PROVE IndInv'
  OBVIOUS
<1> USE DEF IndInv, RelaySent, blocks, current, pending, relay, settings
<1>1. /\ cur \in Blocks /\ hashSyncCheckpoint # NoBlock /\ hashSyncCheckpoint \in Blocks
      /\ cur \in Anc[hashSyncCheckpoint]
  BY DEF RelayingAdopted, TypeOK, MaybeBlock
<1>2. RelayedAdopted' /\ hashCheckpointKnown' \in [Peers -> MaybeBlock]
  BY <1>1, RelayTells
<1>3. TypeOK'
  BY <1>2 DEF TypeOK, MaybeBlock
<1>4. Synced' /\ NoFalseAlarm' /\ MessagesCurrent'
  BY DEF Synced, NoFalseAlarm, MessagesCurrent
<1>5. FirstStart' /\ RelayingAdopted' /\ PendingNoticed'
  BY DEF FirstStart, RelayingAdopted, PendingNoticed, Stopped
<1> QED BY <1>2, <1>3, <1>4, <1>5

LEMMA VersionStep ==
  ASSUME IndInv, NEW p \in Peers, VersionMessage(p)
  PROVE  IndInv'
<1> USE DEF IndInv, VersionMessage, blocks, current, pending, relay, settings
<1>1. TypeOK'
  BY TreeAssumption DEF TypeOK, MaybeBlock, RelayedToNew
<1>2. RelayedAdopted'
  <2> SUFFICES ASSUME NEW q \in Peers, hashCheckpointKnown'[q] # NoBlock
               PROVE  hashSyncCheckpoint # NoBlock /\ hashCheckpointKnown'[q] \in Anc[hashSyncCheckpoint]
    BY DEF RelayedAdopted
  <2>1. CASE q = p
    BY <2>1, TreeAssumption DEF TypeOK, MaybeBlock, MessagesCurrent, RelayedToNew
  <2>2. CASE q # p
    BY <2>2 DEF TypeOK, RelayedAdopted
  <2> QED BY <2>1, <2>2
<1>3. Synced' /\ NoFalseAlarm' /\ MessagesCurrent'
  BY DEF Synced, NoFalseAlarm, MessagesCurrent
<1>4. FirstStart' /\ RelayingAdopted' /\ PendingNoticed'
  BY DEF FirstStart, RelayingAdopted, PendingNoticed, Stopped
<1> QED BY <1>1, <1>2, <1>3, <1>4

LEMMA DisconnectStep ==
  ASSUME IndInv, NEW p \in Peers, Disconnect(p)
  PROVE  IndInv'
<1> USE DEF IndInv, Disconnect, blocks, current, pending, relay, settings
<1>1. TypeOK'
  BY TreeAssumption DEF TypeOK, MaybeBlock, RelayedToNew
<1>2. RelayedAdopted'
  <2> SUFFICES ASSUME NEW q \in Peers, hashCheckpointKnown'[q] # NoBlock
               PROVE  hashSyncCheckpoint # NoBlock /\ hashCheckpointKnown'[q] \in Anc[hashSyncCheckpoint]
    BY DEF RelayedAdopted
  <2>1. CASE q = p
    BY <2>1, TreeAssumption DEF TypeOK, MaybeBlock, MessagesCurrent, RelayedToNew
  <2>2. CASE q # p
    BY <2>2 DEF TypeOK, RelayedAdopted
  <2> QED BY <2>1, <2>2
<1>3. Synced' /\ NoFalseAlarm' /\ MessagesCurrent'
  BY DEF Synced, NoFalseAlarm, MessagesCurrent
<1>4. FirstStart' /\ RelayingAdopted' /\ PendingNoticed'
  BY DEF FirstStart, RelayingAdopted, PendingNoticed, Stopped
<1> QED BY <1>1, <1>2, <1>3, <1>4

LEMMA EnforceStep ==
  ASSUME IndInv, NEW e \in BOOLEAN, EnforceCheckpoint(e)
  PROVE  IndInv'
<1> USE DEF IndInv, EnforceCheckpoint, blocks, current, pending, relay, settings
<1>1. TypeOK'
  BY Zenon DEF TypeOK
<1>2. Synced' /\ NoFalseAlarm' /\ MessagesCurrent' /\ RelayedAdopted'
  BY DEF Synced, NoFalseAlarm, MessagesCurrent, RelayedAdopted
<1>3. FirstStart' /\ RelayingAdopted' /\ PendingNoticed'
  BY DEF FirstStart, RelayingAdopted, PendingNoticed, Stopped
<1> QED BY <1>1, <1>2, <1>3

LEMMA KillStep == IndInv /\ Kill => IndInv'
<1> SUFFICES ASSUME IndInv, Kill PROVE IndInv'
  OBVIOUS
<1> USE DEF IndInv, Kill, blocks, current, pending, relay, settings
<1>1. TypeOK'
  BY ParameterAssumption DEF TypeOK, MaybeBlock
<1>2. Synced' /\ NoFalseAlarm' /\ MessagesCurrent' /\ RelayedAdopted'
  BY DEF Synced, NoFalseAlarm, MessagesCurrent, RelayedAdopted
<1>3. FirstStart' /\ RelayingAdopted' /\ PendingNoticed'
  BY DEF FirstStart, RelayingAdopted, PendingNoticed, Stopped
<1> QED BY <1>1, <1>2, <1>3

LEMMA StartStep == IndInv /\ Start => IndInv'
<1> SUFFICES ASSUME IndInv, Start PROVE IndInv'
  OBVIOUS
<1> USE DEF IndInv, Start, blocks, current, pending, relay, settings
<1>1. hashCheckpointKnown' \in [Peers -> MaybeBlock]
  BY Zenon DEF MaybeBlock
<1>2. fEnforce' \in BOOLEAN /\ fMaster' \in BOOLEAN
  BY Zenon DEF TypeOK
<1>3. TypeOK'
  BY <1>1, <1>2, TreeAssumption DEF TypeOK, MaybeBlock, NoPending
<1>4. Synced' /\ NoFalseAlarm' /\ MessagesCurrent' /\ RelayedAdopted'
  BY DEF Synced, NoFalseAlarm, MessagesCurrent, RelayedAdopted, NoPending
<1>5. FirstStart' /\ RelayingAdopted' /\ PendingNoticed'
  BY TreeAssumption DEF TypeOK, FirstStart, RelayingAdopted, PendingNoticed, NoPending
<1> QED BY <1>3, <1>4, <1>5

LEMMA StutterStep == IndInv /\ UNCHANGED vars => IndInv'
<1> SUFFICES ASSUME IndInv, UNCHANGED vars PROVE IndInv'
  OBVIOUS
<1> USE DEF IndInv, vars, blocks, current, pending, relay, settings
<1>1. TypeOK'
  BY DEF TypeOK
<1> QED BY <1>1 DEF Synced, FirstStart, RelayingAdopted, PendingNoticed, NoFalseAlarm,
  MessagesCurrent, RelayedAdopted, Stopped

LEMMA NextStep == IndInv /\ [Next]_vars => IndInv'
<1> SUFFICES ASSUME IndInv, [Next]_vars PROVE IndInv'
  OBVIOUS
<1> QED BY InitSyncStep, ResetStep, HeaderStep, AssertStep, RefuseStep, ReceivedStep, ActivateStep,
  ReadsNullStep, StaysStep, DropStep, AcceptStep, AutoStep, ReturnsStep, MessageStep, SendStep,
  RelayStep, RelaySentStep, VersionStep, DisconnectStep, EnforceStep, KillStep, StartStep,
  StutterStep DEF Next, Crashed

-----------------------------------------------------------------------------
(* The theorems                                                            *)

(* The inductive invariant holds in every reachable state.                 *)
THEOREM Invariance == Spec => []IndInv
BY InitHolds, NextStep, PTL DEF Spec

(* Index, checkpoints, messages and peers keep their types, and the block  *)
(* being accepted is indexed.                                              *)
THEOREM TypeCorrect == Spec => []TypeOK
<1>1. IndInv => TypeOK
  BY DEF IndInv
<1> QED BY <1>1, Invariance, PTL

(* hashInvalidCheckpoint always names a block that conflicts with the      *)
(* current checkpoint.                                                     *)
THEOREM AlarmsSound == Spec => []NoFalseAlarm
<1>1. IndInv => NoFalseAlarm
  BY DEF IndInv
<1> QED BY <1>1, Invariance, PTL

(* checkpointMessage and checkpointMessagePending follow the hashes.       *)
THEOREM MessagesFollow == Spec => []MessagesCurrent
<1>1. IndInv => MessagesCurrent
  BY DEF IndInv
<1> QED BY <1>1, Invariance, PTL

(* RelayTo only ever sends a checkpoint that this node has adopted.        *)
THEOREM RelaysAdopted == Spec => []RelayedAdopted
<1>1. IndInv => RelayedAdopted
  BY DEF IndInv
<1> QED BY <1>1, Invariance, PTL

(* AcceptPendingSyncCheckpoint overlooks no pending checkpoint whose block *)
(* is stored.                                                              *)
THEOREM PendingFound == Spec => []NoLostPending
<1>1. IndInv => NoLostPending
  BY DEF IndInv, PendingNoticed, NoLostPending, Stopped
<1> QED BY <1>1, Invariance, PTL

(* The checkpoint moves to descendants only, whatever the messages and     *)
(* across restarts.                                                        *)
THEOREM Advances == Spec => CheckpointAdvances
<1> DEFINE Advance == hashSyncCheckpoint # NoBlock =>
                        /\ hashSyncCheckpoint' # NoBlock
                        /\ hashSyncCheckpoint \in Anc[hashSyncCheckpoint']
<1>1. IndInv /\ [Next]_vars => Advance
  <2> SUFFICES ASSUME IndInv, [Next]_vars, hashSyncCheckpoint # NoBlock PROVE Advance
    OBVIOUS
  <2>0. hashSyncCheckpoint \in Blocks /\ hashSyncCheckpoint \in Anc[hashSyncCheckpoint]
    BY TreeAssumption DEF IndInv, TypeOK, MaybeBlock
  <2>1. CASE InitSyncCheckpoint
    BY <2>1 DEF InitSyncCheckpoint, IndInv, FirstStart
  <2>2. CASE ResetSyncCheckpoint
    BY <2>0, <2>2 DEF ResetSyncCheckpoint, WriteSyncCheckpoint, IndInv, FirstStart
  <2>3. CASE AcceptPending
    BY <2>3, ValidDescends DEF AcceptPending, WriteSyncCheckpoint, IndInv
  <2>4. ASSUME NEW c \in Signed, Adopt(c) PROVE Advance
    BY <2>4, ValidDescends DEF Adopt, WriteSyncCheckpoint, IndInv
  <2>5. CASE Start
    BY <2>0, <2>5 DEF Start, IndInv, Synced
  <2>6. CASE UNCHANGED hashSyncCheckpoint
    BY <2>0, <2>6
  <2>7. \/ InitSyncCheckpoint \/ ResetSyncCheckpoint \/ AcceptPending \/ Start
        \/ \E c \in Signed : Adopt(c)
        \/ UNCHANGED hashSyncCheckpoint
    BY DEF Next, vars, current, AcceptBlockHeader, AssertionFails, RefuseBlock,
       ReceivedBlockTransactions, ActivateBestChain, UpdateTipReadsNull, PendingStays, DropPending,
       AutoSelectReadsNull, ProcessBlockReturns, CheckpointMessage, SendCheckpoint, KeepPending,
       Ignore, RelayCheckpoint, RelaySent, VersionMessage, Disconnect, EnforceCheckpoint, Kill,
       Crashed
  <2> QED BY <2>1, <2>2, <2>3, <2>4, <2>5, <2>6, <2>7
<1>2. IndInv /\ [Next]_vars => [Advance]_vars
  BY <1>1
<1> HIDE DEF Advance
<1>3. Spec => [][Advance]_vars
  BY <1>2, Invariance, PTL DEF Spec
<1> QED BY <1>3 DEF CheckpointAdvances, Advance
=============================================================================
