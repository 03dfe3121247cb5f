--------------------------- MODULE ChainPersistence ---------------------------
(***************************************************************************)
(* What the node leaves on disk while it stores, connects and disconnects  *)
(* blocks (src/src/main.cpp), and what it finds there after the process is *)
(* killed or the machine loses power.                                      *)
(*                                                                         *)
(* Three stores are written: the block and undo files (blk*.dat,           *)
(* rev*.dat), the block tree database and the coin database.  A database   *)
(* write is atomic, and what a power loss leaves of a database is one of   *)
(* the contents it has had since it was last synced; treeMay and coinsMay  *)
(* hold them.  A file record written since the last FileCommit of its file *)
(* may be lost.  Between two steps here anything may happen to the process.*)
(*                                                                         *)
(* IsInitialBlockDownload() depends on the clock and decides whether a     *)
(* write is committed at once and whether WriteChainState writes; it is a  *)
(* choice here, at every call.                                             *)
(*                                                                         *)
(* Undo records are identified by their block: their positions advance     *)
(* the way block positions do.  All blocks are valid; ChainState treats    *)
(* the others.                                                             *)
(*                                                                         *)
(* The first start finds empty stores; NoBlock is then the best block of   *)
(* the coins, uint256(0), and the tip of the active chain, NULL.           *)
(***************************************************************************)
EXTENDS Integers, FiniteSets

CONSTANTS
  Blocks, Genesis, NoBlock,
  Prev, Anc, Work,  \* as in ChainState
  FileCap,          \* block records that fit under MAX_BLOCKFILE_SIZE
  MaxFile,          \* bound: number of the last block file
  WriteBack,        \* the system writes back what an exited process left
  MaxKills,         \* bound: killed processes
  MaxPowerLosses    \* bound: power losses

ASSUME TreeAssumption ==
  /\ Genesis \in Blocks /\ NoBlock \notin Blocks
  /\ Prev \in [Blocks \ {Genesis} -> Blocks]
  /\ Anc \in [Blocks -> SUBSET Blocks]
  /\ Anc[Genesis] = {Genesis}
  /\ \A b \in Blocks \ {Genesis} :
        b \notin Anc[Prev[b]] /\ Anc[b] = Anc[Prev[b]] \union {b}
  /\ \A b \in Blocks : Genesis \in Anc[b]
  /\ Work \in [Blocks -> Nat]

ASSUME BoundAssumption ==
  /\ FileCap \in Nat \ {0} /\ MaxFile \in Nat
  /\ WriteBack \in BOOLEAN
  /\ {MaxKills, MaxPowerLosses} \subseteq Nat

Files == 0 .. MaxFile
Slots == Files \X (1 .. FileCap)
NoPos == <<-1, 0>>

VARIABLES
  blk, blkDirty,    \* block files: record at each position, and those uncommitted
  rev, revDirty,    \* blocks with an undo record, and those uncommitted
  tree, treeMay,    \* the block tree database
  coins, coinsMay,  \* best block of the coin database
  last,             \* nLastBlockFile
  active,           \* chainActive.Tip()
  coinsTip,         \* pcoinsTip->GetBestBlock()
  target,           \* chainMostWork.Tip()
  pc, cur,
  nKills, nPowerLosses

files  == <<blk, blkDirty, rev, revDirty>>
dbs    == <<tree, treeMay, coins, coinsMay>>
mem    == <<last, active, coinsTip, target>>
bounds == <<nKills, nPowerLosses>>
vars   == <<files, dbs, mem, pc, cur, bounds>>

Running == pc \notin {"down", "refused"}

(* the entry of b in a content of the block tree database *)
HaveData(T, b) == T.pos[b] # NoPos
FileOf(T, b) == T.pos[b][1]

(* a new data directory *)
Init ==
  /\ blk = [s \in Slots |-> NoBlock]
  /\ rev = {} /\ blkDirty = {} /\ revDirty = {}
  /\ tree = [pos |-> [b \in Blocks |-> NoPos], undo |-> {},
             nSize |-> [f \in Files |-> 0], last |-> 0]
  /\ treeMay = {tree}
  /\ coins = NoBlock /\ coinsMay = {NoBlock}
  /\ last = 0 /\ active = NoBlock /\ coinsTip = NoBlock /\ target = NoBlock
  /\ pc = "down" /\ cur = NoBlock
  /\ nKills = 0 /\ nPowerLosses = 0

-----------------------------------------------------------------------------
(* Helpers                                                                 *)

(* an unsynced write to the block tree database *)
WriteTree(T) == tree' = T /\ treeMay' = treeMay \union {T}

(* FileCommit on blk<f>.dat, on rev<f>.dat *)
BlkCommitted(f) == {s \in blkDirty : s[1] # f}
RevCommitted(f) == {b \in revDirty : FileOf(tree, b) # f}

(* FlushBlockFile commits both files numbered nLastBlockFile *)
FlushBlkOnly == blkDirty' = BlkCommitted(last) /\ UNCHANGED revDirty
FlushBlockFile ==
  /\ blkDirty' = BlkCommitted(last)
  /\ revDirty' = RevCommitted(last)

Readable(b) == HaveData(tree, b) /\ blk[tree.pos[b]] = b
UndoReadable(b) == b \in tree.undo /\ b \in rev

-----------------------------------------------------------------------------
(* AcceptBlock: a position, the record, the index entry                    *)

Full == tree.nSize[last] >= FileCap

(* FindBlockPos up to WriteBlockFileInfo *)
LeaveFile ==
  IF Full THEN FlushBlockFile /\ last' = last + 1 /\ pc' = "last"
          ELSE UNCHANGED <<blkDirty, revDirty, last>> /\ pc' = "write"

(* AcceptBlock stores a block whose parent it has, InitBlockIndex the      *)
(* genesis block                                                           *)
MayStore(b) ==
  IF b = Genesis THEN pc = "init" ELSE pc = "idle" /\ HaveData(tree, Prev[b])

(* bound: there is a next file, and crashes have not filled it already *)
FindBlockPos(b) ==
  /\ ~HaveData(tree, b) /\ MayStore(b)
  /\ Full => last < MaxFile /\ tree.nSize[last + 1] < FileCap
  /\ LeaveFile
  /\ WriteTree([tree EXCEPT !.nSize[last'] = @ + 1])
  /\ cur' = b
  /\ UNCHANGED <<blk, rev, coins, coinsMay, active, coinsTip, target, bounds>>

(* fUpdatedLast *)
WriteLastBlockFile ==
  /\ pc = "last"
  /\ WriteTree([tree EXCEPT !.last = last])
  /\ pc' = "write"
  /\ UNCHANGED <<files, coins, coinsMay, mem, cur, bounds>>

(* the position FindBlockPos returned *)
CurPosReused == <<last, IF tree.nSize[last] > 1 THEN tree.nSize[last] - 1 ELSE 1>>
CurPos == <<last, tree.nSize[last]>>

WriteBlockToDisk ==
  /\ pc = "write"
  /\ blk' = [blk EXCEPT ![CurPos] = cur]
  /\ blkDirty' \in {blkDirty \union {CurPos}, BlkCommitted(last)}
  /\ pc' = "index"
  /\ UNCHANGED <<rev, revDirty, dbs, mem, cur, bounds>>

(* ReceivedBlockTransactions *)
WriteBlockIndex ==
  /\ pc = "index"
  /\ WriteTree([tree EXCEPT !.pos[cur] = CurPos, !.undo = @ \ {cur}])
  /\ pc' = "choose"
  /\ UNCHANGED <<files, coins, coinsMay, mem, cur, bounds>>

-----------------------------------------------------------------------------
(* ActivateBestChain                                                       *)

Stored == {b \in Blocks : HaveData(tree, b)}

(* between two blocks of equal work the active tip came first, except at  *)
(* start-up, when arrival order is forgotten                               *)
FindMostWorkChain ==
  /\ pc = "choose"
  /\ \E t \in Stored :
        /\ \A b \in Stored : Work[b] <= Work[t]
        /\ cur # NoBlock /\ active # NoBlock /\ Work[t] = Work[active] => t = active
        /\ target' = t
  /\ pc' = "switch"
  /\ UNCHANGED <<files, dbs, last, active, coinsTip, cur, bounds>>

Parent(b) == IF b = Genesis THEN NoBlock ELSE Prev[b]
MustDisconnect == active # NoBlock /\ active \notin Anc[target]
MustConnect(b) == ~MustDisconnect /\ b \in Anc[target] /\ Parent(b) = active

DisconnectTip ==
  /\ pc = "switch" /\ MustDisconnect
  /\ Readable(active) /\ UndoReadable(active)
  /\ coinsTip' = Prev[active]
  /\ pc' = "chainstate"
  /\ UNCHANGED <<files, dbs, last, active, target, cur, bounds>>

(* ConnectBlock writes undo data unless the entry has some *)
WriteUndo(b) ==
  /\ pc = "switch" /\ MustConnect(b) /\ Readable(b) /\ b \notin tree.undo
  /\ rev' = rev \union {b}
  /\ revDirty' \in {revDirty \union {b}, RevCommitted(FileOf(tree, b)) \ {b}}
  /\ cur' = b
  /\ pc' = "undo"
  /\ UNCHANGED <<blk, blkDirty, dbs, mem, bounds>>

UndoEntryForgotten == tree
UndoEntry == [tree EXCEPT !.undo = @ \union {cur}]

WriteUndoIndex ==
  /\ pc = "undo"
  /\ WriteTree(UndoEntry)
  /\ coinsTip' = cur
  /\ pc' = "chainstate"
  /\ UNCHANGED <<files, coins, coinsMay, last, active, target, cur, bounds>>

ConnectAgain(b) ==
  /\ pc = "switch" /\ MustConnect(b) /\ Readable(b) /\ b \in tree.undo
  /\ coinsTip' = b
  /\ pc' = "chainstate"
  /\ UNCHANGED <<files, dbs, last, active, target, cur, bounds>>

(* ConnectBlock: "skipping connection of its transactions" *)
ConnectGenesis ==
  /\ pc = "switch" /\ MustConnect(Genesis) /\ Readable(Genesis)
  /\ coinsTip' = Genesis
  /\ pc' = "chainstate"
  /\ UNCHANGED <<files, dbs, last, active, target, cur, bounds>>

(* a record cannot be read back: AbortNode *)
ReadFails ==
  /\ pc = "switch"
  /\ \/ MustDisconnect /\ ~(Readable(active) /\ UndoReadable(active))
     \/ \E b \in Blocks : MustConnect(b) /\ ~Readable(b)
  /\ pc' = "halt"
  /\ UNCHANGED <<files, dbs, mem, cur, bounds>>

Activated ==
  /\ pc = "switch" /\ active = target
  /\ pc' = "idle" /\ cur' = NoBlock
  /\ UNCHANGED <<files, dbs, mem, bounds>>

-----------------------------------------------------------------------------
(* WriteChainState, then UpdateTip                                         *)

(* during the initial download the write may not be due; the first one of  *)
(* a process, such as that of the genesis block, is (nLastWrite)           *)
SkipChainState ==
  /\ pc = "chainstate" /\ active # NoBlock
  /\ active' = coinsTip /\ pc' = "switch"
  /\ UNCHANGED <<files, dbs, last, coinsTip, target, cur, bounds>>

FlushFiles ==
  /\ pc = "chainstate"
  /\ FlushBlockFile
  /\ pc' = "sync"
  /\ UNCHANGED <<blk, rev, dbs, mem, cur, bounds>>

(* pblocktree->Sync() *)
NotSynced == treeMay
Synced == {tree}

SyncTree ==
  /\ pc = "sync"
  /\ treeMay' = Synced
  /\ pc' = "flush"
  /\ UNCHANGED <<files, tree, coins, coinsMay, mem, cur, bounds>>

(* pcoinsTip->Flush(), one unsynced batch *)
FlushCoins ==
  /\ pc = "flush"
  /\ coins' = coinsTip /\ coinsMay' = coinsMay \union {coinsTip}
  /\ active' = coinsTip
  /\ pc' = "switch"
  /\ UNCHANGED <<files, tree, treeMay, last, coinsTip, target, cur, bounds>>

-----------------------------------------------------------------------------
(* The end of a process, and a start                                       *)

(* Shutdown(): pblocktree->Flush() does nothing, pcoinsTip is flushed      *)
Shutdown ==
  /\ pc \in {"idle", "halt"}
  /\ coins' = coinsTip
  /\ IF WriteBack
     THEN blkDirty' = {} /\ revDirty' = {} /\ treeMay' = {tree} /\ coinsMay' = {coinsTip}
     ELSE UNCHANGED <<blkDirty, revDirty, treeMay>> /\ coinsMay' = coinsMay \union {coinsTip}
  /\ pc' = "down" /\ cur' = NoBlock
  /\ UNCHANGED <<blk, rev, tree, mem, bounds>>

Kill ==
  /\ Running /\ nKills < MaxKills
  /\ nKills' = nKills + 1
  /\ pc' = "down" /\ cur' = NoBlock
  /\ UNCHANGED <<files, dbs, mem, nPowerLosses>>

PowerLoss ==
  /\ pc # "refused" /\ nPowerLosses < MaxPowerLosses
  /\ nPowerLosses' = nPowerLosses + 1
  /\ \E lost \in SUBSET blkDirty :
        blk' = [s \in Slots |-> IF s \in lost THEN NoBlock ELSE blk[s]]
  /\ \E lost \in SUBSET revDirty : rev' = rev \ lost
  /\ blkDirty' = {} /\ revDirty' = {}
  /\ tree' \in treeMay /\ treeMay' = {tree'}
  /\ coins' \in coinsMay /\ coinsMay' = {coins'}
  /\ pc' = "down" /\ cur' = NoBlock
  /\ UNCHANGED <<mem, nKills>>

(* LoadBlockIndexDB must find the best block of the coins in the index *)
TipIndexed == coins # NoBlock /\ HaveData(tree, coins)

(* VerifyDB reads back the last nCheckDepth blocks, here all, and their    *)
(* undo data                                                               *)
Verified ==
  /\ TipIndexed
  /\ \A b \in Anc[coins] \ {Genesis} : Readable(b) /\ UndoReadable(b)

(* opening a LevelDB database replays its log into a synced table *)
Opened == treeMay' = {tree} /\ coinsMay' = {coins} /\ UNCHANGED <<tree, coins>>

(* an empty index: InitBlockIndex is next *)
FirstStart ==
  /\ pc = "down" /\ Stored = {} /\ Opened
  /\ last' = tree.last
  /\ active' = NoBlock /\ coinsTip' = coins /\ target' = NoBlock
  /\ pc' = "init"
  /\ UNCHANGED <<files, cur, bounds>>

(* VerifyDB is left out while IsInitialBlockDownload(), as it is just      *)
(* after a start with an old tip                                           *)
Start ==
  /\ pc = "down" /\ TipIndexed /\ Opened
  /\ last' = tree.last
  /\ active' = coins /\ coinsTip' = coins /\ target' = coins
  /\ pc' = "choose"
  /\ UNCHANGED <<files, cur, bounds>>

(* "Corrupted block database detected", or no genesis block in the chain *)
StartRefused ==
  /\ pc = "down" /\ Stored # {} /\ ~Verified /\ Opened
  /\ pc' = "refused"
  /\ UNCHANGED <<files, mem, cur, bounds>>

Refused == pc = "refused" /\ UNCHANGED vars

Next ==
  \/ \E b \in Blocks : FindBlockPos(b)
  \/ \E b \in Blocks \ {Genesis} : WriteUndo(b) \/ ConnectAgain(b)
  \/ WriteLastBlockFile \/ WriteBlockToDisk \/ WriteBlockIndex
  \/ FindMostWorkChain \/ DisconnectTip \/ WriteUndoIndex \/ ConnectGenesis \/ ReadFails \/ Activated
  \/ SkipChainState \/ FlushFiles \/ SyncTree \/ FlushCoins
  \/ Shutdown \/ Kill \/ PowerLoss \/ FirstStart \/ Start \/ StartRefused \/ Refused

Spec == Init /\ [][Next]_vars
-----------------------------------------------------------------------------
(* Properties                                                              *)

DBContent == [pos : [Blocks -> Slots \union {NoPos}], undo : SUBSET Blocks,
              nSize : [Files -> 0 .. FileCap], last : Files]

TypeOK ==
  /\ blk \in [Slots -> Blocks \union {NoBlock}] /\ blkDirty \in SUBSET Slots
  /\ rev \in SUBSET Blocks /\ revDirty \in SUBSET rev
  /\ tree \in DBContent /\ tree \in treeMay /\ \A T \in treeMay : T \in DBContent
  /\ coins \in coinsMay /\ coinsMay \in SUBSET (Blocks \union {NoBlock})
  /\ last \in Files
  /\ {active, coinsTip, target} \subseteq Blocks \union {NoBlock}
  /\ pc \in {"init", "idle", "last", "write", "index", "choose", "switch", "undo", "chainstate",
             "sync", "flush", "halt", "down", "refused"}
  /\ cur \in Blocks \union {NoBlock}
  /\ nKills \in 0 .. MaxKills /\ nPowerLosses \in 0 .. MaxPowerLosses

(* Whatever a power loss leaves of the two databases, the coin database's  *)
(* best block, once there is one, and all its ancestors are indexed, with  *)
(* undo positions, and their block records are safely on disk.             *)
TipDurable ==
  \A c \in coinsMay \ {NoBlock}, T \in treeMay : \A a \in Anc[c] :
     /\ HaveData(T, a)
     /\ blk[T.pos[a]] = a /\ T.pos[a] \notin blkDirty
     /\ a # Genesis => a \in T.undo

(* The order FlushBlockFile, Sync, Flush of WriteChainState guarantees it, *)
(* if what Shutdown leaves is written back before the power fails.         *)
TipRecoverable == WriteBack => TipDurable

(* The file size is written to the index before the block that it makes    *)
(* room for: no crash makes the node overwrite the record of an indexed    *)
(* block with another one.                                                 *)
DataOwned ==
  \A T \in treeMay : \A b \in Blocks :
     HaveData(T, b) => blk[T.pos[b]] \in {b, NoBlock}

(* "full block available in blk*.dat" (main.h:738): kept without a power   *)
(* loss, see README, section 5.                                            *)
HaveDataTrue == \A b \in Blocks : HaveData(tree, b) => blk[tree.pos[b]] = b

(* "undo data available in rev*.dat" (main.h:739), of the blocks below the *)
(* best block that a power loss left in the coin database                  *)
(* The code does not keep it: README, section 5.                           *)
UndoBelowTip ==
  pc = "down" /\ coins # NoBlock => \A a \in Anc[coins] \ {Genesis} : a \in tree.undo => a \in rev

(* FlushBlockFile commits the undo data of a block below a flushed tip,    *)
(* unless the block is in a file that was left before it was connected.    *)
UndoAtRiskOnlyInLeftFiles ==
  WriteBack =>
    \A c \in coinsMay \ {NoBlock} : \A a \in Anc[c] \intersect revDirty : FileOf(tree, a) < tree.last

(* The coin database has no best block yet although the genesis block is   *)
(* indexed.  The node does not start from that: README, section 5.         *)
FirstStartCut == coins = NoBlock /\ Stored = {Genesis}

(* A killed process never costs more than the blocks it had not written:   *)
(* every record is readable and the next start is not refused, unless the  *)
(* very first one was cut between its index entry and its coins; cut       *)
(* before, it begins again.                                                *)
KillHarmless ==
  nPowerLosses = 0 =>
    /\ HaveDataTrue
    /\ tree.undo \subseteq rev
    /\ pc # "halt"
    /\ pc = "refused" => FirstStartCut
    /\ pc = "down" => Verified \/ FirstStartCut \/ (coins = NoBlock /\ Stored = {})
=============================================================================
