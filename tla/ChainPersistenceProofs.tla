----------------------- MODULE ChainPersistenceProofs -----------------------
(***************************************************************************)
(* Proofs about ChainPersistence for every block tree, file capacity and   *)
(* number of crashes: what a power loss leaves is a chain the node can     *)
(* start from, no record of an indexed block is overwritten, and a killed  *)
(* process loses nothing it has written.                                   *)
(***************************************************************************)
EXTENDS ChainPersistence, TLAPS

-----------------------------------------------------------------------------
(* The inductive invariant                                                 *)

(* Positions handed out are below the file size, in every content that may *)
(* be found, and file sizes only grow until a power loss.                  *)
Positions ==
  \A T \in treeMay :
     /\ \A b \in Blocks : HaveData(T, b) =>
           /\ T.pos[b] \in Slots
           /\ T.pos[b][2] <= T.nSize[FileOf(T, b)]
           /\ FileOf(T, b) <= T.last
     /\ \A f \in Files : T.nSize[f] <= tree.nSize[f]

(* While a block is being stored its position is free.                     *)
Storing == pc \in {"last", "write", "index"}

Switching == pc \in {"switch", "undo", "chainstate", "sync", "flush"}

StoreOK ==
  /\ Storing =>
       /\ cur \in Blocks /\ ~HaveData(tree, cur)
       /\ cur # Genesis => HaveData(tree, Prev[cur])
       /\ CurPos \in Slots
       /\ \A T \in treeMay : \A b \in Blocks : HaveData(T, b) => T.pos[b] # CurPos
  /\ pc = "index" => blk[CurPos] = cur
  /\ pc = "undo" => /\ cur \in Blocks \ {Genesis}
                    /\ Prev[cur] = active /\ Readable(cur) /\ cur \in rev
  /\ Switching => target \in Blocks /\ HaveData(tree, target)

(* Only the last block file has uncommitted block records.                 *)
DirtyInLast ==
  /\ \A s \in blkDirty : s[1] = tree.last
  /\ Running => last = tree.last \/ (pc = "last" /\ blkDirty = {} /\ tree.last < last)
  /\ \A b \in revDirty : HaveData(tree, b)

(* Until the genesis block is connected there is nothing else, and the     *)
(* coin database has no best block.                                        *)
OnlyGenesis == \A b \in Blocks : HaveData(tree, b) => b = Genesis /\ Readable(b)

FirstOK ==
  /\ Running /\ active = NoBlock =>
       /\ coinsMay = {NoBlock} /\ OnlyGenesis
       /\ pc \in {"init", "last", "write", "index", "choose", "switch",
                  "chainstate", "sync", "flush"}
       /\ Storing => cur = Genesis
       /\ pc \notin {"chainstate", "sync", "flush"} => coinsTip = NoBlock
       /\ pc \in {"chainstate", "sync", "flush"} => coinsTip = Genesis /\ HaveData(tree, Genesis)
  /\ Running /\ active # NoBlock => coins # NoBlock /\ coinsTip # NoBlock
  /\ pc = "init" => active = NoBlock /\ ~HaveData(tree, Genesis)

(* Every content of the index that may be found next to a best block of    *)
(* the coins has the genesis block.                                        *)
GenesisFirst ==
  \A c \in coinsMay \ {NoBlock}, T \in treeMay : HaveData(T, Genesis)

(* The chain up to t is readable and has undo positions.                   *)
Sound(t) ==
  t # NoBlock => \A a \in Anc[t] : Readable(a) /\ (a # Genesis => a \in tree.undo)

(* That of the active chain and of the view is, unless a power loss found  *)
(* data that was never written back and VerifyDB was not run.              *)
Sparing == WriteBack \/ nPowerLosses = 0
ViewSound == Running /\ Sparing => Sound(active) /\ Sound(coinsTip)

(* The progress of WriteChainState.                                        *)
ChainStateSteps ==
  /\ pc \in {"sync", "flush"} =>
       blkDirty = {} /\ \A b \in revDirty : FileOf(tree, b) # last
  /\ pc = "flush" => treeMay = {tree}

(* Without a power loss the files hold everything the index says.          *)
NoLoss ==
  nPowerLosses = 0 =>
    /\ HaveDataTrue
    /\ tree.undo \subseteq rev
    /\ Sound(coins)
    /\ \A b \in Blocks : HaveData(tree, b) => \A a \in Anc[b] : HaveData(tree, a)
    /\ coins = NoBlock => OnlyGenesis
    /\ pc # "halt" /\ (pc = "refused" => coins = NoBlock /\ HaveData(tree, Genesis))

IndInv ==
  /\ TypeOK
  /\ Positions
  /\ StoreOK
  /\ DirtyInLast
  /\ FirstOK
  /\ GenesisFirst
  /\ DataOwned
  /\ ViewSound
  /\ ChainStateSteps
  /\ TipRecoverable
  /\ UndoAtRiskOnlyInLeftFiles
  /\ NoLoss

-----------------------------------------------------------------------------
(* Facts                                                                   *)

LEMMA ParentFacts ==
  ASSUME NEW b \in Blocks \ {Genesis}
  PROVE  /\ Prev[b] \in Blocks
         /\ b \in Anc[b] /\ Prev[b] \in Anc[Prev[b]]
         /\ Anc[b] = Anc[Prev[b]] \union {b}
<1>1. Prev[b] \in Blocks
  BY TreeAssumption
<1>2. Anc[b] = Anc[Prev[b]] \union {b} /\ b \in Anc[b]
  BY TreeAssumption
<1>3. Prev[b] \in Anc[Prev[b]]
  BY <1>1, TreeAssumption
<1> QED BY <1>1, <1>2, <1>3

LEMMA AncFacts ==
  ASSUME NEW b \in Blocks
  PROVE  b \in Anc[b] /\ Anc[b] \subseteq Blocks /\ Genesis \in Anc[b]
BY TreeAssumption

(* What does not write to files or databases leaves the stores sound.      *)
Stores == Positions /\ GenesisFirst /\ DataOwned /\ TipRecoverable /\ UndoAtRiskOnlyInLeftFiles

LEMMA StoresUntouched ==
  ASSUME IndInv, UNCHANGED <<files, dbs>>
  PROVE  /\ Stores'
         /\ \A t : Sound(t) => Sound(t)'
         /\ \A b : Readable(b)' = Readable(b)
         /\ HaveDataTrue' = HaveDataTrue
BY DEF IndInv, Stores, files, dbs, Positions, GenesisFirst, DataOwned, TipRecoverable,
   TipDurable, UndoAtRiskOnlyInLeftFiles, Sound, Readable, HaveData, FileOf, HaveDataTrue

LEMMA TypesUntouched ==
  ASSUME IndInv, UNCHANGED <<files, dbs>>
  PROVE  /\ blk' \in [Slots -> Blocks \union {NoBlock}] /\ blkDirty' \in SUBSET Slots
         /\ rev' \in SUBSET Blocks /\ revDirty' \in SUBSET rev'
         /\ tree' \in DBContent /\ tree' \in treeMay' /\ \A T \in treeMay' : T \in DBContent
         /\ coins' \in coinsMay' /\ coinsMay' \in SUBSET (Blocks \union {NoBlock})
BY DEF IndInv, TypeOK, files, dbs

-----------------------------------------------------------------------------
(* Init                                                                    *)

LEMMA InitIndInv == Init => IndInv
<1> SUFFICES ASSUME Init PROVE IndInv
  OBVIOUS
<1> USE DEF Init
<1>1. 0 \in Files /\ 0 \in 0 .. FileCap /\ 0 \in 0 .. MaxKills /\ 0 \in 0 .. MaxPowerLosses
  BY BoundAssumption DEF Files
<1>2. tree \in DBContent /\ \A b \in Blocks : ~HaveData(tree, b)
  BY <1>1 DEF DBContent, HaveData
<1>3. TypeOK
  BY <1>1, <1>2 DEF TypeOK
<1>4. Positions
  <2>1. \A f \in Files : tree.nSize[f] <= tree.nSize[f]
    OBVIOUS
  <2> QED BY <1>2, <2>1 DEF Positions
<1>5. StoreOK /\ DirtyInLast /\ ChainStateSteps /\ FirstOK /\ ViewSound
  BY DEF StoreOK, Storing, Switching, DirtyInLast, Running, ChainStateSteps, FirstOK, ViewSound
<1>6. GenesisFirst /\ TipRecoverable /\ UndoAtRiskOnlyInLeftFiles
  BY DEF GenesisFirst, TipRecoverable, TipDurable, UndoAtRiskOnlyInLeftFiles
<1>7. DataOwned /\ HaveDataTrue
  BY <1>2 DEF DataOwned, HaveDataTrue
<1>8. NoLoss
  BY <1>2, <1>7 DEF NoLoss, Sound, OnlyGenesis
<1> QED BY <1>3, <1>4, <1>5, <1>6, <1>7, <1>8 DEF IndInv

-----------------------------------------------------------------------------
(* Steps in memory                                                         *)

LEMMA FindMostWorkChainStep ==
  ASSUME IndInv, FindMostWorkChain
  PROVE  IndInv'
<1> USE DEF IndInv, FindMostWorkChain
<1>1. TypeOK'
  BY TypesUntouched DEF TypeOK, Stored, bounds
<1>2. Stores'
  BY StoresUntouched
<1>3. StoreOK'
  BY DEF StoreOK, Storing, Switching, Stored, HaveData, dbs
<1>4. DirtyInLast' /\ ChainStateSteps'
  BY DEF DirtyInLast, Running, ChainStateSteps, HaveData, files, dbs
<1>5. ViewSound'
  BY StoresUntouched DEF ViewSound, Running, Sparing, bounds
<1>6. NoLoss'
  BY StoresUntouched DEF NoLoss, OnlyGenesis, Readable, files, dbs, bounds, HaveData
<1>7. FirstOK'
  BY DEF FirstOK, OnlyGenesis, Running, Storing, Readable, HaveData, files, dbs
<1> QED BY <1>1, <1>2, <1>3, <1>4, <1>5, <1>6, <1>7 DEF Stores

(* The view moves to t; WriteChainState is next.                           *)
LEMMA ViewMoves ==
  ASSUME IndInv, NEW t \in Blocks, pc = "switch", pc' = "chainstate",
         coinsTip' = t, Sparing => Sound(t),
         active = NoBlock => t = Genesis /\ HaveData(tree, Genesis),
         UNCHANGED <<files, dbs, last, active, target, cur, bounds>>
  PROVE  IndInv'
<1> USE DEF IndInv
<1>1. TypeOK'
  BY TypesUntouched DEF TypeOK, bounds
<1>2. Stores'
  BY StoresUntouched
<1>3. StoreOK' /\ ChainStateSteps'
  BY DEF StoreOK, Storing, Switching, ChainStateSteps, HaveData, dbs
<1>4. DirtyInLast'
  BY DEF DirtyInLast, Running, HaveData, files, dbs
<1>5. ViewSound'
  BY StoresUntouched DEF ViewSound, Running, Sparing, bounds
<1>6. NoLoss'
  BY StoresUntouched DEF NoLoss, OnlyGenesis, Readable, files, dbs, bounds, HaveData
<1>7. FirstOK'
  BY TreeAssumption DEF FirstOK, OnlyGenesis, Running, Storing, Readable, HaveData, files, dbs
<1> QED BY <1>1, <1>2, <1>3, <1>4, <1>5, <1>6, <1>7 DEF Stores

LEMMA DisconnectTipStep ==
  ASSUME IndInv, DisconnectTip
  PROVE  IndInv'
<1>1. active \in Blocks /\ target \in Blocks /\ active # Genesis /\ active # NoBlock
  BY AncFacts DEF IndInv, TypeOK, StoreOK, Switching, DisconnectTip, MustDisconnect
<1>2. Prev[active] \in Blocks /\ Anc[Prev[active]] \subseteq Anc[active]
  BY <1>1, ParentFacts
<1>3. Sparing => Sound(Prev[active])
  BY <1>1, <1>2 DEF IndInv, ViewSound, Running, DisconnectTip, Sound
<1> QED BY <1>1, <1>2, <1>3, ViewMoves DEF DisconnectTip

LEMMA ConnectAgainStep ==
  ASSUME IndInv, NEW b \in Blocks \ {Genesis}, ConnectAgain(b)
  PROVE  IndInv'
<1>1. Anc[b] = Anc[active] \union {b} /\ active \in Blocks /\ active # NoBlock
  BY ParentFacts, TreeAssumption DEF ConnectAgain, MustConnect, Parent
<1>2. Sparing => Sound(b)
  BY <1>1 DEF IndInv, ViewSound, Running, ConnectAgain, Sound
<1> QED BY <1>1, <1>2, ViewMoves DEF ConnectAgain

LEMMA ConnectGenesisStep ==
  ASSUME IndInv, ConnectGenesis
  PROVE  IndInv'
<1>1. Genesis \in Blocks /\ Anc[Genesis] = {Genesis}
  BY TreeAssumption
<1>2. Sound(Genesis) /\ HaveData(tree, Genesis)
  BY <1>1 DEF ConnectGenesis, Sound, Readable
<1> QED BY <1>1, <1>2, ViewMoves DEF ConnectGenesis

(* Records that have not been lost can be read.                            *)
LEMMA ReadFailsStep ==
  ASSUME IndInv, ReadFails
  PROVE  IndInv'
<1> USE DEF IndInv, ReadFails
<1>1. nPowerLosses # 0
  <2> SUFFICES ASSUME nPowerLosses = 0 PROVE FALSE
    OBVIOUS
  <2>1. target \in Blocks /\ HaveData(tree, target) /\ Sound(active)
        /\ (active # NoBlock => active \in Blocks)
    BY DEF TypeOK, ViewSound, Running, Sparing, StoreOK, Switching
  <2>2. ASSUME MustDisconnect PROVE Readable(active) /\ UndoReadable(active)
    BY <2>1, <2>2, AncFacts DEF MustDisconnect, Sound, UndoReadable, NoLoss
  <2>3. ASSUME NEW b \in Blocks, MustConnect(b) PROVE Readable(b)
    BY <2>1, <2>3 DEF MustConnect, Readable, NoLoss, HaveDataTrue
  <2> QED BY <2>2, <2>3
<1>2. TypeOK'
  BY TypesUntouched DEF TypeOK, mem, bounds
<1>3. Stores'
  BY StoresUntouched
<1>4. StoreOK' /\ ChainStateSteps'
  BY DEF StoreOK, Storing, Switching, ChainStateSteps, HaveData, dbs
<1>5. DirtyInLast'
  BY DEF DirtyInLast, Running, HaveData, files, dbs, mem
<1>6. ViewSound'
  BY StoresUntouched DEF ViewSound, Running, mem, Sparing, bounds
<1>7. NoLoss'
  BY <1>1 DEF NoLoss, bounds
<1>8. FirstOK'
  <2>1. active # NoBlock
    <3> SUFFICES ASSUME active = NoBlock PROVE FALSE
      OBVIOUS
    <3>1. target = Genesis /\ Readable(Genesis)
      BY DEF StoreOK, Switching, FirstOK, OnlyGenesis, Running
    <3>2. \A b \in Blocks : MustConnect(b) => b = Genesis
      BY <3>1, TreeAssumption DEF MustConnect
    <3> QED BY <3>1, <3>2 DEF MustDisconnect
  <2> QED BY <2>1 DEF FirstOK, Running, mem, dbs
<1> QED BY <1>2, <1>3, <1>4, <1>5, <1>6, <1>7, <1>8 DEF Stores

LEMMA ActivatedStep ==
  ASSUME IndInv, Activated
  PROVE  IndInv'
<1> USE DEF IndInv, Activated
<1>1. TypeOK'
  BY TypesUntouched DEF TypeOK, mem, bounds
<1>2. Stores'
  BY StoresUntouched
<1>3. StoreOK' /\ ChainStateSteps'
  BY DEF StoreOK, Storing, Switching, ChainStateSteps, HaveData, dbs
<1>4. DirtyInLast'
  BY DEF DirtyInLast, Running, HaveData, files, dbs, mem
<1>5. ViewSound'
  BY StoresUntouched DEF ViewSound, Running, mem, Sparing, bounds
<1>6. NoLoss'
  BY StoresUntouched DEF NoLoss, OnlyGenesis, Readable, files, dbs, bounds, HaveData
<1>7. FirstOK'
  <2>1. active # NoBlock
    BY TreeAssumption DEF StoreOK, Switching
  <2> QED BY <2>1 DEF FirstOK, Running, mem, dbs
<1> QED BY <1>1, <1>2, <1>3, <1>4, <1>5, <1>6, <1>7 DEF Stores

-----------------------------------------------------------------------------
(* Storing a block                                                         *)

(* An unsynced write that keeps the entries of the indexed blocks: what    *)
(* holds of every content that may be found, holds of the new one.         *)
Extends(T) ==
  /\ T \in DBContent
  /\ \A b \in Blocks : HaveData(tree, b) => T.pos[b] = tree.pos[b]
  /\ tree.undo \intersect {b \in Blocks : HaveData(tree, b)} \subseteq T.undo
  /\ tree.last <= T.last

LEMMA WriteTreeKeepsTip ==
  ASSUME IndInv, NEW T, Extends(T), WriteTree(T),
         \A s \in Slots : blk'[s] = blk[s],
         UNCHANGED <<coins, coinsMay>>,
         blkDirty' \subseteq blkDirty, revDirty' \subseteq revDirty
  PROVE  TipRecoverable' /\ UndoAtRiskOnlyInLeftFiles' /\ GenesisFirst'
         /\ \A t \in Blocks \union {NoBlock} : Sound(t) => Sound(t)'
<1> USE DEF IndInv
<1>1. tree' = T /\ treeMay' = treeMay \union {T} /\ tree \in treeMay
  BY DEF WriteTree, TypeOK
<1>2. TipRecoverable'
  <2> SUFFICES ASSUME WriteBack, NEW c \in coinsMay \ {NoBlock}, NEW U \in treeMay \union {T},
                      NEW a \in Anc[c]
               PROVE  /\ HaveData(U, a)
                      /\ blk'[U.pos[a]] = a /\ U.pos[a] \notin blkDirty'
                      /\ a # Genesis => a \in U.undo
    BY <1>1 DEF TipRecoverable, TipDurable
  <2>1. c \in Blocks /\ a \in Blocks
    BY AncFacts DEF TypeOK
  <2>2. \A V \in treeMay : /\ HaveData(V, a)
                           /\ blk[V.pos[a]] = a /\ V.pos[a] \notin blkDirty
                           /\ V.pos[a] \in Slots
                           /\ a # Genesis => a \in V.undo
    BY <2>1 DEF TipRecoverable, TipDurable, Positions
  <2>3. CASE U \in treeMay
    BY <2>2, <2>3
  <2>4. CASE U = T
    <3>1. T.pos[a] = tree.pos[a] /\ HaveData(tree, a)
      BY <1>1, <2>1, <2>2 DEF Extends
    <3>2. a # Genesis => a \in T.undo
      BY <1>1, <2>1, <2>2 DEF Extends
    <3> QED BY <1>1, <2>2, <2>4, <3>1, <3>2 DEF HaveData
  <2> QED BY <2>3, <2>4
<1>3. UndoAtRiskOnlyInLeftFiles'
  <2> SUFFICES ASSUME WriteBack, NEW c \in coinsMay \ {NoBlock}, NEW a \in Anc[c] \intersect revDirty
               PROVE  FileOf(T, a) < T.last
    BY <1>1 DEF UndoAtRiskOnlyInLeftFiles
  <2>1. c \in Blocks /\ a \in Blocks
    BY AncFacts DEF TypeOK
  <2>2. FileOf(tree, a) < tree.last /\ HaveData(tree, a)
    BY DEF UndoAtRiskOnlyInLeftFiles, DirtyInLast
  <2>3. T.pos[a] = tree.pos[a] /\ tree.last <= T.last
    BY <2>1, <2>2 DEF Extends
  <2>4. FileOf(tree, a) \in Files /\ tree.last \in Files /\ T.last \in Files
    BY <1>1, <2>1, <2>2 DEF TypeOK, DBContent, FileOf, Positions, Slots, Extends
  <2> QED BY <2>2, <2>3, <2>4, BoundAssumption DEF FileOf, Files
<1>4. GenesisFirst'
  <2>1. HaveData(tree, Genesis) => HaveData(T, Genesis)
    BY TreeAssumption DEF Extends, HaveData
  <2> QED BY <1>1, <2>1 DEF GenesisFirst
<1>5. ASSUME NEW t \in Blocks \union {NoBlock}, Sound(t) PROVE Sound(t)'
  <2> SUFFICES ASSUME t \in Blocks, t # NoBlock, NEW a \in Anc[t]
               PROVE  /\ HaveData(T, a) /\ blk'[T.pos[a]] = a
                      /\ a # Genesis => a \in T.undo
    BY <1>1 DEF Sound, Readable
  <2>1. a \in Blocks /\ HaveData(tree, a) /\ blk[tree.pos[a]] = a
        /\ (a # Genesis => a \in tree.undo)
    BY <1>5, AncFacts DEF Sound, Readable
  <2>2. T.pos[a] = tree.pos[a] /\ tree.pos[a] \in Slots
    BY <1>1, <2>1 DEF Extends, Positions
  <2> QED BY <2>1, <2>2 DEF Extends, HaveData
<1> QED BY <1>2, <1>3, <1>4, <1>5

LEMMA FindBlockPosStep ==
  ASSUME IndInv, NEW b \in Blocks, FindBlockPos(b)
  PROVE  IndInv'
<1> USE DEF IndInv
<1> DEFINE T == [tree EXCEPT !.nSize[last'] = @ + 1]
<1>1. /\ pc \in {"idle", "init"} /\ ~HaveData(tree, b) /\ cur' = b
      /\ b # Genesis => pc = "idle" /\ HaveData(tree, Prev[b])
      /\ b = Genesis => pc = "init"
      /\ LeaveFile /\ WriteTree(T)
      /\ UNCHANGED <<blk, rev, coins, coinsMay, active, coinsTip, target, bounds>>
  BY DEF FindBlockPos, MayStore
<1>2. tree \in DBContent /\ tree \in treeMay /\ last \in Files /\ last = tree.last
  BY <1>1 DEF TypeOK, DirtyInLast, Running
<1>3. last' \in Files /\ tree.nSize[last'] \in 0 .. FileCap /\ tree.nSize[last'] < FileCap
      /\ tree.last <= last'
  <2>1. CASE Full
    <3>1. last' = last + 1 /\ last < MaxFile /\ tree.nSize[last + 1] < FileCap
      BY <1>1, <2>1 DEF FindBlockPos, LeaveFile
    <3>2. last + 1 \in Files /\ last <= last + 1
      BY <1>2, <3>1, BoundAssumption DEF Files
    <3> QED BY <1>2, <3>1, <3>2 DEF DBContent
  <2>2. CASE ~Full
    <3>1. last' = last /\ last <= last
      BY <1>1, <1>2, <2>2, BoundAssumption DEF LeaveFile, Files
    <3>2. tree.nSize[last] \in 0 .. FileCap
      BY <1>2 DEF DBContent
    <3>3. tree.nSize[last] < FileCap
      BY <2>2, <3>2, BoundAssumption DEF Full
    <3> QED BY <1>2, <3>1, <3>2, <3>3
  <2> QED BY <2>1, <2>2
<1>4. /\ T.pos = tree.pos /\ T.undo = tree.undo /\ T.last = tree.last
      /\ T.nSize = [tree.nSize EXCEPT ![last'] = @ + 1]
      /\ T.nSize[last'] = tree.nSize[last'] + 1
      /\ \A f \in Files : f # last' => T.nSize[f] = tree.nSize[f]
  BY <1>2, <1>3 DEF DBContent
<1>5. T \in DBContent
  <2>1. T.nSize \in [Files -> 0 .. FileCap]
    BY <1>2, <1>3, <1>4, BoundAssumption DEF DBContent
  <2> QED BY <1>2, <2>1 DEF DBContent
<1>6. Extends(T)
  <2>1. tree.last \in Nat
    BY <1>2, BoundAssumption DEF DBContent, Files
  <2> HIDE DEF T
  <2> QED BY <1>4, <1>5, <2>1 DEF Extends
<1>7. tree' = T /\ treeMay' = treeMay \union {T}
  BY <1>1 DEF WriteTree
<1>8. blkDirty' \subseteq blkDirty /\ revDirty' \subseteq revDirty
      /\ (last' # last => blkDirty' = {} /\ pc' = "last" /\ tree.last < last')
      /\ (last' = last => pc' = "write")
      /\ pc' \in {"last", "write"}
  <2>1. CASE Full
    <3>1. FlushBlockFile /\ last' = last + 1 /\ pc' = "last"
      BY <1>1, <2>1 DEF LeaveFile
    <3>2. blkDirty' = {} /\ revDirty' \subseteq revDirty
      BY <1>2, <3>1 DEF FlushBlockFile, BlkCommitted, RevCommitted, DirtyInLast
    <3> QED BY <1>2, <3>1, <3>2, BoundAssumption DEF Files
  <2>2. CASE ~Full
    BY <1>1, <2>2 DEF LeaveFile
  <2> QED BY <2>1, <2>2
<1> HIDE DEF T
<1>9. TipRecoverable' /\ UndoAtRiskOnlyInLeftFiles' /\ GenesisFirst'
      /\ \A t \in Blocks \union {NoBlock} : Sound(t) => Sound(t)'
  BY <1>1, <1>6, <1>8, WriteTreeKeepsTip
<1>10. TypeOK'
  BY <1>1, <1>3, <1>5, <1>7, <1>8 DEF TypeOK, bounds
<1>11. \A U \in treeMay, f \in Files : U.nSize[f] \in 0 .. FileCap /\ U.nSize[f] <= tree.nSize[f]
  BY DEF Positions, TypeOK, DBContent
<1>12. Positions'
  <2>1. \A U \in treeMay', f \in Files : U.nSize[f] <= T.nSize[f]
    BY <1>2, <1>3, <1>4, <1>7, <1>11, BoundAssumption DEF DBContent
  <2>2. \A a \in Blocks : HaveData(T, a) =>
           /\ T.pos[a] \in Slots
           /\ T.pos[a][2] <= T.nSize[FileOf(T, a)]
           /\ FileOf(T, a) <= T.last
    <3> SUFFICES ASSUME NEW a \in Blocks, HaveData(T, a)
                 PROVE  /\ T.pos[a] \in Slots
                        /\ T.pos[a][2] <= T.nSize[FileOf(T, a)]
                        /\ FileOf(T, a) <= T.last
      OBVIOUS
    <3>1. /\ tree.pos[a] \in Slots /\ tree.pos[a][2] <= tree.nSize[tree.pos[a][1]]
          /\ tree.pos[a][1] <= tree.last
      BY <1>2, <1>4 DEF Positions, HaveData, FileOf
    <3>2. tree.pos[a][1] \in Files /\ tree.pos[a][2] \in Nat
      BY <3>1, BoundAssumption DEF Slots
    <3>3. tree.nSize[tree.pos[a][1]] <= T.nSize[tree.pos[a][1]]
          /\ tree.nSize[tree.pos[a][1]] \in Nat /\ T.nSize[tree.pos[a][1]] \in Nat
      BY <1>2, <1>4, <1>5, <2>1, <1>7, <3>2 DEF DBContent
    <3> QED BY <1>4, <3>1, <3>2, <3>3 DEF FileOf
  <2> QED BY <1>7, <2>1, <2>2 DEF Positions
<1>13. DataOwned'
  BY <1>1, <1>2, <1>4, <1>7 DEF DataOwned, HaveData
<1>14. CurPos' = <<last', tree.nSize[last'] + 1>> /\ CurPos' \in Slots
  BY <1>3, <1>4, <1>7, BoundAssumption DEF CurPos, Slots
<1>15. StoreOK'
  <2>1. \A U \in treeMay', a \in Blocks : HaveData(U, a) => U.pos[a] # CurPos'
    <3> SUFFICES ASSUME NEW U \in treeMay, NEW a \in Blocks, HaveData(U, a),
                        U.pos[a] = CurPos'
                 PROVE  FALSE
      BY <1>2, <1>4, <1>7 DEF HaveData
    <3>1. U.pos[a][2] <= U.nSize[U.pos[a][1]]
      BY DEF Positions, FileOf
    <3>2. tree.nSize[last'] + 1 <= U.nSize[last']
      BY <1>14, <3>1
    <3> QED BY <1>3, <1>11, <3>2, BoundAssumption
  <2>2. tree'.pos = tree.pos
    BY <1>4, <1>7
  <2> QED BY <1>1, <1>8, <1>14, <2>1, <2>2 DEF StoreOK, Storing, Switching, HaveData
<1>16. DirtyInLast'
  BY <1>2, <1>4, <1>7, <1>8 DEF DirtyInLast, Running, HaveData
<1>17. ViewSound'
  BY <1>1, <1>9 DEF ViewSound, Running, TypeOK, Sparing, bounds
<1>18. ChainStateSteps'
  BY <1>8 DEF ChainStateSteps
<1>19. NoLoss'
  BY <1>1, <1>4, <1>7, <1>8, <1>9 DEF NoLoss, HaveDataTrue, OnlyGenesis, Readable, HaveData, bounds, TypeOK
<1>20. FirstOK'
  BY <1>1, <1>4, <1>7, <1>8 DEF FirstOK, OnlyGenesis, Running, Storing, Readable, HaveData
<1> QED BY <1>9, <1>10, <1>12, <1>13, <1>15, <1>16, <1>17, <1>18, <1>19, <1>20

LEMMA WriteLastBlockFileStep ==
  ASSUME IndInv, WriteLastBlockFile
  PROVE  IndInv'
<1> USE DEF IndInv
<1> DEFINE T == [tree EXCEPT !.last = last]
<1>1. /\ pc = "last" /\ pc' = "write" /\ WriteTree(T)
      /\ UNCHANGED <<files, coins, coinsMay, mem, cur, bounds>>
  BY DEF WriteLastBlockFile
<1>2. /\ tree \in DBContent /\ tree \in treeMay /\ last \in Files /\ tree.last \in Files
      /\ tree.last <= last /\ (tree.last = last \/ blkDirty = {})
  BY <1>1, BoundAssumption DEF TypeOK, DirtyInLast, Running, DBContent, Files
<1>3. /\ T \in DBContent /\ T.pos = tree.pos /\ T.undo = tree.undo /\ T.last = last
      /\ T.nSize = tree.nSize
  BY <1>2 DEF DBContent
<1>4. tree' = T /\ treeMay' = treeMay \union {T}
  BY <1>1 DEF WriteTree
<1> HIDE DEF T
<1>5. Extends(T)
  BY <1>2, <1>3 DEF Extends
<1>6. TipRecoverable' /\ UndoAtRiskOnlyInLeftFiles' /\ GenesisFirst'
      /\ \A t \in Blocks \union {NoBlock} : Sound(t) => Sound(t)'
  BY <1>1, <1>5, WriteTreeKeepsTip DEF files
<1>7. TypeOK'
  BY <1>1, <1>3, <1>4 DEF TypeOK, files, mem, bounds
<1>8. Positions'
  <2>1. ASSUME NEW a \in Blocks, HaveData(T, a)
        PROVE  /\ T.pos[a] \in Slots
               /\ T.pos[a][2] <= T.nSize[FileOf(T, a)]
               /\ FileOf(T, a) <= T.last
    <3>1. /\ tree.pos[a] \in Slots /\ tree.pos[a][2] <= tree.nSize[tree.pos[a][1]]
          /\ tree.pos[a][1] <= tree.last
      BY <1>2, <1>3, <2>1 DEF Positions, HaveData, FileOf
    <3>2. tree.pos[a][1] \in Files
      BY <3>1 DEF Slots
    <3>3. tree.pos[a][1] <= last
      BY <1>2, <3>1, <3>2, BoundAssumption DEF Files
    <3> QED BY <1>3, <3>1, <3>3 DEF FileOf
  <2>2. \A f \in Files : T.nSize[f] <= tree.nSize[f]
    BY <1>2, <1>3 DEF Positions
  <2> QED BY <1>3, <1>4, <2>1, <2>2 DEF Positions
<1>9. DataOwned'
  BY <1>1, <1>2, <1>3, <1>4 DEF DataOwned, HaveData, files
<1>10. CurPos' = CurPos
  BY <1>1, <1>3, <1>4 DEF CurPos, mem
<1>11. StoreOK'
  BY <1>1, <1>2, <1>3, <1>4, <1>10 DEF StoreOK, Storing, Switching, HaveData
<1>12. DirtyInLast'
  BY <1>1, <1>2, <1>3, <1>4 DEF DirtyInLast, Running, HaveData, files, mem
<1>13. ViewSound'
  BY <1>1, <1>6 DEF ViewSound, Running, TypeOK, mem, Sparing, bounds
<1>14. ChainStateSteps'
  BY <1>1 DEF ChainStateSteps
<1>15. NoLoss'
  BY <1>1, <1>3, <1>4, <1>6 DEF NoLoss, HaveDataTrue, OnlyGenesis, Readable, HaveData, bounds, TypeOK, files
<1>16. FirstOK'
  BY <1>1, <1>3, <1>4 DEF FirstOK, OnlyGenesis, Running, Storing, Readable, HaveData, files, mem
<1> QED BY <1>6, <1>7, <1>8, <1>9, <1>11, <1>12, <1>13, <1>14, <1>15, <1>16

LEMMA WriteBlockToDiskStep ==
  ASSUME IndInv, WriteBlockToDisk
  PROVE  IndInv'
<1> USE DEF IndInv, WriteBlockToDisk
<1>1. /\ cur \in Blocks /\ CurPos \in Slots /\ last = tree.last
      /\ tree \in treeMay /\ ~HaveData(tree, cur) /\ (cur # Genesis => HaveData(tree, Prev[cur]))
  BY DEF StoreOK, Storing, DirtyInLast, Running, TypeOK
<1>2. \A U \in treeMay, b \in Blocks : HaveData(U, b) => U.pos[b] # CurPos /\ U.pos[b] \in Slots
  BY DEF StoreOK, Storing, Positions
<1>3. blk' \in [Slots -> Blocks \union {NoBlock}] /\ blk'[CurPos] = cur
      /\ \A s \in Slots : s # CurPos => blk'[s] = blk[s]
  BY <1>1 DEF TypeOK
<1>4. blkDirty' \subseteq blkDirty \union {CurPos}
  BY DEF BlkCommitted
<1>5. \A U \in treeMay, b \in Blocks : HaveData(U, b) =>
         blk'[U.pos[b]] = blk[U.pos[b]] /\ (U.pos[b] \notin blkDirty => U.pos[b] \notin blkDirty')
  BY <1>2, <1>3, <1>4
<1>6. TypeOK'
  BY <1>1, <1>3, <1>4 DEF TypeOK, dbs, mem, bounds
<1>7. Positions'
  BY DEF Positions, HaveData, FileOf, dbs
<1>8. CurPos' = CurPos
  BY DEF CurPos, dbs, mem
<1>9. StoreOK'
  BY <1>1, <1>3, <1>8 DEF StoreOK, Storing, Switching, HaveData, dbs
<1>10. DirtyInLast'
  BY <1>1, <1>4 DEF DirtyInLast, Running, HaveData, CurPos, dbs, mem
<1>11. GenesisFirst'
  BY DEF GenesisFirst, HaveData, dbs
<1>12. DataOwned'
  BY <1>5 DEF DataOwned, HaveData, dbs
<1>13. ASSUME NEW t \in Blocks \union {NoBlock}, Sound(t) PROVE Sound(t)'
  BY <1>1, <1>5, <1>13, AncFacts DEF Sound, Readable, HaveData, dbs
<1>14. ViewSound'
  BY <1>13 DEF ViewSound, Running, TypeOK, mem, Sparing, bounds
<1>15. ChainStateSteps'
  BY DEF ChainStateSteps
<1>16. TipRecoverable'
  <2> SUFFICES ASSUME WriteBack, NEW c \in coinsMay \ {NoBlock}, NEW U \in treeMay, NEW a \in Anc[c]
               PROVE  /\ HaveData(U, a)
                      /\ blk'[U.pos[a]] = a /\ U.pos[a] \notin blkDirty'
                      /\ a # Genesis => a \in U.undo
    BY DEF TipRecoverable, TipDurable, dbs, HaveData
  <2>1. a \in Blocks
    BY AncFacts DEF TypeOK
  <2> QED BY <1>5, <2>1 DEF TipRecoverable, TipDurable
<1>17. UndoAtRiskOnlyInLeftFiles'
  BY DEF UndoAtRiskOnlyInLeftFiles, FileOf, dbs
<1>18. NoLoss'
  BY <1>1, <1>5, <1>13 DEF NoLoss, HaveDataTrue, OnlyGenesis, Readable, HaveData, bounds, TypeOK, dbs
<1>19. FirstOK'
  BY <1>1, <1>5 DEF FirstOK, OnlyGenesis, Running, Storing, Readable, HaveData, dbs, mem
<1> QED BY <1>6, <1>7, <1>9, <1>10, <1>11, <1>12, <1>14, <1>15, <1>16, <1>17, <1>18, <1>19

LEMMA WriteBlockIndexStep ==
  ASSUME IndInv, WriteBlockIndex
  PROVE  IndInv'
<1> USE DEF IndInv
<1> DEFINE T == [tree EXCEPT !.pos[cur] = CurPos, !.undo = @ \ {cur}]
<1>1. /\ pc = "index" /\ pc' = "choose" /\ WriteTree(T)
      /\ UNCHANGED <<files, coins, coinsMay, mem, cur, bounds>>
  BY DEF WriteBlockIndex
<1>2. /\ cur \in Blocks /\ CurPos \in Slots /\ last = tree.last
      /\ tree \in treeMay /\ ~HaveData(tree, cur) /\ (cur # Genesis => HaveData(tree, Prev[cur]))
      /\ blk[CurPos] = cur /\ tree \in DBContent
  BY <1>1 DEF StoreOK, Storing, DirtyInLast, Running, TypeOK
<1>3. /\ T \in DBContent /\ T.pos[cur] = CurPos /\ T.undo = tree.undo \ {cur}
      /\ T.last = tree.last /\ T.nSize = tree.nSize
      /\ \A b \in Blocks \ {cur} : T.pos[b] = tree.pos[b]
  BY <1>2 DEF DBContent
<1>4. tree' = T /\ treeMay' = treeMay \union {T}
  BY <1>1 DEF WriteTree
<1> HIDE DEF T
<1>5. Extends(T)
  <2>1. tree.last \in Nat
    BY <1>2, BoundAssumption DEF DBContent, Files
  <2> QED BY <1>2, <1>3, <2>1 DEF Extends
<1>6. TipRecoverable' /\ UndoAtRiskOnlyInLeftFiles' /\ GenesisFirst'
      /\ \A t \in Blocks \union {NoBlock} : Sound(t) => Sound(t)'
  BY <1>1, <1>5, WriteTreeKeepsTip DEF files
<1>7. TypeOK'
  BY <1>1, <1>3, <1>4 DEF TypeOK, files, mem, bounds
<1>8. Positions'
  <2>1. ASSUME NEW a \in Blocks, HaveData(T, a)
        PROVE  /\ T.pos[a] \in Slots
               /\ T.pos[a][2] <= T.nSize[FileOf(T, a)]
               /\ FileOf(T, a) <= T.last
    <3>1. CASE a = cur
      <4>1. T.pos[a] = <<last, tree.nSize[last]>>
        BY <1>3, <3>1 DEF CurPos
      <4>2. tree.nSize[last] <= tree.nSize[last] /\ last <= tree.last
        BY <1>2, BoundAssumption DEF DBContent, Files
      <4> QED BY <1>2, <1>3, <3>1, <4>1, <4>2 DEF FileOf
    <3>2. CASE a # cur
      BY <1>2, <1>3, <2>1, <3>2 DEF Positions, HaveData, FileOf
    <3> QED BY <3>1, <3>2
  <2>2. \A f \in Files : T.nSize[f] <= tree.nSize[f]
    BY <1>2, <1>3 DEF Positions
  <2> QED BY <1>3, <1>4, <2>1, <2>2 DEF Positions
<1>9. DataOwned'
  BY <1>1, <1>2, <1>3, <1>4 DEF DataOwned, HaveData, files
<1>10. StoreOK'
  BY <1>1 DEF StoreOK, Storing, Switching
<1>11. DirtyInLast'
  BY <1>1, <1>2, <1>3, <1>4 DEF DirtyInLast, Running, HaveData, files, mem, TypeOK
<1>12. ViewSound'
  BY <1>1, <1>6 DEF ViewSound, Running, TypeOK, mem, Sparing, bounds
<1>13. ChainStateSteps'
  BY <1>1 DEF ChainStateSteps
<1>14. active = NoBlock => OnlyGenesis'
  <2> SUFFICES ASSUME active = NoBlock, NEW b \in Blocks, HaveData(T, b)
               PROVE  b = Genesis /\ blk[T.pos[b]] = b
    BY <1>1, <1>4 DEF OnlyGenesis, Readable, files
  <2>1. cur = Genesis /\ OnlyGenesis
    BY <1>1 DEF FirstOK, Running, Storing
  <2> QED BY <1>2, <1>3, <2>1 DEF OnlyGenesis, HaveData, Readable
<1>15. NoLoss'
  <2> SUFFICES ASSUME nPowerLosses = 0
               PROVE  /\ HaveDataTrue' /\ tree'.undo \subseteq rev'
                      /\ Sound(coins)'
                      /\ \A b \in Blocks : HaveData(T, b) => \A a \in Anc[b] : HaveData(T, a)
                      /\ coins = NoBlock => OnlyGenesis'
    BY <1>1, <1>4 DEF NoLoss, bounds
  <2>1. HaveDataTrue' /\ tree'.undo \subseteq rev'
    BY <1>1, <1>2, <1>3, <1>4 DEF NoLoss, HaveDataTrue, HaveData, files
  <2>2. Sound(coins)'
    BY <1>1, <1>6 DEF NoLoss, TypeOK
  <2>3. ASSUME NEW b \in Blocks, HaveData(T, b), NEW a \in Anc[b] PROVE HaveData(T, a)
    <3>1. HaveData(T, cur) /\ \A d \in Blocks : HaveData(tree, d) => HaveData(T, d)
      BY <1>2, <1>3 DEF HaveData, Slots, NoPos, Files
    <3>2. a \in Blocks
      BY <2>3, AncFacts
    <3>3. CASE b = cur
      <4>1. CASE cur = Genesis
        BY <2>3, <3>1, <3>3, <4>1, TreeAssumption
      <4>2. CASE cur # Genesis
        <5>1. Anc[cur] = Anc[Prev[cur]] \union {cur} /\ Prev[cur] \in Blocks
          BY <1>2, <4>2, ParentFacts
        <5> QED BY <1>2, <2>3, <3>1, <3>2, <3>3, <4>2, <5>1 DEF NoLoss
      <4> QED BY <4>1, <4>2
    <3>4. CASE b # cur
      BY <1>3, <2>3, <3>1, <3>2, <3>4 DEF NoLoss, HaveData
    <3> QED BY <3>3, <3>4
  <2>4. ASSUME coins = NoBlock PROVE OnlyGenesis'
    BY <1>1, <1>14, <2>4 DEF FirstOK, Running
  <2> QED BY <2>1, <2>2, <2>3, <2>4
<1>16. FirstOK'
  BY <1>1, <1>14 DEF FirstOK, Running, Storing, mem
<1> QED BY <1>6, <1>7, <1>8, <1>9, <1>10, <1>11, <1>12, <1>13, <1>15, <1>16

-----------------------------------------------------------------------------
(* Undo data                                                               *)

LEMMA WriteUndoStep ==
  ASSUME IndInv, NEW b \in Blocks \ {Genesis}, WriteUndo(b)
  PROVE  IndInv'
<1> USE DEF IndInv, WriteUndo
<1>1. /\ b \notin tree.undo /\ HaveData(tree, b) /\ Prev[b] = active /\ active # NoBlock
      /\ tree \in treeMay /\ revDirty' \subseteq revDirty \union {b}
  BY TreeAssumption DEF Readable, MustConnect, Parent, TypeOK, RevCommitted
<1>2. \A t : Sound(t) => Sound(t)'
  BY DEF Sound, Readable, HaveData, dbs
<1>3. TypeOK'
  <2>1. rev' \in SUBSET Blocks /\ revDirty' \in SUBSET rev'
    BY <1>1 DEF TypeOK
  <2> QED BY <2>1 DEF TypeOK, dbs, mem, bounds
<1>4. Positions' /\ GenesisFirst' /\ DataOwned' /\ TipRecoverable'
  BY DEF Positions, GenesisFirst, DataOwned, TipRecoverable, TipDurable, HaveData, FileOf, dbs
<1>5. StoreOK'
  BY <1>1 DEF StoreOK, Storing, Switching, Readable, HaveData, dbs, mem
<1>6. DirtyInLast' /\ ChainStateSteps'
  BY <1>1 DEF DirtyInLast, Running, ChainStateSteps, HaveData, dbs, mem
<1>7. ViewSound'
  BY <1>2 DEF ViewSound, Running, mem, Sparing, bounds
<1>8. UndoAtRiskOnlyInLeftFiles'
  <2> SUFFICES ASSUME WriteBack, NEW c \in coinsMay \ {NoBlock}, NEW a \in Anc[c] \intersect revDirty'
               PROVE  FileOf(tree, a) < tree.last
    BY DEF UndoAtRiskOnlyInLeftFiles, dbs, FileOf
  <2>1. a # b
    BY <1>1 DEF TipRecoverable, TipDurable
  <2> QED BY <1>1, <2>1 DEF UndoAtRiskOnlyInLeftFiles
<1>9. NoLoss'
  BY <1>2 DEF NoLoss, HaveDataTrue, OnlyGenesis, Readable, HaveData, bounds, dbs
<1>10. FirstOK'
  BY <1>1 DEF FirstOK, Running, dbs, mem
<1> QED BY <1>3, <1>4, <1>5, <1>6, <1>7, <1>8, <1>9, <1>10

LEMMA WriteUndoIndexStep ==
  ASSUME IndInv, WriteUndoIndex
  PROVE  IndInv'
<1> USE DEF IndInv
<1> DEFINE T == [tree EXCEPT !.undo = @ \union {cur}]
<1>1. /\ pc = "undo" /\ pc' = "chainstate" /\ coinsTip' = cur /\ WriteTree(T)
      /\ UNCHANGED <<files, coins, coinsMay, last, active, target, cur, bounds>>
  BY DEF WriteUndoIndex, UndoEntry
<1>2. /\ cur \in Blocks \ {Genesis} /\ last = tree.last /\ tree \in treeMay
      /\ tree \in DBContent /\ Prev[cur] = active /\ Readable(cur) /\ cur \in rev
      /\ target \in Blocks /\ HaveData(tree, target) /\ active \in Blocks /\ active # NoBlock
  BY <1>1, TreeAssumption DEF StoreOK, Switching, DirtyInLast, Running, TypeOK
<1>3. /\ T \in DBContent /\ T.pos = tree.pos /\ T.undo = tree.undo \union {cur}
      /\ T.last = tree.last /\ T.nSize = tree.nSize
  BY <1>2 DEF DBContent
<1>4. tree' = T /\ treeMay' = treeMay \union {T}
  BY <1>1 DEF WriteTree
<1> HIDE DEF T
<1>5. Extends(T)
  <2>1. tree.last \in Nat
    BY <1>2, BoundAssumption DEF DBContent, Files
  <2> QED BY <1>3, <2>1 DEF Extends
<1>6. TipRecoverable' /\ UndoAtRiskOnlyInLeftFiles' /\ GenesisFirst'
      /\ \A t \in Blocks \union {NoBlock} : Sound(t) => Sound(t)'
  BY <1>1, <1>5, WriteTreeKeepsTip DEF files
<1>7. TypeOK'
  BY <1>1, <1>2, <1>3, <1>4 DEF TypeOK, files, bounds
<1>8. Positions'
  BY <1>2, <1>3, <1>4 DEF Positions, HaveData, FileOf
<1>9. DataOwned'
  BY <1>1, <1>2, <1>3, <1>4 DEF DataOwned, HaveData, files
<1>10. StoreOK'
  BY <1>1, <1>2, <1>3, <1>4 DEF StoreOK, Storing, Switching, HaveData
<1>11. DirtyInLast' /\ ChainStateSteps'
  BY <1>1, <1>2, <1>3, <1>4 DEF DirtyInLast, ChainStateSteps, Running, HaveData, files
<1>12. ViewSound'
  <2> SUFFICES ASSUME Sparing PROVE Sound(active)' /\ Sound(cur)'
    BY <1>1 DEF ViewSound, Sparing, Sound, bounds
  <2>1. active \in Blocks /\ Anc[cur] = Anc[active] \union {cur} /\ Sound(active)
    BY <1>1, <1>2, ParentFacts DEF TypeOK, ViewSound, Running
  <2>2. Sound(active)' /\ (\A a \in Anc[active] : Readable(a)' /\ (a # Genesis => a \in T.undo))
    BY <1>1, <1>2, <1>4, <1>6, <2>1 DEF Sound
  <2>3. Readable(cur)' /\ cur \in T.undo
    BY <1>1, <1>2, <1>3, <1>4 DEF Readable, HaveData, files
  <2> QED BY <1>1, <1>4, <2>1, <2>2, <2>3 DEF Sound
<1>13. NoLoss'
  BY <1>1, <1>2, <1>3, <1>4, <1>6 DEF NoLoss, HaveDataTrue, OnlyGenesis, Readable, HaveData, bounds, TypeOK, files
<1>14. FirstOK'
  BY <1>1, <1>2, TreeAssumption DEF FirstOK, Running
<1> QED BY <1>6, <1>7, <1>8, <1>9, <1>10, <1>11, <1>12, <1>13, <1>14

-----------------------------------------------------------------------------
(* WriteChainState                                                         *)

(* Contents that can no longer be found, and records that can no longer be *)
(* lost, leave the stores sound.                                           *)
LEMMA LessAtRisk ==
  ASSUME IndInv, UNCHANGED <<blk, rev, tree, coins>>,
         blkDirty' \subseteq blkDirty, revDirty' \subseteq revDirty,
         treeMay' \subseteq treeMay, coinsMay' \subseteq coinsMay
  PROVE  /\ Stores'
         /\ \A t : Sound(t) => Sound(t)'
         /\ HaveDataTrue' = HaveDataTrue
<1>1. Stores'
  BY DEF IndInv, Stores, Positions, GenesisFirst, DataOwned, TipRecoverable, TipDurable,
     UndoAtRiskOnlyInLeftFiles, HaveData, FileOf
<1>2. \A t : Sound(t) => Sound(t)'
  BY DEF Sound, Readable, HaveData
<1>3. HaveDataTrue' = HaveDataTrue
  BY DEF HaveDataTrue, HaveData
<1> QED BY <1>1, <1>2, <1>3

LEMMA SkipChainStateStep ==
  ASSUME IndInv, SkipChainState
  PROVE  IndInv'
<1> USE DEF IndInv, SkipChainState
<1>1. TypeOK'
  BY TypesUntouched DEF TypeOK, bounds
<1>2. Stores'
  BY StoresUntouched
<1>3. StoreOK' /\ ChainStateSteps'
  BY DEF StoreOK, Storing, Switching, ChainStateSteps, HaveData, dbs
<1>4. DirtyInLast'
  BY DEF DirtyInLast, Running, HaveData, files, dbs
<1>5. ViewSound'
  BY StoresUntouched DEF ViewSound, Running, Sparing, bounds
<1>6. NoLoss'
  BY StoresUntouched DEF NoLoss, OnlyGenesis, Readable, files, dbs, bounds, HaveData
<1>7. FirstOK'
  BY DEF FirstOK, Running, dbs
<1> QED BY <1>1, <1>2, <1>3, <1>4, <1>5, <1>6, <1>7 DEF Stores

LEMMA FlushFilesStep ==
  ASSUME IndInv, FlushFiles
  PROVE  IndInv'
<1> USE DEF IndInv, FlushFiles
<1>1. /\ blkDirty' = {} /\ revDirty' \subseteq revDirty
      /\ \A b \in revDirty' : FileOf(tree, b) # last
      /\ last = tree.last
  BY DEF FlushBlockFile, BlkCommitted, RevCommitted, DirtyInLast, Running
<1>2. Stores' /\ (\A t : Sound(t) => Sound(t)') /\ HaveDataTrue' = HaveDataTrue
  BY <1>1, LessAtRisk DEF dbs
<1>3. TypeOK'
  BY <1>1 DEF TypeOK, dbs, mem, bounds
<1>4. StoreOK'
  BY DEF StoreOK, Storing, Switching, HaveData, dbs, mem
<1>5. ChainStateSteps' /\ DirtyInLast'
  BY <1>1 DEF ChainStateSteps, DirtyInLast, Running, HaveData, FileOf, dbs, mem
<1>6. ViewSound'
  BY <1>2 DEF ViewSound, Running, mem, Sparing, bounds
<1>7. NoLoss'
  BY <1>2 DEF NoLoss, OnlyGenesis, Readable, dbs, bounds, HaveData
<1>8. FirstOK'
  BY DEF FirstOK, OnlyGenesis, Running, Storing, Readable, HaveData, dbs, mem
<1> QED BY <1>2, <1>3, <1>4, <1>5, <1>6, <1>7, <1>8 DEF Stores

LEMMA SyncTreeStep ==
  ASSUME IndInv, SyncTree
  PROVE  IndInv'
<1> USE DEF IndInv, SyncTree
<1>1. treeMay' = {tree} /\ tree \in treeMay
  BY DEF Synced, TypeOK
<1>2. Stores' /\ (\A t : Sound(t) => Sound(t)') /\ HaveDataTrue' = HaveDataTrue
  BY <1>1, LessAtRisk DEF files
<1>3. TypeOK'
  BY <1>1 DEF TypeOK, files, mem, bounds
<1>4. StoreOK'
  BY DEF StoreOK, Storing, Switching, HaveData, mem
<1>5. ChainStateSteps' /\ DirtyInLast'
  BY <1>1 DEF ChainStateSteps, DirtyInLast, Running, HaveData, FileOf, files, mem
<1>6. ViewSound'
  BY <1>2 DEF ViewSound, Running, mem, Sparing, bounds
<1>7. NoLoss'
  BY <1>2 DEF NoLoss, OnlyGenesis, Readable, files, bounds, HaveData
<1>8. FirstOK'
  BY DEF FirstOK, OnlyGenesis, Running, Storing, Readable, HaveData, files, mem
<1> QED BY <1>2, <1>3, <1>4, <1>5, <1>6, <1>7, <1>8 DEF Stores

(* The coins follow block files and index to disk: the view's block is one *)
(* that the synced index and the committed files hold.                     *)
LEMMA FlushCoinsStep ==
  ASSUME IndInv, FlushCoins
  PROVE  IndInv'
<1> USE DEF IndInv, FlushCoins
<1>1. coinsTip # NoBlock /\ coins \in coinsMay /\ HaveData(tree, Genesis)
  <2>1. CASE active = NoBlock
    BY <2>1, TreeAssumption DEF FirstOK, Running, TypeOK
  <2>2. CASE active # NoBlock
    <3>1. coins # NoBlock /\ coinsTip # NoBlock
      BY <2>2 DEF FirstOK, Running
    <3>2. coins \in coinsMay /\ tree \in treeMay
      BY DEF TypeOK
    <3> QED BY <3>1, <3>2 DEF GenesisFirst
  <2> QED BY <2>1, <2>2
<1>2. /\ treeMay = {tree} /\ blkDirty = {} /\ last = tree.last /\ coinsTip \in Blocks
      /\ \A b \in revDirty : FileOf(tree, b) # tree.last
      /\ Sparing => Sound(coinsTip) /\ Sound(active)
  BY <1>1 DEF ChainStateSteps, DirtyInLast, Running, TypeOK, ViewSound
<1>3. TypeOK'
  BY <1>2 DEF TypeOK, files, bounds
<1>4. Positions' /\ GenesisFirst' /\ DataOwned'
  BY <1>1, <1>2 DEF Positions, GenesisFirst, DataOwned, HaveData, FileOf, files
<1>5. \A t : Sound(t) => Sound(t)'
  BY DEF Sound, Readable, HaveData, files
<1>6. StoreOK' /\ ChainStateSteps'
  BY DEF StoreOK, Storing, Switching, ChainStateSteps, HaveData
<1>7. DirtyInLast'
  BY DEF DirtyInLast, Running, HaveData, files
<1>8. ViewSound'
  BY <1>2, <1>5 DEF ViewSound, Sparing, bounds
<1>9. TipRecoverable'
  <2> SUFFICES ASSUME WriteBack, NEW c \in (coinsMay \union {coinsTip}) \ {NoBlock}, NEW U \in treeMay,
                      NEW a \in Anc[c]
               PROVE  /\ HaveData(U, a)
                      /\ blk[U.pos[a]] = a /\ U.pos[a] \notin blkDirty
                      /\ a # Genesis => a \in U.undo
    BY DEF TipRecoverable, TipDurable, HaveData, files
  <2>1. CASE c \in coinsMay
    BY <2>1 DEF TipRecoverable, TipDurable
  <2>2. CASE c = coinsTip
    BY <1>2, <2>2 DEF Sparing, Sound, Readable
  <2> QED BY <2>1, <2>2
<1>10. UndoAtRiskOnlyInLeftFiles'
  <2> SUFFICES ASSUME NEW a \in Blocks, a \in revDirty
               PROVE  FileOf(tree, a) < tree.last
    BY AncFacts DEF UndoAtRiskOnlyInLeftFiles, FileOf, files, TypeOK
  <2>1. HaveData(tree, a) /\ FileOf(tree, a) # tree.last /\ tree \in treeMay
    BY <1>2 DEF DirtyInLast
  <2>2. FileOf(tree, a) <= tree.last /\ FileOf(tree, a) \in Files /\ tree.last \in Files
    BY <2>1 DEF Positions, FileOf, Slots, TypeOK, DBContent
  <2> QED BY <2>1, <2>2, BoundAssumption DEF Files
<1>11. NoLoss'
  <2> SUFFICES ASSUME nPowerLosses = 0 PROVE NoLoss'
    BY DEF NoLoss, bounds
  <2>1. HaveDataTrue' /\ tree'.undo \subseteq rev' /\ Sound(coins)'
    BY <1>2 DEF NoLoss, Sparing, HaveDataTrue, HaveData, files, Sound, Readable
  <2> QED BY <1>1, <2>1 DEF NoLoss, HaveData
<1>12. FirstOK'
  BY <1>1 DEF FirstOK, Running
<1> QED BY <1>3, <1>4, <1>6, <1>7, <1>8, <1>9, <1>10, <1>11, <1>12

-----------------------------------------------------------------------------
(* The end of a process, and a start                                       *)

LEMMA ShutdownStep ==
  ASSUME IndInv, Shutdown
  PROVE  IndInv'
<1> USE DEF IndInv, Shutdown
<1>1. /\ coinsTip \in Blocks /\ coinsTip # NoBlock /\ active # NoBlock /\ coins # NoBlock
      /\ tree \in treeMay /\ (Sparing => Sound(coinsTip))
      /\ tree \in DBContent /\ coins' = coinsTip
  BY DEF TypeOK, ViewSound, Running, FirstOK
<1>2. /\ WriteBack  => /\ blkDirty' = {} /\ revDirty' = {} /\ treeMay' = {tree}
                       /\ coinsMay' = {coinsTip}
      /\ ~WriteBack => /\ UNCHANGED <<blkDirty, revDirty, treeMay>>
                       /\ coinsMay' = coinsMay \union {coinsTip}
  OBVIOUS
<1>3. /\ blkDirty' \subseteq blkDirty /\ revDirty' \subseteq revDirty
      /\ treeMay' \subseteq treeMay /\ tree' \in treeMay' /\ tree' = tree
      /\ coinsMay' \subseteq coinsMay \union {coinsTip} /\ coinsTip \in coinsMay'
  BY <1>1, <1>2
<1>4. TypeOK'
  BY <1>1, <1>3 DEF TypeOK, mem, bounds
<1>5. Positions' /\ DataOwned'
  BY <1>3 DEF Positions, DataOwned, HaveData, FileOf
<1>6. GenesisFirst'
  <2>1. \A U \in treeMay : HaveData(U, Genesis)
    BY <1>1 DEF GenesisFirst, TypeOK
  <2> QED BY <1>3, <2>1 DEF GenesisFirst
<1>7. StoreOK' /\ ChainStateSteps' /\ ViewSound' /\ FirstOK'
  BY DEF StoreOK, Storing, Switching, ChainStateSteps, ViewSound, FirstOK, Running
<1>8. DirtyInLast'
  BY <1>3 DEF DirtyInLast, Running, HaveData
<1>9. TipRecoverable' /\ UndoAtRiskOnlyInLeftFiles'
  <2>1. CASE WriteBack
    <3>1. \A a \in Anc[coinsTip] : /\ HaveData(tree, a) /\ blk[tree.pos[a]] = a
                                   /\ a # Genesis => a \in tree.undo
      BY <1>1, <2>1 DEF Sparing, Sound, Readable
    <3>2. TipDurable'
      <4>1. blkDirty' = {} /\ treeMay' = {tree} /\ coinsMay' = {coinsTip} /\ blk' = blk
        BY <2>1
      <4> HIDE DEF Shutdown, IndInv
      <4> SUFFICES ASSUME NEW a \in Anc[coinsTip]
                   PROVE  /\ HaveData(tree, a) /\ blk'[tree.pos[a]] = a
                          /\ tree.pos[a] \notin blkDirty'
                          /\ a # Genesis => a \in tree.undo
        BY <4>1 DEF TipDurable
      <4> QED BY <3>1, <4>1
    <3> QED BY <1>2, <2>1, <3>2 DEF TipRecoverable, UndoAtRiskOnlyInLeftFiles
  <2>2. CASE ~WriteBack
    BY <2>2 DEF TipRecoverable, UndoAtRiskOnlyInLeftFiles
  <2> QED BY <2>1, <2>2
<1>10. NoLoss'
  BY <1>1 DEF NoLoss, Sparing, HaveDataTrue, HaveData, bounds, Sound, Readable
<1> QED BY <1>4, <1>5, <1>7, <1>8, <1>9, <1>10, <1>6

LEMMA KillStep ==
  ASSUME IndInv, Kill
  PROVE  IndInv'
<1> USE DEF IndInv, Kill
<1>1. TypeOK'
  <2>1. nKills' \in 0 .. MaxKills
    BY BoundAssumption DEF TypeOK
  <2> QED BY <2>1, TypesUntouched DEF TypeOK, mem
<1>2. Stores'
  BY StoresUntouched
<1>3. StoreOK' /\ ChainStateSteps' /\ ViewSound' /\ FirstOK'
  BY DEF StoreOK, Storing, Switching, ChainStateSteps, ViewSound, FirstOK, Running
<1>4. DirtyInLast'
  BY DEF DirtyInLast, Running, HaveData, files, dbs
<1>5. NoLoss'
  BY StoresUntouched DEF NoLoss, OnlyGenesis, Readable, files, dbs, HaveData
<1> QED BY <1>1, <1>2, <1>3, <1>4, <1>5 DEF Stores

LEMMA PowerLossStep ==
  ASSUME IndInv, PowerLoss
  PROVE  IndInv'
<1> USE DEF IndInv
<1>1. PICK lost \in SUBSET blkDirty :
         blk' = [s \in Slots |-> IF s \in lost THEN NoBlock ELSE blk[s]]
  BY DEF PowerLoss
<1>2. /\ nPowerLosses' = nPowerLosses + 1 /\ nPowerLosses < MaxPowerLosses
      /\ rev' \subseteq rev /\ blkDirty' = {} /\ revDirty' = {}
      /\ tree' \in treeMay /\ treeMay' = {tree'}
      /\ coins' \in coinsMay /\ coinsMay' = {coins'}
      /\ pc' = "down" /\ cur' = NoBlock
      /\ UNCHANGED <<mem, nKills>>
  BY DEF PowerLoss
<1>3. \A s \in Slots : blk'[s] = blk[s] \/ (s \in blkDirty /\ blk'[s] = NoBlock)
  BY <1>1
<1>4. TypeOK'
  <2>1. blk' \in [Slots -> Blocks \union {NoBlock}]
    BY <1>1 DEF TypeOK
  <2>2. nPowerLosses' \in 0 .. MaxPowerLosses
    BY <1>2, BoundAssumption DEF TypeOK
  <2>3. tree' \in DBContent /\ coins' \in Blocks \union {NoBlock} /\ rev' \in SUBSET Blocks
    BY <1>2 DEF TypeOK
  <2> QED BY <1>2, <2>1, <2>2, <2>3 DEF TypeOK, mem
<1>5. Positions'
  <2>1. \A f \in Files : tree'.nSize[f] <= tree'.nSize[f]
    BY <1>2, BoundAssumption DEF TypeOK, DBContent
  <2> QED BY <1>2, <2>1 DEF Positions
<1>6. GenesisFirst'
  BY <1>2 DEF GenesisFirst
<1>7. DataOwned'
  BY <1>2, <1>3 DEF DataOwned, Positions
<1>8. StoreOK' /\ ChainStateSteps' /\ ViewSound' /\ DirtyInLast' /\ FirstOK'
  BY <1>2 DEF StoreOK, Storing, Switching, ChainStateSteps, ViewSound, Running, DirtyInLast, FirstOK
<1>9. TipRecoverable'
  <2> SUFFICES ASSUME WriteBack, coins' # NoBlock, NEW a \in Anc[coins']
               PROVE  /\ HaveData(tree', a) /\ blk'[tree'.pos[a]] = a
                      /\ a # Genesis => a \in tree'.undo
    BY <1>2 DEF TipRecoverable, TipDurable
  <2>1. a \in Blocks
    BY <1>2, AncFacts DEF TypeOK
  <2>2. /\ HaveData(tree', a) /\ blk[tree'.pos[a]] = a /\ tree'.pos[a] \notin blkDirty
        /\ a # Genesis => a \in tree'.undo
    BY <1>2 DEF TipRecoverable, TipDurable
  <2>3. tree'.pos[a] \in Slots
    BY <1>2, <2>1, <2>2 DEF Positions
  <2> QED BY <1>3, <2>2, <2>3
<1>10. UndoAtRiskOnlyInLeftFiles'
  BY <1>2 DEF UndoAtRiskOnlyInLeftFiles
<1>11. NoLoss'
  <2>1. nPowerLosses' # 0
    BY <1>2, BoundAssumption DEF TypeOK
  <2> QED BY <2>1 DEF NoLoss
<1> QED BY <1>4, <1>5, <1>6, <1>7, <1>8, <1>9, <1>10, <1>11

LEMMA StartStep ==
  ASSUME IndInv, Start
  PROVE  IndInv'
<1> USE DEF IndInv, Start
<1>1. /\ treeMay' = {tree} /\ tree' = tree /\ tree \in treeMay
      /\ coinsMay' = {coins} /\ coins' = coins /\ coins \in coinsMay /\ coins \in Blocks /\ coins # NoBlock
  BY DEF Opened, TypeOK, TipIndexed
<1>2. Stores' /\ (\A t : Sound(t) => Sound(t)') /\ HaveDataTrue' = HaveDataTrue
  BY <1>1, LessAtRisk DEF files
<1>3. TypeOK'
  BY <1>1 DEF TypeOK, DBContent, files, bounds
<1>4. StoreOK' /\ ChainStateSteps'
  BY DEF StoreOK, Storing, Switching, ChainStateSteps
<1>5. DirtyInLast'
  BY <1>1 DEF DirtyInLast, HaveData, files
<1>6. Sparing => Sound(coins)
  <2>1. CASE WriteBack
    BY <1>1, <2>1 DEF TipRecoverable, TipDurable, Sound, Readable
  <2>2. CASE nPowerLosses = 0
    BY <2>2 DEF NoLoss
  <2> QED BY <2>1, <2>2 DEF Sparing
<1>7. ViewSound'
  BY <1>2, <1>6 DEF ViewSound, Sparing, bounds
<1>8. NoLoss'
  BY <1>1, <1>2 DEF NoLoss, OnlyGenesis, Readable, files, bounds, HaveData
<1>9. FirstOK'
  BY <1>1 DEF FirstOK, Running
<1> QED BY <1>2, <1>3, <1>4, <1>5, <1>7, <1>8, <1>9 DEF Stores

(* An empty index is found only before the first flush of the coins.       *)
LEMMA FirstStartStep ==
  ASSUME IndInv, FirstStart
  PROVE  IndInv'
<1> USE DEF IndInv, FirstStart
<1>1. /\ treeMay' = {tree} /\ tree' = tree /\ tree \in treeMay
      /\ coinsMay' = {coins} /\ coins' = coins /\ coins \in coinsMay
  BY DEF Opened, TypeOK
<1>2. \A b \in Blocks : ~HaveData(tree, b)
  BY DEF Stored
<1>3. coins = NoBlock
  BY <1>1, <1>2, TreeAssumption DEF GenesisFirst
<1>4. Stores' /\ (\A t : Sound(t) => Sound(t)') /\ HaveDataTrue' = HaveDataTrue
  BY <1>1, LessAtRisk DEF files
<1>5. TypeOK'
  BY <1>1, <1>3 DEF TypeOK, DBContent, files, bounds
<1>6. StoreOK' /\ ChainStateSteps'
  BY DEF StoreOK, Storing, Switching, ChainStateSteps
<1>7. DirtyInLast'
  BY <1>1 DEF DirtyInLast, HaveData, files
<1>8. FirstOK'
  BY <1>1, <1>2, <1>3, TreeAssumption DEF FirstOK, OnlyGenesis, Storing, HaveData
<1>9. ViewSound'
  BY <1>3 DEF ViewSound, Sound
<1>10. NoLoss'
  BY <1>1, <1>4 DEF NoLoss, OnlyGenesis, Readable, files, bounds, HaveData
<1> QED BY <1>4, <1>5, <1>6, <1>7, <1>8, <1>9, <1>10 DEF Stores

(* A node that has lost no power finds the chain it left, or only the      *)
(* genesis block, or nothing.                                              *)
LEMMA VerifiedWithoutLoss ==
  ASSUME IndInv, nPowerLosses = 0
  PROVE  Verified \/ FirstStartCut \/ (coins = NoBlock /\ Stored = {})
<1>1. CASE coins = NoBlock
  BY <1>1 DEF IndInv, NoLoss, OnlyGenesis, FirstStartCut, Stored
<1>2. CASE coins # NoBlock
  <2>1. Sound(coins) /\ tree.undo \subseteq rev /\ coins \in Blocks
    BY <1>2 DEF IndInv, NoLoss, TypeOK
  <2> QED BY <1>2, <2>1, AncFacts DEF Verified, TipIndexed, Sound, Readable, UndoReadable
<1> QED BY <1>1, <1>2

LEMMA StartRefusedStep ==
  ASSUME IndInv, StartRefused
  PROVE  IndInv'
<1> USE DEF IndInv, StartRefused
<1>1. nPowerLosses = 0 => coins = NoBlock /\ HaveData(tree, Genesis)
  BY VerifiedWithoutLoss, TreeAssumption DEF FirstStartCut, Stored
<1>2. /\ treeMay' = {tree} /\ tree' = tree /\ tree \in treeMay
      /\ coinsMay' = {coins} /\ coins' = coins /\ coins \in coinsMay
  BY DEF Opened, TypeOK
<1>3. Stores' /\ (\A t : Sound(t) => Sound(t)') /\ HaveDataTrue' = HaveDataTrue
  BY <1>2, LessAtRisk DEF files
<1>4. TypeOK'
  BY <1>2 DEF TypeOK, files, mem, bounds
<1>5. StoreOK' /\ ChainStateSteps' /\ ViewSound' /\ FirstOK'
  BY DEF StoreOK, Storing, Switching, ChainStateSteps, ViewSound, FirstOK, Running
<1>6. DirtyInLast'
  BY <1>2 DEF DirtyInLast, Running, HaveData, files
<1>7. NoLoss'
  BY <1>1, <1>2, <1>3 DEF NoLoss, OnlyGenesis, Readable, files, bounds, HaveData
<1> QED BY <1>3, <1>4, <1>5, <1>6, <1>7 DEF Stores

LEMMA Stutter ==
  ASSUME IndInv, UNCHANGED vars
  PROVE  IndInv'
<1> USE DEF IndInv, vars
<1>1. TypeOK'
  BY TypesUntouched DEF TypeOK, mem, bounds
<1>2. Stores'
  BY StoresUntouched
<1>3. StoreOK'
  <2>1. CurPos' = CurPos
    BY DEF CurPos, mem, dbs
  <2> QED BY <2>1 DEF StoreOK, Storing, Switching, Readable, HaveData, dbs, files, mem
<1>4. DirtyInLast' /\ ChainStateSteps'
  BY DEF DirtyInLast, ChainStateSteps, Running, HaveData, FileOf, files, dbs, mem
<1>5. ViewSound'
  BY StoresUntouched DEF ViewSound, Running, mem, Sparing, bounds
<1>6. NoLoss'
  BY StoresUntouched DEF NoLoss, OnlyGenesis, Readable, files, dbs, bounds, HaveData
<1>7. FirstOK'
  BY DEF FirstOK, OnlyGenesis, Running, Storing, Readable, HaveData, files, dbs, mem
<1> QED BY <1>1, <1>2, <1>3, <1>4, <1>5, <1>6, <1>7 DEF Stores

LEMMA NextIndInv == IndInv /\ [Next]_vars => IndInv'
<1> SUFFICES ASSUME IndInv, [Next]_vars PROVE IndInv'
  OBVIOUS
<1>1. ASSUME NEW b \in Blocks, FindBlockPos(b)
      PROVE  IndInv'
  BY <1>1, FindBlockPosStep
<1>2. ASSUME NEW b \in Blocks \ {Genesis}, WriteUndo(b) \/ ConnectAgain(b)
      PROVE  IndInv'
  BY <1>2, WriteUndoStep, ConnectAgainStep
<1>3. ASSUME \/ WriteLastBlockFile \/ WriteBlockToDisk \/ WriteBlockIndex
             \/ FindMostWorkChain \/ DisconnectTip \/ WriteUndoIndex
             \/ ConnectGenesis \/ ReadFails \/ Activated
      PROVE  IndInv'
  BY <1>3, WriteLastBlockFileStep, WriteBlockToDiskStep, WriteBlockIndexStep,
     FindMostWorkChainStep, DisconnectTipStep, WriteUndoIndexStep,
     ConnectGenesisStep, ReadFailsStep, ActivatedStep
<1>4. ASSUME SkipChainState \/ FlushFiles \/ SyncTree \/ FlushCoins
      PROVE  IndInv'
  BY <1>4, SkipChainStateStep, FlushFilesStep, SyncTreeStep, FlushCoinsStep
<1>5. ASSUME Shutdown \/ Kill \/ PowerLoss \/ FirstStart \/ Start \/ StartRefused
      PROVE  IndInv'
  BY <1>5, ShutdownStep, KillStep, PowerLossStep, FirstStartStep, StartStep, StartRefusedStep
<1>6. ASSUME Refused \/ UNCHANGED vars
      PROVE  IndInv'
  BY <1>6, Stutter DEF Refused
<1> QED BY <1>2, <1>3, <1>4, <1>5, <1>6, <1>1 DEF Next

-----------------------------------------------------------------------------
(* The theorems                                                            *)

(* IndInv is an invariant.                                                 *)
THEOREM Invariance == Spec => []IndInv
BY InitIndInv, NextIndInv, PTL DEF Spec

(* Every variable keeps its type; a file never holds more records than fit *)
(* under MAX_BLOCKFILE_SIZE.                                               *)
THEOREM TypeCorrect == Spec => []TypeOK
<1>1. IndInv => TypeOK
  BY DEF IndInv
<1> QED BY <1>1, Invariance, PTL

(* WriteChainState's order, block files, index, coins, keeps the coin      *)
(* database's best block on a chain that every power loss spares.          *)
THEOREM TipSurvivesPowerLoss == Spec => []TipRecoverable
<1>1. IndInv => TipRecoverable
  BY DEF IndInv
<1> QED BY <1>1, Invariance, PTL

(* No sequence of crashes makes AcceptBlock overwrite the record of a      *)
(* block that some content of the index still points to.                   *)
THEOREM NoRecordOverwritten == Spec => []DataOwned
<1>1. IndInv => DataOwned
  BY DEF IndInv
<1> QED BY <1>1, Invariance, PTL

(* Undo data below a flushed tip is at risk only in files that were left   *)
(* before the block was connected.                                         *)
THEOREM UndoRisk == Spec => []UndoAtRiskOnlyInLeftFiles
<1>1. IndInv => UndoAtRiskOnlyInLeftFiles
  BY DEF IndInv
<1> QED BY <1>1, Invariance, PTL

(* However often the process is killed, and wherever, everything the index *)
(* promises can be read and the node starts again, unless the very first   *)
(* start was cut between the index entry of the genesis block and its      *)
(* coins.                                                                  *)
THEOREM KillLosesNothing == Spec => []KillHarmless
<1>1. IndInv => KillHarmless
  <2> SUFFICES ASSUME IndInv, nPowerLosses = 0 PROVE KillHarmless
    BY DEF KillHarmless
  <2>1. pc = "refused" => FirstStartCut
    BY TreeAssumption DEF IndInv, NoLoss, OnlyGenesis, FirstStartCut, Stored
  <2> QED BY <2>1, VerifiedWithoutLoss DEF IndInv, NoLoss, KillHarmless
<1> QED BY <1>1, Invariance, PTL
=============================================================================
