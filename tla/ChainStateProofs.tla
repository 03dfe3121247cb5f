------------------------- MODULE ChainStateProofs -------------------------
(***************************************************************************)
(* Proofs about ChainState for every block tree, every classification of   *)
(* the blocks and every bound: the node follows the best valid chain it    *)
(* has stored, never condemns a valid block, and never strands an orphan.  *)
(***************************************************************************)
EXTENDS ChainState, FiniteSetTheorems, SequenceTheorems, TLAPS

-----------------------------------------------------------------------------
(* The inductive invariant                                                 *)

Bad == Invalid \union NonFinal

Activating == {"drop", "scan", "switch"}

(* Data arrives parents first, and a refused block never gets any.         *)
DataClosed ==
  /\ Genesis \in haveData
  /\ \A b \in haveData : Anc[b] \subseteq haveData
  /\ haveData \intersect (BadHeader \union BadBody \union NonFinal) = {}

(* The coin view is at a block that may become the active tip on restart.  *)
CoinsSound ==
  /\ Anc[coins] \subseteq haveData
  /\ Anc[coins] \intersect (Failed \union Invalid \union Corrupt) = {}

(* The running call knows the block it stored, and what is queued.         *)
CallOK ==
  /\ cur # NoBlock /\ pc \in Activating => cur \in haveData
  /\ mostWork # NoBlock => mostWork \in haveData
  /\ pc = "switch" => mostWork # NoBlock
  /\ pc = "idle" => vWorkQueue = << >>
  /\ \A i \in 1 .. Len(vWorkQueue) : vWorkQueue[i] \in haveData

(* A candidate that beats chainMostWork is looked at before any switch;    *)
(* only a failed chainMostWork may survive FindMostWorkChain.              *)
MostWorkChosen ==
  pc = "switch" =>
     \/ mostWork \in Failed
     \/ \A c \in setBlockIndexValid : ~Worse(mostWork, c)

(* The same of the active tip, once the activation has succeeded.          *)
ActiveIsBest ==
  (pc \in {"orphans", "idle"} /\ ~fError) =>
     \A c \in setBlockIndexValid : ~Worse(active, c)

(* Orphans are not indexed; the second map may only be behind for the      *)
(* children of the block at the head of the queue.                         *)
OrphanMaps ==
  /\ mapOrphanBlocks \intersect mapBlockIndex = {}
  /\ mapOrphanBlocks \subseteq mapOrphanBlocksByPrev
  /\ vWorkQueue = << >> => mapOrphanBlocks = mapOrphanBlocksByPrev
  /\ vWorkQueue # << >> =>
       \A o \in mapOrphanBlocksByPrev \ mapOrphanBlocks : Prev[o] = Head(vWorkQueue)

OrphansBounded ==
  /\ IsFiniteSet(mapOrphanBlocksByPrev)
  /\ Cardinality(mapOrphanBlocksByPrev) <= MaxOrphans + 1

(* An orphan whose parent is stored is due: its parent is queued, or is    *)
(* the block of the running activation.                                    *)
OrphansDue ==
  ~fError =>
    \A o \in mapOrphanBlocks : Prev[o] \in haveData =>
       \/ \E i \in 1 .. Len(vWorkQueue) : vWorkQueue[i] = Prev[o]
       \/ pc \in Activating /\ cur = Prev[o]

IndInv ==
  /\ TypeOK
  /\ CandidatesComplete
  /\ NoFailedCandidate
  /\ FailedIsInvalid
  /\ ActiveChainSound
  /\ DataClosed
  /\ CoinsSound
  /\ CallOK
  /\ MostWorkChosen
  /\ ActiveIsBest
  /\ OrphanMaps
  /\ OrphansBounded
  /\ OrphansDue

-----------------------------------------------------------------------------
(* Facts about the tree                                                    *)

(* A block is among its own ancestors, and its parent's are among its own. *)
LEMMA ParentFacts ==
  ASSUME NEW b \in Blocks \ {Genesis}
  PROVE  /\ Prev[b] \in Blocks
         /\ Prev[b] \in Anc[b]
         /\ b \in Anc[b]
         /\ b \notin Anc[Prev[b]]
         /\ Anc[b] = Anc[Prev[b]] \union {b}
<1>1. Prev[b] \in Blocks
  BY TreeAssumption
<1>2. Anc[b] = Anc[Prev[b]] \union {b} /\ b \notin Anc[Prev[b]]
  BY TreeAssumption
<1>3. Prev[b] \in Anc[Prev[b]]
  BY <1>1, TreeAssumption
<1> QED BY <1>1, <1>2, <1>3

LEMMA AncFacts ==
  ASSUME NEW b \in Blocks
  PROVE  /\ b \in Anc[b]
         /\ Anc[b] \subseteq Blocks
         /\ \A c \in Anc[b] : Anc[c] \subseteq Anc[b]
BY TreeAssumption

(* Two blocks that are ancestors of each other are the same block.         *)
LEMMA AncAntisymmetric ==
  ASSUME NEW c \in Blocks, NEW d \in Blocks, c \in Anc[d], d \in Anc[c]
  PROVE  c = d
<1>1. CASE d = Genesis
  BY <1>1, TreeAssumption
<1>2. CASE d # Genesis
  <2> SUFFICES ASSUME c # d PROVE FALSE
    OBVIOUS
  <2>1. c \in Anc[Prev[d]]
    BY <1>2, ParentFacts
  <2>2. Anc[c] \subseteq Anc[Prev[d]]
    BY <1>2, <2>1, ParentFacts, AncFacts
  <2> QED BY <1>2, <2>2, ParentFacts
<1> QED BY <1>1, <1>2

(* Genesis is never failed, since no rule is violated below it.            *)
LEMMA GenesisNeverFails ==
  ASSUME FailedIsInvalid
  PROVE  Genesis \notin Failed
BY TreeAssumption, KindAssumption DEF FailedIsInvalid

-----------------------------------------------------------------------------
(* Init                                                                    *)

LEMMA InitIndInv == Init => IndInv
<1> SUFFICES ASSUME Init PROVE IndInv
  OBVIOUS
<1> USE DEF Init, Failed
<1>1. TypeOK
  <2>1. nSequenceId \in [Blocks -> Nat]
    OBVIOUS
  <2>2. 0 \in 0 .. MaxRestarts /\ 0 \in 0 .. MaxErrors
    BY BoundAssumption
  <2>3. vWorkQueue \in Seq(Blocks)
    OBVIOUS
  <2> QED BY <2>1, <2>2, <2>3, TreeAssumption DEF TypeOK
<1>2. CandidatesComplete /\ NoFailedCandidate /\ FailedIsInvalid
  BY DEF CandidatesComplete, NoFailedCandidate, FailedIsInvalid
<1>3. ActiveChainSound /\ DataClosed /\ CoinsSound
  BY TreeAssumption, KindAssumption DEF ActiveChainSound, DataClosed, CoinsSound
<1>4. CallOK /\ MostWorkChosen
  BY DEF CallOK, MostWorkChosen, Activating
<1>5. ActiveIsBest
  BY TreeAssumption, WorkAssumption DEF ActiveIsBest, Worse
<1>6. OrphanMaps /\ OrphansDue
  BY DEF OrphanMaps, OrphansDue
<1>7. OrphansBounded
  BY FS_EmptySet, BoundAssumption DEF OrphansBounded
<1> QED BY <1>1, <1>2, <1>3, <1>4, <1>5, <1>6, <1>7 DEF IndInv

-----------------------------------------------------------------------------
(* AcceptBlock: what it does to the index and the flags, whoever calls it  *)

IndexInv ==
  /\ CandidatesComplete
  /\ NoFailedCandidate
  /\ FailedIsInvalid
  /\ ActiveChainSound
  /\ DataClosed
  /\ CoinsSound
  /\ MostWorkChosen
  /\ ActiveIsBest

(* A refused block, marked or not, leaves everything else as it was.       *)
LEMMA RefuseIndex ==
  ASSUME IndInv, NEW b \in Blocks \ {Genesis},
         pc \in {"idle", "orphans"}, b \notin mapBlockIndex,
         RefuseHeader(b) \/ RefuseBody(b) \/ RefuseNonFinal(b) \/ StoreFails(b),
         UNCHANGED chains
  PROVE  IndexInv'
<1> USE DEF IndInv
<1>1. haveData' = haveData /\ setBlockIndexValid' = setBlockIndexValid
  BY DEF RefuseHeader, RefuseBody, RefuseNonFinal, StoreFails, index, flags
<1>2. /\ Failed' \subseteq Failed \union {b}
      /\ Failed \subseteq Failed'
      /\ b \in Failed' => b \in NonFinal \/ b \in Failed
  BY DEF RefuseHeader, RefuseBody, RefuseNonFinal, StoreFails, index, flags, Failed
<1>3. b \notin haveData /\ setBlockIndexValid \subseteq haveData /\ haveData \subseteq Blocks
  BY DEF TypeOK
<1>4. pc' = "orphans" /\ (fError => fError')
  BY DEF RefuseHeader, RefuseBody, RefuseNonFinal, StoreFails, index, flags
<1>5. \A c \in haveData : nSequenceId'[c] = nSequenceId[c]
  BY <1>3 DEF RefuseHeader, RefuseBody, RefuseNonFinal, StoreFails, index, flags,
              AddToBlockIndex, TypeOK
<1>6. active' = active /\ coins' = coins /\ mostWork' = mostWork
  BY DEF chains
<1>7. active \in haveData /\ coins \in haveData
  BY AncFacts DEF TypeOK, ActiveChainSound, CoinsSound
<1>8. CandidatesComplete' /\ NoFailedCandidate'
  BY <1>1, <1>2, <1>3 DEF CandidatesComplete, NoFailedCandidate
<1>9. FailedIsInvalid'
  BY <1>2, AncFacts DEF FailedIsInvalid
<1>10. ActiveChainSound' /\ CoinsSound' /\ DataClosed'
  BY <1>1, <1>2, <1>3, <1>4, <1>6 DEF ActiveChainSound, CoinsSound, DataClosed
<1>11. MostWorkChosen'
  BY <1>4 DEF MostWorkChosen
<1>12. ActiveIsBest'
  BY <1>1, <1>3, <1>4, <1>5, <1>6, <1>7 DEF ActiveIsBest, Worse
<1> QED BY <1>8, <1>9, <1>10, <1>11, <1>12 DEF IndexInv

(* A stored block becomes a candidate, since a new entry has not failed.   *)
LEMMA StoreIndex ==
  ASSUME IndInv, NEW b \in Blocks \ {Genesis},
         b \notin mapBlockIndex, Prev[b] \in haveData,
         Store(b), UNCHANGED chains
  PROVE  IndexInv'
<1> USE DEF IndInv
<1>1. b \notin Failed /\ Failed' = Failed
  BY DEF TypeOK, Failed, Store
<1>2. /\ haveData' = haveData \union {b}
      /\ setBlockIndexValid' = setBlockIndexValid \union {b}
      /\ pc' = "drop" /\ fError' = fError
  BY <1>1 DEF Store, DataAfterStore, CandidatesAfterStore
<1>3. active' = active /\ coins' = coins /\ mostWork' = mostWork
  BY DEF chains
<1>4. CandidatesComplete' /\ NoFailedCandidate' /\ FailedIsInvalid'
  BY <1>1, <1>2 DEF CandidatesComplete, NoFailedCandidate, FailedIsInvalid
<1>5. ActiveChainSound' /\ CoinsSound'
  BY <1>1, <1>2, <1>3 DEF ActiveChainSound, CoinsSound
<1>6. DataClosed'
  <2>1. Anc[b] = Anc[Prev[b]] \union {b}
    BY ParentFacts
  <2>2. b \notin BadHeader \union BadBody \union NonFinal
    BY DEF Store
  <2> QED BY <1>2, <2>1, <2>2 DEF DataClosed
<1>7. MostWorkChosen' /\ ActiveIsBest'
  BY <1>2 DEF MostWorkChosen, ActiveIsBest
<1> QED BY <1>4, <1>5, <1>6, <1>7 DEF IndexInv

(* Either way the entries stay typed, and the block it names has data when *)
(* the activation runs.                                                    *)
LEMMA AcceptTypes ==
  ASSUME IndInv, NEW b \in Blocks \ {Genesis},
         b \notin mapBlockIndex, AcceptBlock(b),
         mapOrphanBlocks' \subseteq mapOrphanBlocks,
         mapOrphanBlocksByPrev' = mapOrphanBlocksByPrev,
         vWorkQueue' = vWorkQueue
  PROVE  TypeOK'
<1> USE DEF IndInv, TypeOK
<1>1. /\ mapBlockIndex' \in SUBSET Blocks /\ mapBlockIndex \subseteq mapBlockIndex'
      /\ nSequenceId' \in [Blocks -> Nat] /\ nBlockSequenceId' \in Nat
  <2>1. AddToBlockIndex(b) \/ UNCHANGED <<mapBlockIndex, nSequenceId, nBlockSequenceId>>
    BY DEF AcceptBlock, RefuseHeader, RefuseBody, RefuseNonFinal, StoreFails, Store, index
  <2>2. CASE AddToBlockIndex(b)
    BY <2>2 DEF AddToBlockIndex
  <2>3. CASE UNCHANGED <<mapBlockIndex, nSequenceId, nBlockSequenceId>>
    BY <2>3
  <2> QED BY <2>1, <2>2, <2>3
<1>2. haveData' \subseteq mapBlockIndex' /\ setBlockIndexValid' \subseteq haveData'
  BY DEF AcceptBlock, RefuseHeader, RefuseBody, RefuseNonFinal, StoreFails, Store,
         index, flags, AddToBlockIndex, DataAfterStore, CandidatesAfterStore
<1>3. failedValid' \subseteq mapBlockIndex' /\ failedChild' \subseteq mapBlockIndex'
  BY <1>1 DEF AcceptBlock, RefuseHeader, RefuseBody, RefuseNonFinal, StoreFails, Store,
         index, flags, AddToBlockIndex
<1>4. pc' \in {"drop", "orphans"} /\ nErrors' \in 0 .. MaxErrors
  BY BoundAssumption
  DEF AcceptBlock, RefuseHeader, RefuseBody, RefuseNonFinal, StoreFails, Store
<1>6. fError' \in BOOLEAN
  BY Zenon
  DEF AcceptBlock, RefuseHeader, RefuseBody, RefuseNonFinal, StoreFails, Store
<1>5. /\ cur' = b /\ active' = active /\ coins' = coins /\ mostWork' = mostWork
      /\ nRestarts' = nRestarts
  BY DEF AcceptBlock, chains
<1> QED BY <1>1, <1>2, <1>3, <1>4, <1>5, <1>6

LEMMA AcceptCall ==
  ASSUME IndInv, NEW b \in Blocks \ {Genesis},
         b \notin mapBlockIndex, AcceptBlock(b), vWorkQueue' = vWorkQueue
  PROVE  CallOK'
<1> USE DEF IndInv
<1>1. pc' = "orphans" \/ (pc' = "drop" /\ b \in haveData')
  BY DEF AcceptBlock, RefuseHeader, RefuseBody, RefuseNonFinal, StoreFails, Store,
         DataAfterStore
<1>2. haveData \subseteq haveData'
  BY DEF AcceptBlock, RefuseHeader, RefuseBody, RefuseNonFinal, StoreFails, Store,
         DataAfterStore, index
<1>3. cur' = b /\ mostWork' = mostWork
  BY DEF AcceptBlock, chains
<1> QED BY <1>1, <1>2, <1>3 DEF CallOK, Activating

(* Where new data can come from: only the accepted block, whose activation *)
(* then runs.                                                              *)
LEMMA AcceptData ==
  ASSUME NEW b, AcceptBlock(b)
  PROVE  /\ cur' = b
         /\ fError => fError'
         /\ \/ haveData' = haveData
            \/ haveData' = haveData \union {b} /\ pc' = "drop"
BY DEF AcceptBlock, RefuseHeader, RefuseBody, RefuseNonFinal, StoreFails, Store,
       DataAfterStore, index

LEMMA AcceptIndexed ==
  ASSUME NEW b, AcceptBlock(b)
  PROVE  mapBlockIndex' \subseteq mapBlockIndex \union {b}
BY DEF AcceptBlock, RefuseHeader, RefuseBody, RefuseNonFinal, StoreFails, Store,
       AddToBlockIndex, index

LEMMA AcceptIndex ==
  ASSUME IndInv, NEW b \in Blocks \ {Genesis},
         pc \in {"idle", "orphans"}, b \notin mapBlockIndex, Prev[b] \in haveData,
         AcceptBlock(b)
  PROVE  IndexInv'
BY RefuseIndex, StoreIndex DEF AcceptBlock

-----------------------------------------------------------------------------
(* ProcessBlock                                                            *)

LEMMA ProcessBlockStep ==
  ASSUME IndInv, NEW b \in Blocks \ {Genesis}, ProcessBlock(b)
  PROVE  IndInv'
<1> USE DEF IndInv
<1>1. /\ AcceptBlock(b) /\ pc = "idle" /\ b \notin mapBlockIndex
      /\ b \notin mapOrphanBlocks /\ Prev[b] \in haveData
      /\ UNCHANGED <<mapOrphanBlocks, mapOrphanBlocksByPrev, vWorkQueue>>
  BY DEF ProcessBlock, Known, MissingParent, orphan
<1>2. TypeOK' /\ CallOK' /\ IndexInv'
  BY <1>1, AcceptTypes, AcceptCall, AcceptIndex
<1>3. OrphanMaps' /\ OrphansBounded'
  BY <1>1, AcceptIndexed DEF OrphanMaps, OrphansBounded
<1>4. OrphansDue'
  <2>1. vWorkQueue = << >> /\ Len(vWorkQueue) = 0
    BY <1>1 DEF CallOK
  <2>2. ~fError => \A o \in mapOrphanBlocks : Prev[o] \notin haveData
    BY <1>1, <2>1 DEF OrphansDue, Activating
  <2> QED BY <1>1, <2>2, AcceptData DEF OrphansDue, Activating
<1> QED BY <1>2, <1>3, <1>4 DEF IndexInv

(* Keeping an orphan: a leaf is dropped first when the limit is exceeded.  *)
LEMMA ProcessOrphanStep ==
  ASSUME IndInv, NEW b \in Blocks \ {Genesis}, ProcessOrphan(b)
  PROVE  IndInv'
<1> USE DEF IndInv
<1>1. PICK gone \in Pruned :
        /\ mapOrphanBlocks' = (mapOrphanBlocks \ gone) \union {b}
        /\ mapOrphanBlocksByPrev' = (mapOrphanBlocksByPrev \ gone) \union {b}
  BY DEF ProcessOrphan
<1>2. /\ pc = "idle" /\ vWorkQueue = << >> /\ b \notin mapBlockIndex
      /\ Prev[b] \notin haveData
      /\ UNCHANGED <<index, flags, chains, vWorkQueue, pc, cur, fError, bounds>>
  BY DEF ProcessOrphan, Known, MissingParent, CallOK
<1>3. TypeOK'
  BY <1>1, <1>2 DEF TypeOK, index, flags, chains, bounds
<1>4. IndexInv' /\ CallOK'
  BY <1>2 DEF IndexInv, CandidatesComplete, NoFailedCandidate, FailedIsInvalid, Failed,
     ActiveChainSound, DataClosed, CoinsSound, CallOK, MostWorkChosen, ActiveIsBest,
     Worse, Activating, index, flags, chains
<1>5. OrphanMaps'
  BY <1>1, <1>2 DEF OrphanMaps, index
<1>6. OrphansDue'
  BY <1>1, <1>2 DEF OrphansDue, index, Activating
<1>7. OrphansBounded'
  <2> DEFINE S == mapOrphanBlocksByPrev
             T == S \ gone
  <2>1. IsFiniteSet(S) /\ Cardinality(S) \in Nat /\ Cardinality(S) <= MaxOrphans + 1
    BY FS_CardinalityType DEF OrphansBounded
  <2>2. IsFiniteSet(T) /\ Cardinality(T) \in Nat /\ Cardinality(T) <= MaxOrphans
    <3>1. CASE OrphanLimitExceeded
      <4>1. PICK o \in S : gone = {o}
        BY <3>1 DEF Pruned, OrphanLeaves
      <4>2. T = S \ {o}
        BY <4>1
      <4>3. IsFiniteSet(S \ {o}) /\ Cardinality(S \ {o}) = Cardinality(S) - 1
        BY <2>1, <4>1, FS_RemoveElement
      <4>4. IsFiniteSet(T) /\ Cardinality(T) = Cardinality(S) - 1
        BY <4>2, <4>3, Zenon
      <4>5. Cardinality(T) \in Nat
        BY <4>4, FS_CardinalityType
      <4> HIDE DEF S, T
      <4> QED BY <2>1, <4>4, <4>5, BoundAssumption
    <3>2. CASE ~OrphanLimitExceeded
      <4>1. T = S
        BY <3>2 DEF Pruned
      <4>2. Cardinality(S) <= MaxOrphans
        BY <3>2, <2>1, BoundAssumption DEF OrphanLimitExceeded
      <4> QED BY <2>1, <4>1, <4>2, Zenon
    <3> QED BY <3>1, <3>2
  <2>3. /\ IsFiniteSet(T \union {b})
        /\ Cardinality(T \union {b}) =
             IF b \in T THEN Cardinality(T) ELSE Cardinality(T) + 1
    BY <2>2, FS_AddElement
  <2>4. mapOrphanBlocksByPrev' = T \union {b}
    BY <1>1
  <2> HIDE DEF S, T
  <2>5. Cardinality(T \union {b}) <= MaxOrphans + 1
    BY <2>2, <2>3, BoundAssumption
  <2> QED BY <2>3, <2>4, <2>5, Zenon DEF OrphansBounded
<1> QED BY <1>3, <1>4, <1>5, <1>6, <1>7 DEF IndexInv

-----------------------------------------------------------------------------
(* FindMostWorkChain                                                       *)

(* Steps that leave the orphans alone and stay within the activation.      *)
OrphanInv == OrphanMaps /\ OrphansBounded /\ OrphansDue

LEMMA OrphansUntouched ==
  ASSUME IndInv, UNCHANGED <<mapBlockIndex, haveData, orphan, cur>>,
         \/ fError'
         \/ fError' = fError /\ (pc \in Activating => pc' \in Activating)
  PROVE  OrphanInv'
BY DEF IndInv, OrphanInv, OrphanMaps, OrphansBounded, OrphansDue, orphan

LEMMA DropFailedTipStep ==
  ASSUME IndInv, DropFailedTip
  PROVE  IndInv'
<1> USE DEF IndInv, DropFailedTip
<1>1. mostWork \in haveData /\ mostWork \in Blocks /\ mostWork # Genesis
  BY GenesisNeverFails DEF CallOK, TypeOK
<1>2. Prev[mostWork] \in haveData /\ Prev[mostWork] \in Blocks
  BY <1>1, ParentFacts DEF DataClosed
<1>3. TypeOK'
  BY <1>2 DEF TypeOK, index, orphan, bounds
<1>4. Failed' = Failed
  BY DEF Failed
<1>5. CandidatesComplete' /\ NoFailedCandidate' /\ FailedIsInvalid'
  BY <1>4 DEF CandidatesComplete, NoFailedCandidate, FailedIsInvalid, index
<1>6. ActiveChainSound' /\ CoinsSound' /\ DataClosed'
  BY <1>4 DEF ActiveChainSound, CoinsSound, DataClosed, index
<1>7. CallOK'
  BY <1>2, TreeAssumption DEF CallOK, Activating, index, orphan
<1>8. MostWorkChosen' /\ ActiveIsBest'
  BY DEF MostWorkChosen, ActiveIsBest
<1>9. OrphanInv'
  BY OrphansUntouched DEF index, Activating
<1> QED BY <1>3, <1>5, <1>6, <1>7, <1>8, <1>9 DEF OrphanInv

LEMMA TipAcceptableStep ==
  ASSUME IndInv, TipAcceptable
  PROVE  IndInv'
<1> USE DEF IndInv, TipAcceptable
<1>1. TypeOK'
  BY DEF TypeOK, index, flags, chains, orphan, bounds
<1>2. /\ CandidatesComplete' /\ NoFailedCandidate' /\ FailedIsInvalid'
      /\ ActiveChainSound' /\ CoinsSound' /\ DataClosed'
  BY DEF CandidatesComplete, NoFailedCandidate, FailedIsInvalid, Failed,
         ActiveChainSound, CoinsSound, DataClosed, index, flags, chains
<1>3. CallOK' /\ MostWorkChosen' /\ ActiveIsBest'
  BY DEF CallOK, MostWorkChosen, ActiveIsBest, Activating, index, chains, orphan
<1>4. OrphanInv'
  BY OrphansUntouched DEF index, Activating
<1> QED BY <1>1, <1>2, <1>3, <1>4 DEF OrphanInv

(* The blocks above a failed one have a failed ancestor, hence a culprit.  *)
LEMMA RejectCandidateStep ==
  ASSUME IndInv, NEW b \in Blocks, RejectCandidate(b)
  PROVE  IndInv'
<1> USE DEF IndInv, RejectCandidate
<1>1. b \in haveData /\ Walk(b) \subseteq haveData /\ haveData \subseteq mapBlockIndex
      /\ mapBlockIndex \subseteq Blocks
  BY DEF IsBest, Walk, TypeOK, DataClosed
<1>2. AboveFailed(b) \subseteq Walk(b)
  BY DEF AboveFailed
<1>3. Failed' = Failed \union AboveFailed(b)
  BY DEF Failed
<1>4. setBlockIndexValid' = setBlockIndexValid \ AboveFailed(b)
  BY DEF CandidatesAfterReject
<1>5. TypeOK'
  BY <1>1, <1>2, <1>4 DEF TypeOK, index, chains, orphan, bounds
<1>6. CandidatesComplete' /\ NoFailedCandidate'
  BY <1>3, <1>4 DEF CandidatesComplete, NoFailedCandidate, index
<1>7. FailedIsInvalid'
  <2>1. PICK d \in Walk(b) \intersect Failed : TRUE
    OBVIOUS
  <2>2. \A c \in AboveFailed(b) : d \in Anc[c]
    BY <2>1 DEF AboveFailed
  <2>3. \A c \in AboveFailed(b) : Anc[d] \subseteq Anc[c]
    BY <1>1, <1>2, <2>2, AncFacts
  <2>4. Anc[d] \intersect (Invalid \union NonFinal) # {}
    BY <2>1 DEF FailedIsInvalid
  <2> QED BY <1>3, <2>3, <2>4 DEF FailedIsInvalid
<1>8. ActiveChainSound'
  BY <1>2, <1>3 DEF ActiveChainSound, Walk, index, chains
<1>9. CoinsSound'
  <2>1. \A c \in Anc[coins] : c \notin AboveFailed(b)
    <3> SUFFICES ASSUME NEW c \in Anc[coins], c \in AboveFailed(b) PROVE FALSE
      OBVIOUS
    <3>1. PICK d \in Walk(b) \intersect Failed : TRUE
      OBVIOUS
    <3>2. d \in Anc[c]
      BY <3>1 DEF AboveFailed
    <3>3. d \in Anc[coins]
      BY <3>2, AncFacts DEF TypeOK
    <3> QED BY <3>1, <3>3 DEF CoinsSound
  <2> QED BY <1>3, <2>1 DEF CoinsSound, index, chains
<1>10. DataClosed' /\ CallOK' /\ MostWorkChosen' /\ ActiveIsBest'
  BY DEF DataClosed, CallOK, MostWorkChosen, ActiveIsBest, Activating,
         index, chains, orphan
<1>11. OrphanInv'
  BY OrphansUntouched DEF index, Activating
<1> QED BY <1>5, <1>6, <1>7, <1>8, <1>9, <1>10, <1>11 DEF OrphanInv

(* A chainMostWork that is kept although the best candidate does not beat  *)
(* it is that candidate, or has failed.                                    *)
LEMMA ChooseCandidateStep ==
  ASSUME IndInv, NEW b \in Blocks, ChooseCandidate(b)
  PROVE  IndInv'
<1> USE DEF IndInv, ChooseCandidate
<1>1. b \in haveData /\ b \in setBlockIndexValid
  BY DEF IsBest, TypeOK
<1>2. mostWork' \in haveData /\ mostWork' # NoBlock /\ mostWork' \in Blocks
  BY <1>1, TreeAssumption DEF Improves, CallOK, TypeOK
<1>3. TypeOK'
  BY <1>2 DEF TypeOK, index, flags, orphan, bounds
<1>4. /\ CandidatesComplete' /\ NoFailedCandidate' /\ FailedIsInvalid'
      /\ ActiveChainSound' /\ CoinsSound' /\ DataClosed'
  BY DEF CandidatesComplete, NoFailedCandidate, FailedIsInvalid, Failed,
         ActiveChainSound, CoinsSound, DataClosed, index, flags
<1>5. CallOK' /\ ActiveIsBest'
  BY <1>2 DEF CallOK, ActiveIsBest, Activating, index, orphan
<1>6. MostWorkChosen'
  <2>1. Failed' = Failed /\ setBlockIndexValid' = setBlockIndexValid
        /\ nSequenceId' = nSequenceId
    BY DEF Failed, flags, index
  <2>2. CASE Improves(b)
    BY <2>1, <2>2 DEF MostWorkChosen, IsBest, Worse
  <2>3. CASE ~Improves(b) /\ mostWork \in Failed
    BY <2>1, <2>3 DEF MostWorkChosen
  <2>4. CASE ~Improves(b) /\ mostWork \notin Failed
    <3>1. mostWork \in setBlockIndexValid /\ mostWork \in Blocks
      BY <1>2, <2>4 DEF CandidatesComplete, CallOK, Improves, TypeOK
    <3>2. ~Worse(mostWork, b) /\ ~Worse(b, mostWork)
      BY <2>4, <3>1 DEF Improves, IsBest
    <3>3. mostWork = b
      BY <3>1, <3>2, WorkAssumption DEF Worse, TypeOK
    <3> QED BY <2>1, <2>4, <3>3 DEF MostWorkChosen, IsBest, Worse
  <2> QED BY <2>2, <2>3, <2>4
<1>7. OrphanInv'
  BY OrphansUntouched DEF index, Activating
<1> QED BY <1>3, <1>4, <1>5, <1>6, <1>7 DEF OrphanInv

-----------------------------------------------------------------------------
(* ActivateBestChain                                                       *)

(* The next block towards chainMostWork is stored; if ConnectBlock accepts *)
(* it, it cannot have failed, for the culprit would be below it, in the    *)
(* active chain.                                                           *)
LEMMA ConnectSound ==
  ASSUME IndInv, NEW b \in Blocks, pc = "switch", MustConnect(b)
  PROVE  /\ b \in haveData /\ Anc[b] \subseteq haveData
         /\ Anc[b] = Anc[active] \union {b} /\ b # Genesis
         /\ b \notin Invalid \union Corrupt =>
              Anc[b] \intersect (Failed \union Invalid \union Corrupt) = {}
<1> USE DEF IndInv
<1>1. mostWork \in haveData /\ b \in Anc[mostWork] /\ b # Genesis /\ Prev[b] = active
  BY DEF MustConnect, CallOK
<1>2. b \in haveData /\ Anc[b] \subseteq haveData
  BY <1>1 DEF DataClosed
<1>3. Anc[b] = Anc[active] \union {b}
  BY <1>1, ParentFacts
<1>4. ASSUME b \notin Invalid \union Corrupt
      PROVE  Anc[b] \intersect (Failed \union Invalid \union Corrupt) = {}
  <2>1. Anc[b] \intersect Bad = {}
    BY <1>2, <1>3, <1>4 DEF ActiveChainSound, DataClosed, Bad
  <2>2. b \notin Failed
    BY <2>1 DEF FailedIsInvalid, Bad
  <2> QED BY <1>3, <1>4, <2>2 DEF ActiveChainSound
<1> QED BY <1>1, <1>2, <1>3, <1>4

LEMMA DisconnectSound ==
  ASSUME IndInv, pc = "switch", MustDisconnect
  PROVE  /\ active # Genesis /\ Prev[active] \in Blocks
         /\ Anc[Prev[active]] \subseteq Anc[active]
<1> USE DEF IndInv
<1>1. active \in Blocks /\ mostWork \in Blocks
  BY DEF TypeOK, CallOK
<1>2. active # Genesis
  BY <1>1, TreeAssumption DEF MustDisconnect
<1> QED BY <1>1, <1>2, ParentFacts

(* A step that moves the tip, and the coin view with it, to a sound block. *)
LEMMA MoveTip ==
  ASSUME IndInv, NEW t \in Blocks, pc = "switch",
         Anc[t] \subseteq haveData,
         Anc[t] \intersect (Failed \union Invalid \union Corrupt) = {},
         active' = t, coins' = t,
         UNCHANGED <<index, flags, mostWork, orphan, pc, cur, fError, bounds>>
  PROVE  IndInv'
<1> USE DEF IndInv
<1>1. TypeOK'
  BY DEF TypeOK, index, flags, orphan, bounds
<1>2. Failed' = Failed
  BY DEF Failed, flags
<1>3. CandidatesComplete' /\ NoFailedCandidate' /\ FailedIsInvalid' /\ DataClosed'
  BY <1>2 DEF CandidatesComplete, NoFailedCandidate, FailedIsInvalid, DataClosed,
     index, flags
<1>4. ActiveChainSound' /\ CoinsSound'
  BY <1>2 DEF ActiveChainSound, CoinsSound, index
<1>5. CallOK' /\ MostWorkChosen' /\ ActiveIsBest'
  BY <1>2 DEF CallOK, MostWorkChosen, ActiveIsBest, Activating, Worse,
     index, flags, orphan
<1>6. OrphanInv'
  BY OrphansUntouched DEF index, Activating
<1> QED BY <1>1, <1>3, <1>4, <1>5, <1>6 DEF OrphanInv

LEMMA DisconnectTipStep ==
  ASSUME IndInv, DisconnectTip
  PROVE  IndInv'
<1>1. /\ Prev[active] \in Blocks /\ Anc[Prev[active]] \subseteq Anc[active]
      /\ active' = Prev[active] /\ coins' = Prev[active] /\ pc = "switch"
  BY DisconnectSound DEF DisconnectTip, ViewAfterDisconnect
<1>2. /\ Anc[Prev[active]] \subseteq haveData
      /\ Anc[Prev[active]] \intersect (Failed \union Invalid \union Corrupt) = {}
  BY <1>1 DEF IndInv, ActiveChainSound
<1> QED BY <1>1, <1>2, MoveTip DEF DisconnectTip

LEMMA ConnectTipStep ==
  ASSUME IndInv, NEW b \in Blocks, ConnectTip(b)
  PROVE  IndInv'
<1>1. /\ pc = "switch" /\ MustConnect(b) /\ b \notin Invalid \union Corrupt
      /\ active' = b /\ coins' = b
  BY DEF ConnectTip
<1>2. /\ Anc[b] \subseteq haveData
      /\ Anc[b] \intersect (Failed \union Invalid \union Corrupt) = {}
  BY <1>1, ConnectSound
<1> QED BY <1>1, <1>2, MoveTip DEF ConnectTip

LEMMA ConnectInvalidStep ==
  ASSUME IndInv, NEW b \in Blocks, ConnectInvalid(b)
  PROVE  IndInv'
<1> USE DEF IndInv, ConnectInvalid
<1>1. b \in haveData /\ b \in Invalid /\ b \in Anc[b]
  BY ConnectSound, AncFacts
<1>2. Failed' = Failed \union {b} /\ setBlockIndexValid' = setBlockIndexValid \ {b}
  BY DEF Failed, CandidatesAfterInvalid
<1>3. TypeOK'
  BY <1>1, <1>2 DEF TypeOK, index, chains, orphan, bounds
<1>4. CandidatesComplete' /\ NoFailedCandidate' /\ FailedIsInvalid'
  BY <1>1, <1>2 DEF CandidatesComplete, NoFailedCandidate, FailedIsInvalid, index
<1>5. ActiveChainSound' /\ CoinsSound' /\ DataClosed'
  BY <1>1, <1>2 DEF ActiveChainSound, CoinsSound, DataClosed, index, chains
<1>6. CallOK' /\ MostWorkChosen' /\ ActiveIsBest'
  BY DEF CallOK, MostWorkChosen, ActiveIsBest, Activating, index, chains, orphan
<1>7. OrphanInv'
  BY OrphansUntouched DEF index, Activating
<1> QED BY <1>3, <1>4, <1>5, <1>6, <1>7 DEF OrphanInv

LEMMA ConnectCorruptStep ==
  ASSUME IndInv, NEW b \in Blocks, ConnectCorrupt(b)
  PROVE  IndInv'
<1> USE DEF IndInv, ConnectCorrupt
<1>1. TypeOK'
  BY DEF TypeOK, index, flags, chains, orphan, bounds
<1>2. /\ CandidatesComplete' /\ NoFailedCandidate' /\ FailedIsInvalid'
      /\ ActiveChainSound' /\ CoinsSound' /\ DataClosed'
  BY DEF CandidatesComplete, NoFailedCandidate, FailedIsInvalid, Failed,
         ActiveChainSound, CoinsSound, DataClosed, index, flags, chains
<1>3. CallOK' /\ MostWorkChosen' /\ ActiveIsBest'
  BY DEF CallOK, MostWorkChosen, ActiveIsBest, Activating, index, chains, orphan
<1>4. OrphanInv'
  BY OrphansUntouched DEF index, Activating
<1> QED BY <1>1, <1>2, <1>3, <1>4 DEF OrphanInv

(* A system error gives up the activation, with the coin view at the       *)
(* active tip or already one block away from it.                           *)
LEMMA SystemErrorStep ==
  ASSUME IndInv, pc = "switch", SystemError, coins' \in Blocks,
         Anc[coins'] \subseteq haveData,
         Anc[coins'] \intersect (Failed \union Invalid \union Corrupt) = {}
  PROVE  IndInv'
<1> USE DEF IndInv, SystemError
<1>1. TypeOK'
  <2>1. nErrors' \in 0 .. MaxErrors /\ fError' \in BOOLEAN
    BY BoundAssumption DEF TypeOK
  <2> QED BY <2>1 DEF TypeOK, index, flags, orphan
<1>2. /\ CandidatesComplete' /\ NoFailedCandidate' /\ FailedIsInvalid'
      /\ ActiveChainSound' /\ CoinsSound' /\ DataClosed'
  BY DEF CandidatesComplete, NoFailedCandidate, FailedIsInvalid, Failed,
         ActiveChainSound, CoinsSound, DataClosed, index, flags
<1>3. CallOK' /\ MostWorkChosen' /\ ActiveIsBest'
  BY DEF CallOK, MostWorkChosen, ActiveIsBest, Activating, index, orphan
<1>4. OrphanInv'
  BY OrphansUntouched DEF index
<1> QED BY <1>1, <1>2, <1>3, <1>4 DEF OrphanInv

LEMMA SwitchFailsStep ==
  ASSUME IndInv, SwitchFailsEarly \/ SwitchFailsLate
  PROVE  IndInv'
<1>1. CASE SwitchFailsEarly
  <2>1. coins' = coins /\ coins \in Blocks
    BY <1>1 DEF SwitchFailsEarly, IndInv, TypeOK
  <2> QED BY <1>1, <2>1, SystemErrorStep DEF SwitchFailsEarly, IndInv, CoinsSound
<1>2. CASE SwitchFailsLate
  <2>1. CASE MustDisconnect /\ coins' = Prev[active]
    BY <1>2, <2>1, DisconnectSound, SystemErrorStep
    DEF SwitchFailsLate, IndInv, ActiveChainSound
  <2>2. ASSUME NEW b \in Blocks \ (Invalid \union Corrupt), MustConnect(b), coins' = b
        PROVE  IndInv'
    BY <1>2, <2>2, ConnectSound, SystemErrorStep DEF SwitchFailsLate
  <2> QED BY <1>2, <2>1, <2>2 DEF SwitchFailsLate
<1> QED BY <1>1, <1>2

(* The assertions can only fail after a system error.                      *)
LEMMA AssertionFailsStep ==
  ASSUME IndInv, AssertionFails
  PROVE  IndInv'
<1> USE DEF IndInv, AssertionFails
<1>1. fError = TRUE /\ fError' = fError
  BY DEF ActiveChainSound, ViewAssertion, TypeOK
<1>2. TypeOK'
  BY DEF TypeOK, index, flags, chains, orphan, bounds
<1>3. /\ CandidatesComplete' /\ NoFailedCandidate' /\ FailedIsInvalid'
      /\ ActiveChainSound' /\ CoinsSound' /\ DataClosed'
  BY DEF CandidatesComplete, NoFailedCandidate, FailedIsInvalid, Failed,
         ActiveChainSound, CoinsSound, DataClosed, index, flags, chains
<1>4. CallOK' /\ MostWorkChosen' /\ ActiveIsBest'
  BY DEF CallOK, MostWorkChosen, ActiveIsBest, Activating, index, chains, orphan
<1>5. OrphanInv'
  BY <1>1, OrphansUntouched DEF index
<1> QED BY <1>2, <1>3, <1>4, <1>5 DEF OrphanInv

(* The activation ends with the active tip at chainMostWork.               *)
LEMMA ActivatedStep ==
  ASSUME IndInv, Activated
  PROVE  IndInv'
<1> USE DEF IndInv, Activated
<1>1. active = mostWork
  <2>1. active \in Blocks /\ mostWork \in Blocks
    BY DEF TypeOK, CallOK
  <2> QED BY <2>1, AncAntisymmetric DEF MustDisconnect
<1>2. vWorkQueue \in Seq(Blocks) /\ (cur # NoBlock => cur \in haveData /\ cur \in Blocks)
  BY DEF TypeOK, CallOK, Activating
<1>3. vWorkQueue' \in Seq(Blocks)
  BY <1>2
<1>4. TypeOK'
  BY <1>3 DEF TypeOK, index, flags, chains, bounds
<1>5. /\ CandidatesComplete' /\ NoFailedCandidate' /\ FailedIsInvalid'
      /\ ActiveChainSound' /\ CoinsSound' /\ DataClosed'
  BY DEF CandidatesComplete, NoFailedCandidate, FailedIsInvalid, Failed,
         ActiveChainSound, CoinsSound, DataClosed, index, flags, chains
<1>6. CallOK'
  <2>1. \A i \in 1 .. Len(vWorkQueue') : vWorkQueue'[i] \in haveData
    BY <1>2 DEF CallOK
  <2> QED BY <2>1 DEF CallOK, Activating, index, chains
<1>7. MostWorkChosen' /\ ActiveIsBest'
  <2>1. active \notin Failed
    BY AncFacts DEF ActiveChainSound, TypeOK
  <2>2. \A c \in setBlockIndexValid : ~Worse(active, c)
    BY <1>1, <2>1 DEF MostWorkChosen
  <2> QED BY <2>2 DEF MostWorkChosen, ActiveIsBest, Worse, index, flags, chains
<1>8. OrphanMaps' /\ OrphansBounded'
  <2>1. CASE vWorkQueue = << >>
    BY <2>1 DEF OrphanMaps, OrphansBounded, index
  <2>2. CASE vWorkQueue # << >>
    <3>1. vWorkQueue' # << >> /\ Head(vWorkQueue') = Head(vWorkQueue)
      BY <1>2, <2>2
    <3> QED BY <2>2, <3>1 DEF OrphanMaps, OrphansBounded, index
  <2> QED BY <2>1, <2>2
<1>9. OrphansDue'
  <2> SUFFICES ASSUME ~fError, NEW o \in mapOrphanBlocks, Prev[o] \in haveData
               PROVE  \E i \in 1 .. Len(vWorkQueue') : vWorkQueue'[i] = Prev[o]
    BY DEF OrphansDue, index
  <2>1. CASE \E i \in 1 .. Len(vWorkQueue) : vWorkQueue[i] = Prev[o]
    <3>1. PICK i \in 1 .. Len(vWorkQueue) : vWorkQueue[i] = Prev[o]
      BY <2>1
    <3>2. i \in 1 .. Len(vWorkQueue') /\ vWorkQueue'[i] = vWorkQueue[i]
      BY <1>2
    <3> QED BY <3>1, <3>2
  <2>2. CASE cur = Prev[o]
    <3>1. Prev[o] \in Blocks
      BY ParentFacts DEF TypeOK
    <3>2. vWorkQueue' = Append(vWorkQueue, cur)
      BY <2>2, <3>1, TreeAssumption
    <3>3. Len(vWorkQueue) + 1 \in 1 .. Len(vWorkQueue')
          /\ vWorkQueue'[Len(vWorkQueue) + 1] = cur
      BY <1>2, <2>2, <3>1, <3>2
    <3> QED BY <2>2, <3>3
  <2> QED BY <2>1, <2>2 DEF OrphansDue
<1> QED BY <1>4, <1>5, <1>6, <1>7, <1>8, <1>9

-----------------------------------------------------------------------------
(* The orphans of an accepted block                                        *)

LEMMA ProcessDueOrphanStep ==
  ASSUME IndInv, NEW o \in Blocks, ProcessDueOrphan(o)
  PROVE  IndInv'
<1> USE DEF IndInv
<1>1. /\ AcceptBlock(o) /\ pc = "orphans" /\ vWorkQueue # << >>
      /\ o \in mapOrphanBlocks /\ Prev[o] = Head(vWorkQueue)
      /\ mapOrphanBlocks' = mapOrphanBlocks \ {o}
      /\ mapOrphanBlocksByPrev' = mapOrphanBlocksByPrev /\ vWorkQueue' = vWorkQueue
  BY DEF ProcessDueOrphan, DueOrphans
<1>2. o \in Blocks \ {Genesis} /\ o \notin mapBlockIndex
  BY <1>1 DEF TypeOK, OrphanMaps
<1>3. vWorkQueue \in Seq(Blocks) /\ 1 \in 1 .. Len(vWorkQueue)
      /\ Head(vWorkQueue) = vWorkQueue[1]
  BY <1>1 DEF TypeOK
<1>4. Prev[o] \in haveData
  BY <1>1, <1>3 DEF CallOK
<1>5. TypeOK' /\ CallOK' /\ IndexInv'
  BY <1>1, <1>2, <1>4, AcceptTypes, AcceptCall, AcceptIndex
<1>6. OrphanMaps' /\ OrphansBounded'
  BY <1>1, AcceptIndexed DEF OrphanMaps, OrphansBounded
<1>7. OrphansDue'
  BY <1>1, AcceptData DEF OrphansDue, Activating
<1> QED BY <1>5, <1>6, <1>7 DEF IndexInv

LEMMA OrphansOfBlockDoneStep ==
  ASSUME IndInv, OrphansOfBlockDone
  PROVE  IndInv'
<1> USE DEF IndInv, OrphansOfBlockDone
<1> DEFINE q == vWorkQueue
<1>1. /\ q \in Seq(Blocks) /\ q # << >> /\ Tail(q) \in Seq(Blocks)
      /\ Len(q) \in Nat /\ Len(Tail(q)) = Len(q) - 1 /\ Head(q) = q[1]
      /\ \A i \in 1 .. Len(Tail(q)) : Tail(q)[i] = q[i + 1]
  BY DEF TypeOK
<1>2. /\ mapOrphanBlocksByPrev' = {o \in mapOrphanBlocksByPrev : Prev[o] # Head(q)}
      /\ vWorkQueue' = Tail(q)
  BY DEF ByPrevAfterDue
<1>3. \A o \in mapOrphanBlocks : Prev[o] # Head(q)
  BY DEF DueOrphans
<1>4. TypeOK'
  BY <1>1, <1>2 DEF TypeOK, index, flags, chains, bounds
<1>5. /\ CandidatesComplete' /\ NoFailedCandidate' /\ FailedIsInvalid'
      /\ ActiveChainSound' /\ CoinsSound' /\ DataClosed'
  BY DEF CandidatesComplete, NoFailedCandidate, FailedIsInvalid, Failed,
         ActiveChainSound, CoinsSound, DataClosed, index, flags, chains
<1>6. MostWorkChosen' /\ ActiveIsBest'
  BY DEF MostWorkChosen, ActiveIsBest, Worse, index, flags, chains
<1>7. CallOK'
  <2>1. \A i \in 1 .. Len(Tail(q)) : Tail(q)[i] \in haveData
    BY <1>1 DEF CallOK
  <2> QED BY <1>2, <2>1 DEF CallOK, index, chains, Activating
<1>8. mapOrphanBlocksByPrev' = mapOrphanBlocks
  BY <1>2, <1>3 DEF OrphanMaps
<1>9. OrphanMaps'
  BY <1>8 DEF OrphanMaps, index
<1>10. OrphansBounded'
  <2>1. mapOrphanBlocksByPrev' \subseteq mapOrphanBlocksByPrev
    BY <1>2
  <2>2. /\ IsFiniteSet(mapOrphanBlocksByPrev')
        /\ Cardinality(mapOrphanBlocksByPrev') <= Cardinality(mapOrphanBlocksByPrev)
    BY <2>1, FS_Subset DEF OrphansBounded
  <2>3. Cardinality(mapOrphanBlocksByPrev') \in Nat /\ Cardinality(mapOrphanBlocksByPrev) \in Nat
    BY <2>2, FS_CardinalityType DEF OrphansBounded
  <2>4. Cardinality(mapOrphanBlocksByPrev') <= MaxOrphans + 1
    BY <2>2, <2>3, BoundAssumption DEF OrphansBounded
  <2> QED BY <2>2, <2>4 DEF OrphansBounded
<1>11. OrphansDue'
  <2> SUFFICES ASSUME ~fError, NEW o \in mapOrphanBlocks, Prev[o] \in haveData
               PROVE  \E i \in 1 .. Len(Tail(q)) : Tail(q)[i] = Prev[o]
    BY <1>2 DEF OrphansDue, index
  <2>1. PICK i \in 1 .. Len(q) : q[i] = Prev[o]
    BY DEF OrphansDue, Activating
  <2>2. i # 1
    BY <1>1, <1>3, <2>1
  <2>3. i - 1 \in 1 .. Len(Tail(q)) /\ Tail(q)[i - 1] = q[i]
    BY <1>1, <2>2
  <2> QED BY <2>1, <2>3
<1> QED BY <1>4, <1>5, <1>6, <1>7, <1>9, <1>10, <1>11

LEMMA ReturnStep ==
  ASSUME IndInv, Return
  PROVE  IndInv'
<1> USE DEF IndInv, Return
<1>1. TypeOK'
  BY DEF TypeOK, index, flags, chains, orphan, bounds
<1>2. /\ CandidatesComplete' /\ NoFailedCandidate' /\ FailedIsInvalid'
      /\ ActiveChainSound' /\ CoinsSound' /\ DataClosed'
  BY DEF CandidatesComplete, NoFailedCandidate, FailedIsInvalid, Failed,
         ActiveChainSound, CoinsSound, DataClosed, index, flags, chains
<1>3. CallOK' /\ MostWorkChosen' /\ ActiveIsBest'
  BY DEF CallOK, MostWorkChosen, ActiveIsBest, Activating, Worse,
         index, flags, chains, orphan
<1>4. OrphanMaps' /\ OrphansBounded'
  BY DEF OrphanMaps, OrphansBounded, index, orphan
<1>5. OrphansDue'
  BY DEF OrphansDue, Activating, index, orphan
<1> QED BY <1>1, <1>2, <1>3, <1>4, <1>5

-----------------------------------------------------------------------------
(* What a restart rebuilds from disk                                       *)
LEMMA RestartStep ==
  ASSUME IndInv, Restart
  PROVE  IndInv'
<1> USE DEF IndInv, Restart
<1>1. TypeOK'
  <2>1. nRestarts' \in 0 .. MaxRestarts /\ nErrors' \in 0 .. MaxErrors
    BY BoundAssumption DEF TypeOK
  <2>2. nSequenceId' \in [Blocks -> Nat] /\ nBlockSequenceId' \in Nat
    OBVIOUS
  <2>3. vWorkQueue' \in Seq(Blocks)
    OBVIOUS
  <2> QED BY <2>1, <2>2, <2>3 DEF TypeOK
<1>2. Failed' \subseteq Failed
  BY DEF Failed
<1>3. haveData' = haveData /\ setBlockIndexValid' = haveData \ failedValid
      /\ Failed' = failedValid \intersect haveData
  BY DEF Failed
<1>4. CandidatesComplete' /\ NoFailedCandidate' /\ FailedIsInvalid'
  BY <1>2, <1>3 DEF CandidatesComplete, NoFailedCandidate, FailedIsInvalid
<1>5. ActiveChainSound' /\ CoinsSound' /\ DataClosed'
  BY <1>2, <1>3 DEF ActiveChainSound, CoinsSound, DataClosed
<1>6. CallOK' /\ MostWorkChosen' /\ ActiveIsBest'
  BY DEF CallOK, MostWorkChosen, ActiveIsBest, Activating
<1>7. OrphanMaps' /\ OrphansDue'
  BY DEF OrphanMaps, OrphansDue
<1>8. OrphansBounded'
  BY FS_EmptySet, BoundAssumption DEF OrphansBounded
<1> QED BY <1>1, <1>4, <1>5, <1>6, <1>7, <1>8

LEMMA StutterStep ==
  ASSUME IndInv, UNCHANGED vars
  PROVE  IndInv'
BY DEF IndInv, vars, index, flags, chains, orphan, bounds, TypeOK, CandidatesComplete,
   NoFailedCandidate, FailedIsInvalid, Failed, ActiveChainSound, DataClosed, CoinsSound,
   CallOK, Activating, MostWorkChosen, ActiveIsBest, Worse, OrphanMaps, OrphansBounded,
   OrphansDue

-----------------------------------------------------------------------------
(* The theorems                                                            *)

LEMMA NextIndInv == IndInv /\ [Next]_vars => IndInv'
<1> SUFFICES ASSUME IndInv, [Next]_vars PROVE IndInv'
  OBVIOUS
<1>1. ASSUME NEW b \in Blocks \ {Genesis}, ProcessDuplicate(b) PROVE IndInv'
  BY <1>1, StutterStep DEF ProcessDuplicate
<1>2. ASSUME NEW b \in Blocks \ {Genesis}, ProcessOrphan(b) PROVE IndInv'
  BY <1>2, ProcessOrphanStep
<1>3. ASSUME NEW b \in Blocks \ {Genesis}, ProcessBlock(b) PROVE IndInv'
  BY <1>3, ProcessBlockStep
<1>4. CASE Activation
  <2>1. CASE DropFailedTip
    BY <2>1, DropFailedTipStep
  <2>2. CASE TipAcceptable
    BY <2>2, TipAcceptableStep
  <2>3. ASSUME NEW b \in Blocks, RejectCandidate(b) \/ ChooseCandidate(b) PROVE IndInv'
    BY <2>3, RejectCandidateStep, ChooseCandidateStep
  <2>4. CASE DisconnectTip
    BY <2>4, DisconnectTipStep
  <2>5. ASSUME NEW b \in Blocks, ConnectTip(b) \/ ConnectInvalid(b) \/ ConnectCorrupt(b)
        PROVE  IndInv'
    BY <2>5, ConnectTipStep, ConnectInvalidStep, ConnectCorruptStep
  <2>6. CASE SwitchFailsEarly \/ SwitchFailsLate
    BY <2>6, SwitchFailsStep
  <2>7. CASE AssertionFails
    BY <2>7, AssertionFailsStep
  <2>8. CASE Activated
    BY <2>8, ActivatedStep
  <2>9. ASSUME NEW o \in Blocks, ProcessDueOrphan(o) PROVE IndInv'
    BY <2>9, ProcessDueOrphanStep
  <2>10. CASE OrphansOfBlockDone
    BY <2>10, OrphansOfBlockDoneStep
  <2>11. CASE Return
    BY <2>11, ReturnStep
  <2> QED BY <1>4, <2>1, <2>2, <2>3, <2>4, <2>5, <2>6, <2>7, <2>8, <2>9, <2>10, <2>11
          DEF Activation
<1>5. CASE Restart
  BY <1>5, RestartStep
<1>6. CASE Aborted
  BY <1>6, StutterStep DEF Aborted
<1>7. CASE UNCHANGED vars
  BY <1>7, StutterStep
<1> QED BY <1>1, <1>2, <1>3, <1>4, <1>5, <1>6, <1>7 DEF Next

(* Every reachable state satisfies the inductive invariant.                *)
THEOREM Invariance == Spec => []IndInv
<1>1. Init => IndInv
  BY InitIndInv
<1>2. IndInv /\ [Next]_vars => IndInv'
  BY NextIndInv
<1> QED BY <1>1, <1>2, PTL DEF Spec

(* The index, its flags, the chains and the orphan maps keep their types;  *)
(* in particular every candidate has its block data.                       *)
THEOREM TypeCorrect == Spec => []TypeOK
BY Invariance, PTL DEF IndInv

(* setBlockIndexValid contains exactly the stored blocks that have not     *)
(* failed: what its comment demands, and what FindMostWorkChain needs.     *)
THEOREM CandidatesExact == Spec => [](CandidatesComplete /\ NoFailedCandidate)
BY Invariance, PTL DEF IndInv

(* Whatever the order of arrival, the reorganisations and the restarts, a  *)
(* failure flag means that a rule is violated at or below the block.       *)
THEOREM NoValidBlockCondemned == Spec => []FailedIsInvalid
BY Invariance, PTL DEF IndInv

(* The active chain is stored, valid and unfailed; without a system error  *)
(* the coin view is at its tip.                                            *)
THEOREM ActiveChainCorrect == Spec => []ActiveChainSound
BY Invariance, PTL DEF IndInv

(* When ProcessBlock, or the activation at start-up, returns without a     *)
(* system error, no stored valid block beats the active tip.               *)
THEOREM BestChainFollowed == Spec => []BestValidChainActive
<1>1. IndInv => BestValidChainActive
  <2> SUFFICES ASSUME IndInv, pc = "idle", ~fError, NEW b \in haveData,
                      Anc[b] \intersect (Invalid \union Corrupt) = {}
               PROVE  ~Worse(active, b)
    BY DEF BestValidChainActive
  <2>1. Anc[b] \intersect (Invalid \union NonFinal) = {}
    BY DEF IndInv, DataClosed
  <2>2. b \in setBlockIndexValid
    BY <2>1 DEF IndInv, FailedIsInvalid, CandidatesComplete
  <2> QED BY <2>2 DEF IndInv, ActiveIsBest
<1> QED BY <1>1, Invariance, PTL

(* The orphan maps agree between calls and stay within the limit, and no   *)
(* orphan is left behind once its parent is stored.                        *)
THEOREM NoOrphanStranded == Spec => []OrphansConsistent
<1>1. IndInv => OrphansConsistent
  <2> SUFFICES ASSUME IndInv PROVE OrphansConsistent
    OBVIOUS
  <2>1. ASSUME pc = "idle" PROVE mapOrphanBlocks = mapOrphanBlocksByPrev
    BY <2>1 DEF IndInv, CallOK, OrphanMaps
  <2>2. ASSUME pc = "idle", ~fError, NEW o \in mapOrphanBlocks
        PROVE  Prev[o] \notin haveData
    <3>1. vWorkQueue = << >> /\ Len(vWorkQueue) = 0
      BY <2>2 DEF IndInv, CallOK
    <3> QED BY <2>2, <3>1 DEF IndInv, OrphansDue, Activating
  <2> QED BY <2>1, <2>2 DEF OrphansConsistent, IndInv, OrphanMaps, OrphansBounded
<1> QED BY <1>1, Invariance, PTL

(* An activation that succeeds ends at the best stored valid chain, also   *)
(* after system errors: MostWorkChosen does not depend on them.            *)
THEOREM ErrorsAreOvercome == Spec => ActivationRecovers
<1> DEFINE Recovers == (pc = "switch" /\ pc' = "orphans" /\ nErrors' = nErrors) =>
                         \A b \in haveData :
                            Anc[b] \intersect (Invalid \union Corrupt) = {} => ~Worse(active, b)
<1>1. IndInv /\ [Next]_vars => Recovers
  <2> SUFFICES ASSUME IndInv, [Next]_vars, pc = "switch", pc' = "orphans", nErrors' = nErrors,
                      NEW b \in haveData, Anc[b] \intersect (Invalid \union Corrupt) = {}
               PROVE  ~Worse(active, b)
    OBVIOUS
  <2>1. ~SystemError
    BY DEF SystemError, IndInv, TypeOK
  <2>2. Activated
    BY <2>1 DEF Next, Activation, vars, ProcessDuplicate, ProcessOrphan, ProcessBlock,
       DropFailedTip, TipAcceptable, RejectCandidate, ChooseCandidate, DisconnectTip, ConnectTip,
       ConnectInvalid, ConnectCorrupt, SwitchFailsEarly, SwitchFailsLate,
       AssertionFails, ProcessDueOrphan, OrphansOfBlockDone, Return, Restart, Aborted
  <2>3. active = mostWork
    <3>1. active \in Blocks /\ mostWork \in Blocks
      BY <2>2 DEF Activated, IndInv, TypeOK, CallOK
    <3> QED BY <2>2, <3>1, AncAntisymmetric DEF Activated, MustDisconnect
  <2>4. active \notin Failed
    BY AncFacts DEF IndInv, ActiveChainSound, TypeOK
  <2>5. Anc[b] \intersect (Invalid \union NonFinal) = {}
    BY DEF IndInv, DataClosed
  <2>6. b \in setBlockIndexValid
    BY <2>5 DEF IndInv, FailedIsInvalid, CandidatesComplete
  <2> QED BY <2>2, <2>3, <2>4, <2>6 DEF IndInv, MostWorkChosen, Activated
<1>2. IndInv /\ [Next]_vars => [Recovers]_vars
  BY <1>1
<1> HIDE DEF Recovers
<1>3. Spec => [][Recovers]_vars
  BY <1>2, Invariance, PTL DEF Spec
<1> QED BY <1>3 DEF ActivationRecovers, Recovers

(* No refused block, and none on top of one, is ever stored; a block that  *)
(* reads back corrupted does not become active.                            *)
THEOREM RefusedNeverStored == Spec => []RefusedStayOut
<1>1. IndInv => RefusedStayOut
  BY DEF IndInv, DataClosed, ActiveChainSound, CoinsSound, RefusedStayOut
<1> QED BY <1>1, Invariance, PTL
=============================================================================
