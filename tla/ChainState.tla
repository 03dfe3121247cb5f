----------------------------- MODULE ChainState -----------------------------
(***************************************************************************)
(* The block index and the choice of the active chain (src/src/main.cpp):  *)
(* ProcessBlock and its orphan blocks, AcceptBlock, FindMostWorkChain,     *)
(* ActivateBestChain with ConnectTip and DisconnectTip, and the reload of  *)
(* the index when the node restarts.                                       *)
(*                                                                         *)
(* All of this runs under cs_main, one ProcessBlock (or the activation at  *)
(* start-up) at a time; pc says where the running call is.  One step is    *)
(* one iteration of a loop of the code, so that the loops themselves are   *)
(* checked to terminate.                                                   *)
(*                                                                         *)
(* A block is an element of a fixed tree.  What its contents do to the     *)
(* node is given by the set it belongs to: Invalid (ConnectBlock finds a   *)
(* consensus violation), Corrupt (what is read back from disk fails        *)
(* CheckBlock with CorruptionPossible), BadHeader (AcceptBlockHeader       *)
(* refuses it), BadBody (CheckBlock at its height fails in AcceptBlock     *)
(* although the preliminary CheckBlock at INT_MAX passed), NonFinal.       *)
(***************************************************************************)
EXTENDS Integers, Sequences, FiniteSets

CONSTANTS
  Blocks, Genesis,
  NoBlock,      \* NULL
  Prev,         \* pprev of every block but Genesis
  Anc,          \* a block and its ancestors
  Work,         \* nChainWork
  Addr,         \* address of the index entry, the last tie breaker
  Invalid, Corrupt, BadHeader, BadBody, NonFinal,
  MaxOrphans,   \* -maxorphanblocks
  MaxRestarts,  \* bound: restarts of the node
  MaxErrors     \* bound: system errors (disk space, I/O)

ASSUME TreeAssumption ==
  /\ Genesis \in Blocks /\ NoBlock \notin Blocks
  /\ Prev \in [Blocks \ {Genesis} -> Blocks]
  /\ Anc \in [Blocks -> SUBSET Blocks]
  /\ Anc[Genesis] = {Genesis}
  /\ \A b \in Blocks \ {Genesis} :
        b \notin Anc[Prev[b]] /\ Anc[b] = Anc[Prev[b]] \union {b}
  /\ \A b \in Blocks : Genesis \in Anc[b] /\ \A c \in Anc[b] : Anc[c] \subseteq Anc[b]
  /\ \A b \in Blocks : \A c, d \in Anc[b] : c \in Anc[d] \/ d \in Anc[c]

ASSUME WorkAssumption ==
  /\ Work \in [Blocks -> Nat]
  /\ \A b \in Blocks \ {Genesis} : Work[Prev[b]] < Work[b]
  /\ Addr \in [Blocks -> Nat]
  /\ \A b, c \in Blocks : Addr[b] = Addr[c] => b = c

ASSUME KindAssumption ==
  /\ {Invalid, Corrupt, BadHeader, BadBody, NonFinal} \subseteq SUBSET Blocks
  /\ Genesis \notin Invalid \union Corrupt \union BadHeader \union BadBody \union NonFinal

ASSUME BoundAssumption ==
  {MaxOrphans, MaxRestarts, MaxErrors} \subseteq Nat

VARIABLES
  mapBlockIndex,         \* blocks with an index entry
  haveData,              \* entries with BLOCK_HAVE_DATA (and >= VALID_TRANSACTIONS)
  failedValid,           \* entries with BLOCK_FAILED_VALID
  failedChild,           \* entries with BLOCK_FAILED_CHILD
  nSequenceId,           \* arrival order; 0 when loaded from disk
  nBlockSequenceId,      \* next arrival number
  setBlockIndexValid,    \* candidates for the tip
  active,                \* chainActive.Tip()
  mostWork,              \* chainMostWork.Tip()
  coins,                 \* pcoinsTip->GetBestBlock()
  mapOrphanBlocks,       \* orphan blocks by hash
  mapOrphanBlocksByPrev, \* the same blocks, by parent
  pc, cur,               \* the running call, and the block it is about
  vWorkQueue,            \* accepted blocks whose orphan children are due
  fError,                \* a system error happened since the node started
  nRestarts, nErrors

index  == <<mapBlockIndex, haveData, nSequenceId, nBlockSequenceId>>
flags  == <<failedValid, failedChild, setBlockIndexValid>>
chains == <<active, mostWork, coins>>
orphan == <<mapOrphanBlocks, mapOrphanBlocksByPrev, vWorkQueue>>
bounds == <<nRestarts, nErrors>>
vars   == <<index, flags, chains, orphan, pc, cur, fError, bounds>>

-----------------------------------------------------------------------------
Failed == failedValid \union failedChild

(* CBlockIndexWorkComparator: a sorts before (is worse than) b *)
Worse(a, b) ==
  \/ Work[a] < Work[b]
  \/ /\ Work[a] = Work[b]
     /\ \/ nSequenceId[a] > nSequenceId[b]
        \/ nSequenceId[a] = nSequenceId[b] /\ Addr[a] > Addr[b]

(* the last element of setBlockIndexValid in that order *)
IsBestByWork(b) == b \in setBlockIndexValid /\ \A c \in setBlockIndexValid : Work[c] <= Work[b]
IsBest(b) == b \in setBlockIndexValid /\ \A c \in setBlockIndexValid : ~Worse(b, c)

Init ==
  /\ mapBlockIndex = {Genesis} /\ haveData = {Genesis}
  /\ failedValid = {} /\ failedChild = {}
  /\ nSequenceId = [b \in Blocks |-> IF b = Genesis THEN 1 ELSE 0]
  /\ nBlockSequenceId = 2
  /\ setBlockIndexValid = {Genesis}
  /\ active = Genesis /\ mostWork = Genesis /\ coins = Genesis
  /\ mapOrphanBlocks = {} /\ mapOrphanBlocksByPrev = {} /\ vWorkQueue = << >>
  /\ pc = "idle" /\ cur = NoBlock
  /\ fError = FALSE /\ nRestarts = 0 /\ nErrors = 0

-----------------------------------------------------------------------------
(* AcceptBlock: one disjunct for every way it ends before ActivateBestChain *)

(* AddToBlockIndex(header) *)
AddToBlockIndex(b) ==
  /\ mapBlockIndex' = mapBlockIndex \union {b}
  /\ nSequenceId' = [nSequenceId EXCEPT ![b] = nBlockSequenceId]
  /\ nBlockSequenceId' = nBlockSequenceId + 1

(* the header is refused: nothing is remembered *)
RefuseHeader(b) ==
  /\ b \in BadHeader
  /\ pc' = "orphans"
  /\ UNCHANGED <<index, flags, fError, nErrors>>

(* CheckBlock fails.  The code means to set BLOCK_FAILED_VALID, but its    *)
(* condition calls state.Invalid(), which returns false, so it never does. *)
RefuseBody(b) ==
  /\ b \in BadBody \ BadHeader
  /\ AddToBlockIndex(b)
  /\ pc' = "orphans"
  /\ UNCHANGED <<haveData, flags, fError, nErrors>>

(* a non-final transaction: marked failed *)
RefuseNonFinal(b) ==
  /\ b \in NonFinal \ (BadHeader \union BadBody)
  /\ AddToBlockIndex(b)
  /\ failedValid' = failedValid \union {b}
  /\ pc' = "orphans"
  /\ UNCHANGED <<haveData, failedChild, setBlockIndexValid, fError, nErrors>>

(* FindBlockPos or WriteBlockToDisk fails: the header stays behind *)
StoreFails(b) ==
  /\ b \notin BadHeader \union BadBody \union NonFinal
  /\ nErrors < MaxErrors
  /\ AddToBlockIndex(b)
  /\ nErrors' = nErrors + 1 /\ fError' = TRUE
  /\ pc' = "orphans"
  /\ UNCHANGED <<haveData, flags>>

(* nStatus |= BLOCK_HAVE_DATA *)
DataAfterStore(b) == haveData \union {b}

(* RaiseValidity(BLOCK_VALID_TRANSACTIONS) succeeds on a block that has no *)
(* failure flag, and makes it a candidate                                  *)
CandidatesAfterStore(b) ==
  IF b \in Failed THEN setBlockIndexValid ELSE setBlockIndexValid \union {b}

(* ReceivedBlockTransactions up to its call of ActivateBestChain *)
Store(b) ==
  /\ b \notin BadHeader \union BadBody \union NonFinal
  /\ AddToBlockIndex(b)
  /\ haveData' = DataAfterStore(b)
  /\ setBlockIndexValid' = CandidatesAfterStore(b)
  /\ pc' = "drop"
  /\ UNCHANGED <<failedValid, failedChild, fError, nErrors>>

AcceptBlock(b) ==
  /\ \/ RefuseHeader(b) \/ RefuseBody(b) \/ RefuseNonFinal(b)
     \/ StoreFails(b) \/ Store(b)
  /\ cur' = b
  /\ UNCHANGED <<chains, nRestarts>>

-----------------------------------------------------------------------------
(* ProcessBlock *)

Known(b) == b \in mapBlockIndex \/ b \in mapOrphanBlocks

(* "already have block": indexed, even if only its header, or an orphan *)
ProcessDuplicate(b) == pc = "idle" /\ Known(b) /\ UNCHANGED vars

(* PruneOrphanBlocks: beyond the limit a random orphan that no other       *)
(* orphan depends on is dropped                                            *)
OrphanLimitExceeded == Cardinality(mapOrphanBlocksByPrev) > MaxOrphans
OrphanLeaves ==
  {o \in mapOrphanBlocksByPrev : \A p \in mapOrphanBlocksByPrev : Prev[p] # o}
Pruned == IF OrphanLimitExceeded THEN {{o} : o \in OrphanLeaves} ELSE {{}}

MissingParentHeaderOnly(b) == Prev[b] \notin mapBlockIndex
MissingParent(b) == Prev[b] \notin haveData

(* the parent is unknown, or known without its data *)
ProcessOrphan(b) ==
  /\ pc = "idle" /\ ~Known(b)
  /\ MissingParent(b)
  /\ \E gone \in Pruned :
       /\ mapOrphanBlocks' = (mapOrphanBlocks \ gone) \union {b}
       /\ mapOrphanBlocksByPrev' = (mapOrphanBlocksByPrev \ gone) \union {b}
  /\ UNCHANGED <<index, flags, chains, vWorkQueue, pc, cur, fError, bounds>>

ProcessBlock(b) ==
  /\ pc = "idle" /\ ~Known(b)
  /\ ~MissingParent(b)
  /\ AcceptBlock(b)
  /\ UNCHANGED orphan

-----------------------------------------------------------------------------
(* FindMostWorkChain.  The candidate set is never empty: Genesis is in it  *)
(* from the start and no failed block, hence not Genesis, is ever erased.  *)

(* "In case the current best is invalid, do not consider it." *)
DropFailedTip ==
  /\ pc = "drop"
  /\ mostWork # NoBlock /\ mostWork \in Failed
  /\ setBlockIndexValid' = setBlockIndexValid \ {mostWork}
  /\ mostWork' = Prev[mostWork]
  /\ UNCHANGED <<index, failedValid, failedChild, active, coins, orphan, pc, cur,
                 fError, bounds>>

TipAcceptable ==
  /\ pc = "drop"
  /\ mostWork = NoBlock \/ mostWork \notin Failed
  /\ pc' = "scan"
  /\ UNCHANGED <<index, flags, chains, orphan, cur, fError, bounds>>

(* what the walk from the candidate back to the active chain meets, and    *)
(* the part of it above the failed block nearest to the candidate          *)
Walk(b) == Anc[b] \ Anc[active]
AboveFailedWholeWalk(b) == Walk(b)
AboveFailed(b) ==
  {c \in Walk(b) : \A d \in Walk(b) \intersect Failed : d \in Anc[c] \ {c}}

CandidatesWithoutWalk(b) == setBlockIndexValid \ Walk(b)
CandidatesAfterReject(b) == setBlockIndexValid \ AboveFailed(b)

(* "Candidate has an invalid ancestor, remove entire chain from the set." *)
RejectCandidate(b) ==
  /\ pc = "scan" /\ IsBest(b)
  /\ Walk(b) \intersect Failed # {}
  /\ failedChild' = failedChild \union AboveFailed(b)
  /\ setBlockIndexValid' = CandidatesAfterReject(b)
  /\ UNCHANGED <<index, failedValid, chains, orphan, pc, cur, fError, bounds>>

(* "Check whether it's actually an improvement." *)
ImprovesByWorkOnly(b) == mostWork = NoBlock \/ Work[mostWork] < Work[b]
Improves(b) == mostWork = NoBlock \/ Worse(mostWork, b)

ChooseCandidate(b) ==
  /\ pc = "scan" /\ IsBest(b)
  /\ Walk(b) \intersect Failed = {}
  /\ mostWork' = IF Improves(b) THEN b ELSE mostWork
  /\ pc' = "switch"
  /\ UNCHANGED <<index, flags, active, coins, orphan, cur, fError, bounds>>

-----------------------------------------------------------------------------
(* ActivateBestChain *)

MustDisconnect == active \notin Anc[mostWork]
MustConnect(b) == /\ ~MustDisconnect
                  /\ b \in Anc[mostWork] \ {Genesis}
                  /\ Prev[b] = active

(* both DisconnectBlock and ConnectBlock assert that the coin view is at   *)
(* the active tip                                                          *)
ViewAssertion == coins = active

(* the view after DisconnectBlock, flushed into pcoinsTip *)
ViewNotFlushed == coins
ViewAfterDisconnect == Prev[active]

DisconnectTip ==
  /\ pc = "switch" /\ MustDisconnect /\ ViewAssertion
  /\ coins' = ViewAfterDisconnect
  /\ active' = Prev[active]
  /\ UNCHANGED <<index, flags, mostWork, orphan, pc, cur, fError, bounds>>

ConnectTip(b) ==
  /\ pc = "switch" /\ MustConnect(b) /\ ViewAssertion
  /\ b \notin Invalid \union Corrupt
  /\ coins' = b
  /\ active' = b
  /\ UNCHANGED <<index, flags, mostWork, orphan, pc, cur, fError, bounds>>

(* ConnectBlock fails on a consensus rule: InvalidBlockFound *)
CandidatesKeepInvalid(b) == setBlockIndexValid
CandidatesAfterInvalid(b) == setBlockIndexValid \ {b}

ConnectInvalid(b) ==
  /\ pc = "switch" /\ MustConnect(b) /\ ViewAssertion
  /\ b \in Invalid \ Corrupt
  /\ failedValid' = failedValid \union {b}
  /\ setBlockIndexValid' = CandidatesAfterInvalid(b)
  /\ pc' = "drop"
  /\ UNCHANGED <<index, failedChild, chains, orphan, cur, fError, bounds>>

(* CheckBlock, before the assertion, fails with CorruptionPossible:        *)
(* nothing is marked                                                       *)
ConnectCorrupt(b) ==
  /\ pc = "switch" /\ MustConnect(b)
  /\ b \in Corrupt
  /\ pc' = "drop"
  /\ UNCHANGED <<index, flags, chains, orphan, cur, fError, bounds>>

SystemError ==
  /\ nErrors < MaxErrors
  /\ nErrors' = nErrors + 1 /\ fError' = TRUE
  /\ pc' = "orphans"
  /\ UNCHANGED <<index, flags, active, mostWork, orphan, cur, nRestarts>>

(* reading or undoing a block, or writing its undo data, fails before the  *)
(* view is flushed                                                         *)
SwitchFailsEarly ==
  /\ pc = "switch"
  /\ MustDisconnect \/ \E b \in Blocks : MustConnect(b)
  /\ SystemError
  /\ UNCHANGED coins

(* WriteChainState fails (out of disk space): the view is already at the   *)
(* new tip, UpdateTip is not reached                                       *)
SwitchFailsLate ==
  /\ pc = "switch" /\ ViewAssertion
  /\ \/ MustDisconnect /\ coins' = Prev[active]
     \/ \E b \in Blocks \ (Invalid \union Corrupt) : MustConnect(b) /\ coins' = b
  /\ SystemError

AssertionFails ==
  /\ pc = "switch" /\ ~ViewAssertion
  /\ MustDisconnect \/ \E b \in Blocks \ Corrupt : MustConnect(b)
  /\ pc' = "aborted"
  /\ UNCHANGED <<index, flags, chains, orphan, cur, fError, bounds>>

(* chainActive contains the most-work tip: ActivateBestChain returns true, *)
(* AcceptBlock succeeds and its block's orphan children are due            *)
Activated ==
  /\ pc = "switch" /\ mostWork \in Anc[active] /\ ~MustDisconnect
  /\ pc' = "orphans"
  /\ vWorkQueue' = IF cur = NoBlock THEN vWorkQueue ELSE Append(vWorkQueue, cur)
  /\ UNCHANGED <<index, flags, chains, mapOrphanBlocks, mapOrphanBlocksByPrev,
                 cur, fError, bounds>>

-----------------------------------------------------------------------------
(* "Recursively process any orphan blocks that depended on this one" *)

DueOrphans == {o \in mapOrphanBlocks : Prev[o] = Head(vWorkQueue)}

ProcessDueOrphan(o) ==
  /\ pc = "orphans" /\ vWorkQueue # << >>
  /\ o \in DueOrphans
  /\ AcceptBlock(o)
  /\ mapOrphanBlocks' = mapOrphanBlocks \ {o}
  /\ UNCHANGED <<mapOrphanBlocksByPrev, vWorkQueue>>

ByPrevNotErased == mapOrphanBlocksByPrev
ByPrevAfterDue == {o \in mapOrphanBlocksByPrev : Prev[o] # Head(vWorkQueue)}

OrphansOfBlockDone ==
  /\ pc = "orphans" /\ vWorkQueue # << >>
  /\ DueOrphans = {}
  /\ mapOrphanBlocksByPrev' = ByPrevAfterDue
  /\ vWorkQueue' = Tail(vWorkQueue)
  /\ UNCHANGED <<index, flags, chains, mapOrphanBlocks, pc, cur, fError, bounds>>

Return ==
  /\ pc = "orphans" /\ vWorkQueue = << >>
  /\ pc' = "idle" /\ cur' = NoBlock
  /\ UNCHANGED <<index, flags, chains, orphan, fError, bounds>>

-----------------------------------------------------------------------------
(* Clean shutdown and start: LoadBlockIndexDB rebuilds the index from what *)
(* WriteBlockIndex wrote (entries with data; FAILED_CHILD is never written)*)
(* and init calls ActivateBestChain.                                       *)
Restart ==
  /\ pc = "idle" /\ nRestarts < MaxRestarts
  /\ nRestarts' = nRestarts + 1
  /\ mapBlockIndex' = haveData /\ haveData' = haveData
  /\ failedValid' = failedValid \intersect haveData
  /\ failedChild' = {}
  /\ setBlockIndexValid' = haveData \ failedValid
  /\ nSequenceId' = [b \in Blocks |-> 0] /\ nBlockSequenceId' = 1
  /\ active' = coins /\ mostWork' = NoBlock /\ coins' = coins
  /\ mapOrphanBlocks' = {} /\ mapOrphanBlocksByPrev' = {} /\ vWorkQueue' = << >>
  /\ pc' = "drop" /\ cur' = NoBlock
  /\ fError' = FALSE
  /\ nErrors' = nErrors

Aborted == pc = "aborted" /\ UNCHANGED vars

Activation ==
  \/ DropFailedTip \/ TipAcceptable
  \/ \E b \in Blocks : RejectCandidate(b) \/ ChooseCandidate(b)
  \/ DisconnectTip
  \/ \E b \in Blocks : ConnectTip(b) \/ ConnectInvalid(b) \/ ConnectCorrupt(b)
  \/ SwitchFailsEarly \/ SwitchFailsLate \/ AssertionFails \/ Activated
  \/ \E o \in Blocks : ProcessDueOrphan(o)
  \/ OrphansOfBlockDone \/ Return

Next ==
  \/ \E b \in Blocks \ {Genesis} :
        ProcessDuplicate(b) \/ ProcessOrphan(b) \/ ProcessBlock(b)
  \/ Activation
  \/ Restart
  \/ Aborted

(* The thread that holds cs_main keeps running. *)
Spec == Init /\ [][Next]_vars /\ WF_vars(Activation)
-----------------------------------------------------------------------------
(* Properties                                                              *)

TypeOK ==
  /\ mapBlockIndex \in SUBSET Blocks /\ haveData \in SUBSET mapBlockIndex
  /\ failedValid \in SUBSET mapBlockIndex /\ failedChild \in SUBSET mapBlockIndex
  /\ nSequenceId \in [Blocks -> Nat] /\ nBlockSequenceId \in Nat
  /\ setBlockIndexValid \in SUBSET haveData
  /\ active \in Blocks /\ coins \in Blocks
  /\ mostWork \in Blocks \union {NoBlock}
  /\ mapOrphanBlocks \in SUBSET (Blocks \ {Genesis})
  /\ mapOrphanBlocksByPrev \in SUBSET (Blocks \ {Genesis})
  /\ pc \in {"idle", "drop", "scan", "switch", "orphans", "aborted"}
  /\ cur \in Blocks \union {NoBlock}
  /\ vWorkQueue \in Seq(Blocks)
  /\ fError \in BOOLEAN
  /\ nRestarts \in 0 .. MaxRestarts /\ nErrors \in 0 .. MaxErrors

(* The comment on setBlockIndexValid (main.cpp:141): it "must contain"     *)
(* every block with its transactions that has not failed.                  *)
CandidatesComplete == haveData \ Failed \subseteq setBlockIndexValid

(* A failed block among the candidates would make the do loop of           *)
(* FindMostWorkChain spin with cs_main held: there is never one.           *)
NoFailedCandidate == setBlockIndexValid \intersect Failed = {}

(* A block is marked failed only if it, or an ancestor of it, really       *)
(* violates a rule: no reorganisation condemns a valid block.              *)
FailedIsInvalid ==
  \A b \in Failed : Anc[b] \intersect (Invalid \union NonFinal) # {}

(* Every block of the active chain is stored, unfailed and valid, and the  *)
(* coin view is at its tip unless a system error intervened.               *)
ActiveChainSound ==
  /\ Anc[active] \subseteq haveData
  /\ Anc[active] \intersect (Failed \union Invalid \union Corrupt) = {}
  /\ fError \/ coins = active

(* When a call returns without a system error, no stored chain of valid    *)
(* blocks beats the active one.                                            *)
BestValidChainActive ==
  (pc = "idle" /\ ~fError) =>
     \A b \in haveData :
        Anc[b] \intersect (Invalid \union Corrupt) = {} => ~Worse(active, b)

(* The two orphan maps agree between calls (the pointers of the second     *)
(* are deleted with the entries of the first), stay within the limit, and  *)
(* hold no block whose parent is already stored, for such a block could    *)
(* never be processed again.                                               *)
OrphansConsistent ==
  /\ mapOrphanBlocks \subseteq mapOrphanBlocksByPrev
  /\ Cardinality(mapOrphanBlocksByPrev) <= MaxOrphans + 1
  /\ pc = "idle" =>
       /\ mapOrphanBlocks = mapOrphanBlocksByPrev
       /\ ~fError => \A o \in mapOrphanBlocks : Prev[o] \notin haveData

(* Whatever system errors came before and wherever between two chains they *)
(* left the tip, an ActivateBestChain that succeeds ends at the best of    *)
(* the stored chains of valid blocks; of equal ones, at the one that was   *)
(* seen first.                                                             *)
ActivationRecovers ==
  [][(pc = "switch" /\ pc' = "orphans" /\ nErrors' = nErrors) =>
       \A b \in haveData :
          Anc[b] \intersect (Invalid \union Corrupt) = {} => ~Worse(active, b)]_vars

(* A block that AcceptBlock refuses is never stored, nor is a block on top *)
(* of it, before or after it in any order, although its header may be in   *)
(* the index; and a block that reads back corrupted is stored but never    *)
(* becomes active.                                                         *)
RefusedStayOut ==
  /\ \A b \in haveData : Anc[b] \intersect (BadHeader \union BadBody \union NonFinal) = {}
  /\ (Anc[active] \union Anc[coins]) \intersect Corrupt = {}

(* Every call returns: the loops of FindMostWorkChain, ActivateBestChain   *)
(* and ProcessBlock terminate whatever blocks turn out to be invalid.      *)
CallReturns == (pc # "idle") ~> (pc \in {"idle", "aborted"})

(* "verify that the view's current state corresponds to the previous       *)
(* block" (main.cpp:2101) and the assertion of DisconnectBlock.            *)
(* The code does not keep it: README, section 5.                           *)
ViewAssertionHolds == pc # "aborted"

(* "BLOCK_FAILED_VALID ... stage after last reached validness failed"      *)
(* (main.h:742): a block that AcceptBlock's CheckBlock refused is failed.  *)
(* The code does not keep it: README, section 5.                           *)
RefusedIsMarkedFailed == mapBlockIndex \intersect BadBody \subseteq Failed
=============================================================================
