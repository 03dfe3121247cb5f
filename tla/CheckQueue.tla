----------------------------- MODULE CheckQueue -----------------------------
(***************************************************************************)
(* CCheckQueue and CCheckQueueControl (src/src/checkqueue.h): the pool of  *)
(* threads that verifies the scripts of a block while ConnectBlock walks   *)
(* its transactions.  ConnectBlock is the master: it constructs a control, *)
(* adds one batch of checks per transaction and waits for the verdict,     *)
(* helping the workers while it waits.  It runs under cs_main, so there is *)
(* one master at a time.                                                   *)
(*                                                                         *)
(* A check is an identifier; Good holds those whose operator() returns     *)
(* true.  Every step that the code makes inside one critical section and   *)
(* that nobody can observe half-way is one action.  The critical section   *)
(* of Loop is split where the counters nIdle and nTotal are temporarily    *)
(* out of step, because the constructor of the control reads them without  *)
(* the mutex.                                                              *)
(***************************************************************************)
EXTENDS Integers, Sequences, FiniteSets, SequencesExt

CONSTANTS
  Workers,      \* the threads running ThreadScriptCheck
  Master,       \* the thread inside ConnectBlock
  Nobody,       \* "no thread", for the mutex
  Checks,       \* script checks a block may need
  Good,         \* the checks that succeed
  nBatchSize,   \* largest batch one thread takes
  MaxSpurious   \* bound: number of spurious wake-ups of a condition variable

ASSUME WorkersAssumption == IsFiniteSet(Workers) /\ Master \notin Workers
ASSUME ChecksAssumption  == IsFiniteSet(Checks) /\ Good \subseteq Checks
ASSUME BatchAssumption   == nBatchSize \in Nat \ {0}
ASSUME BoundsAssumption  == MaxSpurious \in Nat

Threads == Workers \union {Master}

ASSUME NobodyAssumption  == Nobody \notin Threads

VARIABLES
  mutex,     \* holder of the queue's mutex, or Nobody
  queue,     \* the LIFO of checks
  nIdle, nTotal, nTodo, fAllOk,
  pc,        \* where each thread is in Loop (or, for the master, outside it)
  vChecks,   \* the batch a thread has taken and not yet accounted for
  fOk,       \* a thread's local verdict
  pushed,    \* history: checks added through the current control
  executed,  \* history: checks whose operator() ran for the current control
  fRet,      \* what the last Wait returned
  nSpurious  \* spurious wake-ups so far

vars == <<mutex, queue, nIdle, nTotal, nTodo, fAllOk, pc, vChecks, fOk,
          pushed, executed, fRet, nSpurious>>

counters == <<nIdle, nTotal, nTodo, fAllOk>>
session  == <<pushed, fRet>>

-----------------------------------------------------------------------------
(* pc values: a worker is at "enter" (about to lock at the top of the do   *)
(* loop), "test" (holds the mutex at `while (queue.empty())`), "waiting"   *)
(* (inside cond.wait), "woken" (notified, must relock), "work".  The master*)
(* has these and "outside" (no control), "adding" (control constructed,    *)
(* Wait not called), "aborted" (an assertion of the constructor failed).   *)
LoopPCs == {"enter", "test", "waiting", "woken", "work"}

Init ==
  /\ mutex = Nobody
  /\ queue = << >>
  /\ nIdle = 0 /\ nTotal = 0 /\ nTodo = 0 /\ fAllOk = TRUE
  /\ pc = [t \in Threads |-> IF t = Master THEN "outside" ELSE "enter"]
  /\ vChecks = [t \in Threads |-> {}]
  /\ fOk = [t \in Threads |-> TRUE]
  /\ pushed = {} /\ executed = {}
  /\ fRet = TRUE
  /\ nSpurious = 0

Alive == pc[Master] # "aborted"

(* CCheckQueueControl's constructor: three assertions on state it reads    *)
(* without the mutex.                                                      *)
ControlAssertions == nTotal = nIdle /\ nTodo = 0 /\ fAllOk

Control ==
  /\ pc[Master] = "outside"
  /\ pc' = [pc EXCEPT ![Master] =
              IF ControlAssertions THEN "adding" ELSE "aborted"]
  /\ pushed' = {} /\ executed' = {}
  /\ UNCHANGED <<mutex, queue, counters, vChecks, fOk, fRet, nSpurious>>

(* condWorker.notify_one / notify_all as sets of threads that may be woken *)
WaitingWorkers == {t \in Workers : pc[t] = "waiting"}
NotifyOne(S) == IF S = {} THEN {{}} ELSE {{t} : t \in S}
NotifyAdd(n) == IF n = 1 THEN NotifyOne(WaitingWorkers) ELSE {WaitingWorkers}

WakeUp(p, woken) == [t \in Threads |-> IF t \in woken THEN "woken" ELSE p[t]]

TodoAfterAdd(batch) == nTodo + Len(batch)

(* CCheckQueue::Add: the checks of one transaction, in order *)
Add(batch) ==
  /\ pc[Master] = "adding"
  /\ mutex = Nobody
  /\ queue' = queue \o batch
  /\ nTodo' = TodoAfterAdd(batch)
  /\ \E woken \in NotifyAdd(Len(batch)) : pc' = WakeUp(pc, woken)
  /\ pushed' = pushed \union Range(batch)
  /\ UNCHANGED <<mutex, nIdle, nTotal, fAllOk, vChecks, fOk, executed, fRet,
                 nSpurious>>

(* CCheckQueueControl::Wait, or its destructor on an early return *)
Wait ==
  /\ pc[Master] = "adding"
  /\ pc' = [pc EXCEPT ![Master] = "enter"]
  /\ fOk' = [fOk EXCEPT ![Master] = TRUE]
  /\ UNCHANGED <<mutex, queue, counters, vChecks, executed, session, nSpurious>>

(* fAllOk &= fOk *)
MergedVerdictOverwrite(t) == fOk[t]
MergedVerdict(t) == fAllOk /\ fOk[t]

(* condMaster.notify_one() by the thread that finishes the last element *)
NotifiedMasterNever(t, left) == {}
NotifiedMaster(t, left) ==
  IF left = 0 /\ t # Master /\ pc[Master] = "waiting" THEN {Master} ELSE {}

(* Loop: lock and clean up after the previous run; nNow # 0 exactly when   *)
(* the thread still holds a batch to account for (vChecks.clear() of the   *)
(* code is folded into this step).                                         *)
Enter(t) ==
  /\ pc[t] = "enter" /\ mutex = Nobody
  /\ mutex' = t
  /\ IF vChecks[t] # {}
     THEN /\ fAllOk' = MergedVerdict(t)
          /\ nTodo' = nTodo - Cardinality(vChecks[t])
          /\ nTotal' = nTotal
          /\ pc' = [WakeUp(pc, NotifiedMaster(t, nTodo')) EXCEPT ![t] = "test"]
     ELSE /\ nTotal' = nTotal + 1
          /\ pc' = [pc EXCEPT ![t] = "test"]
          /\ UNCHANGED <<fAllOk, nTodo>>
  /\ vChecks' = [vChecks EXCEPT ![t] = {}]
  /\ UNCHANGED <<queue, nIdle, fOk, executed, session, nSpurious>>

(* (fMaster || fQuit) && nTodo == 0, once the queue is empty; fQuit is     *)
(* never set                                                               *)
MayReturnEarly(t) == t = Master
MayReturn(t) == t = Master /\ nTodo = 0

(* the master resets the status for new work later *)
ResetVerdictForgotten == fAllOk
ResetVerdict == TRUE

(* the master leaves the loop with the verdict; a worker never does        *)
Return ==
  /\ pc[Master] = "test" /\ mutex = Master
  /\ queue = << >> /\ MayReturn(Master)
  /\ nTotal' = nTotal - 1
  /\ fRet' = fAllOk
  /\ fAllOk' = ResetVerdict
  /\ mutex' = Nobody
  /\ pc' = [pc EXCEPT ![Master] = "outside"]
  /\ UNCHANGED <<queue, nIdle, nTodo, vChecks, fOk, pushed, executed,
                 nSpurious>>

IdleBeforeWait == nIdle + 1

(* nIdle++ and cond.wait, which releases the mutex *)
Sleep(t) ==
  /\ pc[t] = "test" /\ mutex = t
  /\ queue = << >> /\ ~MayReturn(t)
  /\ nIdle' = IdleBeforeWait
  /\ mutex' = Nobody
  /\ pc' = [pc EXCEPT ![t] = "waiting"]
  /\ UNCHANGED <<queue, nTotal, nTodo, fAllOk, vChecks, fOk, executed, session,
                 nSpurious>>

(* cond.wait returns: the mutex is held again and nIdle-- *)
Wake(t) ==
  /\ pc[t] = "woken" /\ mutex = Nobody
  /\ mutex' = t
  /\ nIdle' = nIdle - 1
  /\ pc' = [pc EXCEPT ![t] = "test"]
  /\ UNCHANGED <<queue, nTotal, nTodo, fAllOk, vChecks, fOk, executed, session,
                 nSpurious>>

(* a condition variable may wake a thread nobody notified *)
Spurious(t) ==
  /\ pc[t] = "waiting"
  /\ nSpurious < MaxSpurious
  /\ nSpurious' = nSpurious + 1
  /\ pc' = [pc EXCEPT ![t] = "woken"]
  /\ UNCHANGED <<mutex, queue, counters, vChecks, fOk, executed, session>>

(* how many work units to process now *)
NowCount ==
  LET share == Len(queue) \div (nTotal + nIdle + 1)
      capped == IF nBatchSize < share THEN nBatchSize ELSE share
  IN  IF capped < 1 THEN 1 ELSE capped

(* swap nNow checks from the back of the queue into the local batch *)
Take(t) ==
  /\ pc[t] = "test" /\ mutex = t
  /\ queue # << >>
  /\ LET keep == Len(queue) - NowCount
     IN  /\ vChecks' = [vChecks EXCEPT ![t] =
                          {queue[i] : i \in (keep + 1) .. Len(queue)}]
         /\ queue' = SubSeq(queue, 1, keep)
  /\ fOk' = [fOk EXCEPT ![t] = fAllOk]
  /\ mutex' = Nobody
  /\ pc' = [pc EXCEPT ![t] = "work"]
  /\ UNCHANGED <<counters, executed, session, nSpurious>>

(* run the batch outside the mutex; after the first failure, and when some *)
(* other batch had already failed, the rest is skipped                     *)
Execute(t) ==
  /\ pc[t] = "work"
  /\ fOk' = [fOk EXCEPT ![t] = fOk[t] /\ vChecks[t] \subseteq Good]
  /\ executed' = IF fOk[t] /\ vChecks[t] \subseteq Good
                 THEN executed \union vChecks[t]
                 ELSE executed
  /\ pc' = [pc EXCEPT ![t] = "enter"]
  /\ UNCHANGED <<mutex, queue, counters, vChecks, session, nSpurious>>

ThreadStep(t) ==
  Enter(t) \/ Sleep(t) \/ Wake(t) \/ Take(t) \/ Execute(t)

MasterStep == Wait \/ Return \/ ThreadStep(Master)

(* a failed assertion ends the process *)
Aborted == ~Alive /\ UNCHANGED vars

Next ==
  \/ Alive /\ ( \/ Control
                \/ \E S \in SUBSET (Checks \ pushed) :
                     S # {} /\ \E batch \in SetToSeqs(S) : Add(batch)
                \/ Wait
                \/ Return
                \/ \E t \in Threads : ThreadStep(t) \/ Spurious(t) )
  \/ Aborted

(* Every thread that can run is eventually scheduled, and ConnectBlock     *)
(* eventually calls Wait.  Weak fairness suffices for the mutex: between   *)
(* two Adds only finitely many lock operations are possible.               *)
Fairness ==
  /\ WF_vars(Alive /\ MasterStep)
  /\ \A t \in Workers : WF_vars(Alive /\ ThreadStep(t))

Spec == Init /\ [][Next]_vars /\ Fairness

-----------------------------------------------------------------------------
(* Properties                                                              *)

Outstanding == Range(queue) \union UNION {vChecks[t] : t \in Threads}

TypeOK ==
  /\ mutex \in Threads \union {Nobody}
  /\ queue \in Seq(Checks)
  /\ nIdle \in Nat /\ nTotal \in Nat /\ nTodo \in Nat
  /\ fAllOk \in BOOLEAN /\ fRet \in BOOLEAN
  /\ pc \in [Threads -> LoopPCs \union {"outside", "adding", "aborted"}]
  /\ vChecks \in [Threads -> SUBSET Checks]
  /\ fOk \in [Threads -> BOOLEAN]
  /\ pushed \in SUBSET Checks /\ executed \in SUBSET Checks
  /\ nSpurious \in 0 .. MaxSpurious

(* nTodo "includes elements that are not anymore in queue, but still in    *)
(* worker's own batches" (checkqueue.h:52): the counter the master's exit  *)
(* depends on equals the number of unaccounted checks in every state.      *)
TodoCountsOutstanding == nTodo = Cardinality(Outstanding)

(* What ConnectBlock relies on: once Wait has returned, the verdict is     *)
(* true exactly when every check added through this control succeeds, and  *)
(* a true verdict means each of them has really been executed.             *)
VerdictSound ==
  pc[Master] = "outside" =>
     /\ fRet = (pushed \subseteq Good)
     /\ fRet => executed = pushed

(* After Wait no thread still holds a check: the checks point into the     *)
(* block that ConnectBlock is about to release.                            *)
NothingLeftBehind ==
  pc[Master] = "outside" => Outstanding = {}

(* Read under the mutex, the constructor's assertions always hold: all     *)
(* threads that have entered Loop are idle between two blocks.             *)
QuietBetweenBlocks ==
  (pc[Master] = "outside" /\ mutex = Nobody) => ControlAssertions

(* No lost wake-up: a master that has called Wait always gets its verdict. *)
WaitReturns == (pc[Master] = "enter") ~> (pc[Master] = "outside")

(* The assertions the constructor makes (checkqueue.h:172-174), on what it *)
(* reads without the mutex.                                                *)
(* The code does not keep it: README, section 5.                           *)
ControlNeverAborts == Alive
=============================================================================
