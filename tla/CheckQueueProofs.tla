-------------------------- MODULE CheckQueueProofs --------------------------
(***************************************************************************)
(* Safety of the script check queue for every number of workers, every set *)
(* of checks and every batch size.                                         *)
(***************************************************************************)
EXTENDS CheckQueue, FiniteSetTheorems, SequenceTheorems, TLAPS

Idlers   == {t \in Threads : pc[t] \in {"waiting", "woken"}}
Insiders == {t \in Threads : \/ pc[t] \in {"test", "waiting", "woken", "work"}
                             \/ pc[t] = "enter" /\ vChecks[t] # {}}

(* only the thread at the loop test holds the mutex *)
LockInv == \A t \in Threads : (pc[t] = "test") <=> (mutex = t)

(* a thread holds a batch only between taking it and accounting for it *)
BatchInv == \A t \in Threads :
  /\ pc[t] = "work" => vChecks[t] # {}
  /\ vChecks[t] # {} => pc[t] \in {"work", "enter"}

WorkerInv == \A t \in Workers : pc[t] \in LoopPCs

(* no check is in two places *)
DisjointInv ==
  /\ IsInjective(queue)
  /\ \A t \in Threads : vChecks[t] \intersect Range(queue) = {}
  /\ \A t, u \in Threads : t # u => vChecks[t] \intersect vChecks[u] = {}

CountInv == nIdle = Cardinality(Idlers) /\ nTotal = Cardinality(Insiders)

PushedInv == Outstanding \subseteq pushed /\ executed \subseteq pushed

(* what the verdict so far, and the verdict of each finished batch, mean *)
VerdictInv ==
  /\ (pc[Master] # "outside" /\ fAllOk) =>
        pushed \ Outstanding \subseteq Good \intersect executed
  /\ ~fAllOk => ~(pushed \subseteq Good)
  /\ \A t \in Threads : pc[t] = "work" /\ ~fOk[t] => ~(pushed \subseteq Good)
  /\ \A t \in Threads : (pc[t] = "enter" /\ vChecks[t] # {}) =>
        IF fOk[t] THEN vChecks[t] \subseteq Good \intersect executed
                  ELSE ~(pushed \subseteq Good)

(* between two blocks nothing is outstanding *)
OutsideInv ==
  (pc[Master] \in {"outside", "aborted"}) => Outstanding = {} /\ fAllOk

IndInv ==
  /\ TypeOK /\ LockInv /\ BatchInv /\ WorkerInv /\ DisjointInv
  /\ TodoCountsOutstanding /\ CountInv /\ PushedInv /\ VerdictInv
  /\ OutsideInv /\ VerdictSound

-----------------------------------------------------------------------------
(* An injective sequence has as many elements as its length: the batch a   *)
(* transaction adds (checkqueue.h:147) is counted without duplicates.      *)
LEMMA InjectiveRange ==
  ASSUME NEW S, NEW s \in Seq(S), IsInjective(s)
  PROVE  IsFiniteSet(Range(s)) /\ Cardinality(Range(s)) = Len(s)
<1> DEFINE D == 1 .. Len(s)
<1>1. Len(s) \in Nat /\ s \in [D -> Range(s)] /\ DOMAIN s = D
  BY DEF Range
<1>2. s \in Bijection(D, Range(s))
  BY <1>1 DEF Bijection, Injection, Surjection, IsInjective, Range
<1>3. IsFiniteSet(D) /\ Cardinality(D) = Len(s)
  BY <1>1, FS_Interval
<1> QED
  BY <1>2, <1>3, FS_Bijection DEF ExistsBijection

(* Taking checks from the back of the queue (checkqueue.h:108-113) splits  *)
(* its contents into what stays and what is taken.                         *)
LEMMA SplitBack ==
  ASSUME NEW S, NEW s \in Seq(S), IsInjective(s),
         NEW keep \in 0 .. (Len(s) - 1)
  PROVE  LET front == SubSeq(s, 1, keep)
             back  == {s[i] : i \in (keep + 1) .. Len(s)}
         IN  /\ front \in Seq(S)
             /\ IsInjective(front)
             /\ back \subseteq S /\ back # {}
             /\ Range(s) = Range(front) \union back
             /\ Range(front) \intersect back = {}
<1> DEFINE front == SubSeq(s, 1, keep)
           back  == {s[i] : i \in (keep + 1) .. Len(s)}
<1>1. /\ Len(s) \in Nat /\ DOMAIN s = 1 .. Len(s)
      /\ \A i \in 1 .. Len(s) : s[i] \in S
  OBVIOUS
<1>2. front \in Seq(S) /\ Len(front) = keep /\ DOMAIN front = 1 .. keep
  BY <1>1
<1>3. \A i \in 1 .. keep : front[i] = s[i]
  BY <1>1
<1>4. IsInjective(front)
  BY <1>1, <1>2, <1>3 DEF IsInjective
<1>5. back \subseteq S /\ s[Len(s)] \in back
  BY <1>1
<1>6. Range(s) = Range(front) \union back
  <2>1. ASSUME NEW x \in Range(s) PROVE x \in Range(front) \union back
    <3>1. PICK i \in 1 .. Len(s) : x = s[i]
      BY <1>1 DEF Range
    <3>2. CASE i <= keep
      <4>1. i \in DOMAIN front /\ front[i] = x
        BY <1>2, <1>3, <3>1, <3>2
      <4> HIDE DEF front
      <4> QED BY <4>1 DEF Range
    <3>3. CASE ~(i <= keep)
      BY <1>1, <3>1, <3>3
    <3> QED BY <3>2, <3>3
  <2>2. Range(front) \subseteq Range(s)
    BY <1>1, <1>2, <1>3 DEF Range
  <2>3. back \subseteq Range(s)
    BY <1>1 DEF Range
  <2> QED BY <2>1, <2>2, <2>3
<1>7. Range(front) \intersect back = {}
  BY <1>1, <1>2, <1>3 DEF Range, IsInjective
<1> QED BY <1>2, <1>4, <1>5, <1>6, <1>7

(* Appending checks that are not in the queue (checkqueue.h:143-146).      *)
LEMMA AppendNew ==
  ASSUME NEW S, NEW s \in Seq(S), NEW b \in Seq(S),
         IsInjective(s), IsInjective(b), Range(s) \intersect Range(b) = {}
  PROVE  /\ s \o b \in Seq(S)
         /\ IsInjective(s \o b)
         /\ Range(s \o b) = Range(s) \union Range(b)
<1> DEFINE c == s \o b
<1>1. /\ Len(s) \in Nat /\ DOMAIN s = 1 .. Len(s)
      /\ Len(b) \in Nat /\ DOMAIN b = 1 .. Len(b)
  OBVIOUS
<1>2. /\ c \in Seq(S) /\ Len(c) = Len(s) + Len(b)
      /\ DOMAIN c = 1 .. (Len(s) + Len(b))
  OBVIOUS
<1>3. \A i \in 1 .. Len(s) : c[i] = s[i]
  BY <1>1
<1>4. \A i \in 1 .. Len(b) : c[i + Len(s)] = b[i]
  BY <1>1
<1>5. \A i \in DOMAIN c : \/ i \in 1 .. Len(s) /\ c[i] = s[i]
                          \/ /\ i - Len(s) \in 1 .. Len(b)
                             /\ c[i] = b[i - Len(s)]
  BY <1>1, <1>2, <1>3
<1>6. IsInjective(c)
  <2> SUFFICES ASSUME NEW i \in DOMAIN c, NEW j \in DOMAIN c, c[i] = c[j]
               PROVE  i = j
    BY DEF IsInjective
  <2> i \in Int /\ j \in Int
    BY <1>1, <1>2
  <2> HIDE DEF c
  <2>1. CASE i \in 1 .. Len(s) /\ c[i] = s[i] /\ j \in 1 .. Len(s) /\ c[j] = s[j]
    BY <1>1, <2>1 DEF IsInjective
  <2>2. CASE /\ i - Len(s) \in 1 .. Len(b) /\ c[i] = b[i - Len(s)]
             /\ j - Len(s) \in 1 .. Len(b) /\ c[j] = b[j - Len(s)]
    <3>1. i - Len(s) = j - Len(s)
      BY <1>1, <2>2 DEF IsInjective
    <3> QED BY <1>1, <3>1
  <2>3. \A k \in 1 .. Len(s), l \in 1 .. Len(b) : s[k] # b[l]
    BY <1>1 DEF Range
  <2> QED BY <1>5, <2>1, <2>2, <2>3
<1>7. Range(c) = Range(s) \union Range(b)
  <2>1. Range(c) \subseteq Range(s) \union Range(b)
    BY <1>1, <1>5 DEF Range
  <2>2. Range(s) \subseteq Range(c)
    BY <1>1, <1>2, <1>3 DEF Range
  <2>3. Range(b) \subseteq Range(c)
    <3> SUFFICES ASSUME NEW i \in 1 .. Len(b) PROVE b[i] \in Range(c)
      BY <1>1 DEF Range
    <3>1. i + Len(s) \in DOMAIN c
      BY <1>1, <1>2
    <3> QED BY <3>1, <1>4 DEF Range
  <2> QED BY <2>1, <2>2, <2>3
<1> QED BY <1>2, <1>6, <1>7

(* The batch size (checkqueue.h:106) is at least one and never more than   *)
(* the queue holds.                                                        *)
LEMMA NowInRange ==
  ASSUME queue \in Seq(Checks), queue # << >>, nTotal \in Nat, nIdle \in Nat
  PROVE  NowCount \in 1 .. Len(queue)
<1>1. Len(queue) \in Nat /\ Len(queue) >= 1
  BY EmptySeq
<1> DEFINE d == nTotal + nIdle + 1
           share == Len(queue) \div d
<1>2. d \in Nat /\ d >= 1
  OBVIOUS
<1>3. share \in Nat /\ share <= Len(queue)
  <2> HIDE DEF d
  <2>1. share \in Int /\ Len(queue) = d * share + (Len(queue) % d)
        /\ Len(queue) % d \in 0 .. (d - 1)
    BY <1>1, <1>2
  <2>2. ASSUME share < 0 PROVE FALSE
    BY <2>1, <2>2, <1>1, <1>2
  <2>3. share >= 0
    BY <2>1, <2>2
  <2>4. d * share >= share
    BY <2>1, <2>3, <1>2
  <2> QED BY <2>1, <2>3, <2>4, <1>1, <1>2
<1> HIDE DEF share
<1> QED
  BY <1>1, <1>3, BatchAssumption DEF NowCount, share
-----------------------------------------------------------------------------
LEMMA SplitCardinality ==
  ASSUME NEW A, NEW B, IsFiniteSet(A), B \subseteq A
  PROVE  /\ Cardinality(A) = Cardinality(A \ B) + Cardinality(B)
         /\ Cardinality(A \ B) \in Nat /\ Cardinality(B) \in Nat
<1> DEFINE C == A \ B
<1>1. C \union B = A /\ C \intersect B = {}
  OBVIOUS
<1>2. IsFiniteSet(B) /\ IsFiniteSet(C)
  <2>1. B \in SUBSET A /\ C \in SUBSET A
    OBVIOUS
  <2> HIDE DEF C
  <2> QED BY <2>1, FS_Subset
<1>3. Cardinality(B) \in Nat /\ Cardinality(C) \in Nat
  BY <1>2, FS_CardinalityType
<1>4. Cardinality(C \union B) =
        Cardinality(C) + Cardinality(B) - Cardinality(C \intersect B)
  BY <1>2, FS_Union
<1> HIDE DEF C
<1>5. Cardinality(C \intersect B) = 0 /\ Cardinality(C \union B) = Cardinality(A)
  BY <1>1, FS_EmptySet, Zenon
<1> QED BY <1>3, <1>4, <1>5 DEF C

LEMMA FiniteThreads ==
  IsFiniteSet(Threads)
BY WorkersAssumption, FS_AddElement DEF Threads

(* The sets that the counters of the queue count are finite.               *)
LEMMA FiniteCounted ==
  ASSUME TypeOK
  PROVE  /\ IsFiniteSet(Idlers) /\ IsFiniteSet(Insiders)
         /\ IsFiniteSet(Outstanding) /\ Outstanding \subseteq Checks
         /\ \A t \in Threads : IsFiniteSet(vChecks[t])
         /\ Range(queue) \subseteq Outstanding
         /\ \A t \in Threads : vChecks[t] \subseteq Outstanding
<1>1. Idlers \in SUBSET Threads /\ Insiders \in SUBSET Threads
  BY DEF Idlers, Insiders
<1>2. Range(queue) \subseteq Checks
  BY DEF TypeOK, Range
<1>3. Outstanding \in SUBSET Checks
  BY <1>2 DEF Outstanding, TypeOK
<1>4. \A t \in Threads : vChecks[t] \in SUBSET Checks
  BY DEF TypeOK
<1>5. /\ Range(queue) \subseteq Outstanding
      /\ \A t \in Threads : vChecks[t] \subseteq Outstanding
  BY DEF Outstanding
<1> QED
  BY <1>1, <1>3, <1>4, <1>5, FiniteThreads, FS_Subset, ChecksAssumption

LEMMA InitInd ==
  Init => IndInv
<1> SUFFICES ASSUME Init PROVE IndInv
  OBVIOUS
<1>1. /\ Range(queue) = {} /\ Outstanding = {}
  BY DEF Init, Range, Outstanding
<1>2. Idlers = {} /\ Insiders = {}
  BY DEF Init, Idlers, Insiders, Threads
<1>3. TypeOK
  BY BoundsAssumption DEF Init, TypeOK, LoopPCs, Threads
<1>4. LockInv /\ BatchInv /\ WorkerInv
  BY WorkersAssumption, NobodyAssumption
  DEF Init, LockInv, BatchInv, WorkerInv, LoopPCs, Threads
<1>5. DisjointInv
  BY DEF Init, DisjointInv, IsInjective
<1>6. TodoCountsOutstanding /\ CountInv
  BY <1>1, <1>2, FS_EmptySet DEF Init, TodoCountsOutstanding, CountInv
<1>7. PushedInv /\ VerdictInv /\ OutsideInv /\ VerdictSound
  BY <1>1 DEF Init, PushedInv, VerdictInv, OutsideInv, VerdictSound, Threads
<1> QED
  BY <1>3, <1>4, <1>5, <1>6, <1>7 DEF IndInv

(* Steps that leave the queue, the batches and the counters alone.         *)
LEMMA SameCounts ==
  ASSUME IndInv, UNCHANGED <<queue, vChecks, counters>>,
         Idlers' = Idlers, Insiders' = Insiders
  PROVE  /\ Outstanding' = Outstanding
         /\ DisjointInv' /\ TodoCountsOutstanding' /\ CountInv'
<1>1. Outstanding' = Outstanding
  BY DEF Outstanding
<1> QED
  BY <1>1 DEF IndInv, DisjointInv, TodoCountsOutstanding, CountInv, counters

LEMMA ControlInd ==
  ASSUME IndInv, Control
  PROVE  IndInv'
<1> USE DEF IndInv
<1>1. TypeOK'
  BY DEF Control, TypeOK, counters, LoopPCs, Threads
<1>2. LockInv' /\ BatchInv' /\ WorkerInv'
  BY WorkersAssumption, <1>1
  DEF Control, LockInv, BatchInv, WorkerInv, TypeOK, Threads
<1>3. Idlers' = Idlers /\ Insiders' = Insiders
  BY DEF Control, Idlers, Insiders, TypeOK, Threads
<1>4. /\ Outstanding' = Outstanding
      /\ DisjointInv' /\ TodoCountsOutstanding' /\ CountInv'
  BY <1>3, SameCounts DEF Control
<1>5. Outstanding = {} /\ fAllOk
  BY DEF OutsideInv, Control
<1>6. \A t \in Threads : vChecks[t] = {}
  BY <1>5, FiniteCounted
<1>7. \A t \in Threads : pc[t] # "work"
  BY <1>6 DEF BatchInv
<1>8. PushedInv' /\ OutsideInv' /\ VerdictSound'
  BY <1>4, <1>5 DEF PushedInv, OutsideInv, VerdictSound, Control, counters, TypeOK, Threads
<1>9. VerdictInv'
  BY <1>1, <1>4, <1>5, <1>6, <1>7 DEF VerdictInv, Control, counters, TypeOK, Threads
<1> QED
  BY <1>1, <1>2, <1>4, <1>8, <1>9

LEMMA WaitInd ==
  ASSUME IndInv, Wait
  PROVE  IndInv'
<1> USE DEF IndInv
<1>1. TypeOK'
  BY DEF Wait, TypeOK, counters, session, LoopPCs, Threads
<1>2. LockInv' /\ BatchInv' /\ WorkerInv'
  BY WorkersAssumption, <1>1
  DEF Wait, LockInv, BatchInv, WorkerInv, TypeOK, Threads
<1>a. vChecks[Master] = {}
  BY DEF Wait, BatchInv, Threads
<1>3. Idlers' = Idlers /\ Insiders' = Insiders
  BY <1>a DEF Wait, Idlers, Insiders, TypeOK, Threads
<1>4. /\ Outstanding' = Outstanding
      /\ DisjointInv' /\ TodoCountsOutstanding' /\ CountInv'
  BY <1>3, SameCounts DEF Wait
<1>8. PushedInv' /\ OutsideInv' /\ VerdictSound'
  BY <1>4 DEF PushedInv, OutsideInv, VerdictSound, Wait, counters, session, TypeOK, Threads
<1>9. VerdictInv'
  BY <1>1, <1>4, <1>a DEF VerdictInv, Wait, counters, session, TypeOK, Threads
<1> QED
  BY <1>1, <1>2, <1>4, <1>8, <1>9

LEMMA SpuriousInd ==
  ASSUME IndInv, NEW t \in Threads, Spurious(t)
  PROVE  IndInv'
<1> USE DEF IndInv
<1>1. TypeOK'
  BY BoundsAssumption DEF Spurious, TypeOK, counters, session, LoopPCs
<1>2. LockInv' /\ BatchInv' /\ WorkerInv'
  BY DEF Spurious, LockInv, BatchInv, WorkerInv, TypeOK, LoopPCs, Threads
<1>3. Idlers' = Idlers /\ Insiders' = Insiders
  BY DEF Spurious, Idlers, Insiders, TypeOK
<1>4. /\ Outstanding' = Outstanding
      /\ DisjointInv' /\ TodoCountsOutstanding' /\ CountInv'
  BY <1>3, SameCounts DEF Spurious
<1>8. PushedInv' /\ OutsideInv' /\ VerdictSound'
  BY <1>4 DEF PushedInv, OutsideInv, VerdictSound, Spurious, counters, session, TypeOK, Threads
<1>9. VerdictInv'
  BY <1>1, <1>4 DEF VerdictInv, Spurious, counters, session, TypeOK, Threads
<1> QED
  BY <1>1, <1>2, <1>4, <1>8, <1>9

LEMMA ExecuteInd ==
  ASSUME IndInv, NEW t \in Threads, Execute(t)
  PROVE  IndInv'
<1> USE DEF IndInv
<1>1. TypeOK'
  BY DEF Execute, TypeOK, counters, session, LoopPCs
<1>2. LockInv' /\ BatchInv' /\ WorkerInv'
  BY DEF Execute, LockInv, BatchInv, WorkerInv, TypeOK, LoopPCs, Threads
<1>3. Idlers' = Idlers /\ Insiders' = Insiders
  BY DEF Execute, Idlers, Insiders, TypeOK, BatchInv
<1>4. /\ Outstanding' = Outstanding
      /\ DisjointInv' /\ TodoCountsOutstanding' /\ CountInv'
  BY <1>3, SameCounts DEF Execute
<1>5. vChecks[t] \subseteq pushed /\ vChecks[t] # {}
  BY FiniteCounted DEF PushedInv, BatchInv, Execute
<1>6. pc[Master] # "outside" /\ pc[Master] # "aborted"
  BY <1>5, FiniteCounted DEF OutsideInv
<1>8. PushedInv' /\ OutsideInv' /\ VerdictSound'
  BY <1>4, <1>5, <1>6 DEF PushedInv, OutsideInv, VerdictSound, Execute, counters, session, TypeOK, Threads
<1>9. VerdictInv'
  <2>1. executed \subseteq executed'
    BY DEF Execute
  <2>2. /\ ((pc[Master] # "outside" /\ fAllOk) =>
             pushed \ Outstanding \subseteq Good \intersect executed)'
        /\ (~fAllOk => ~(pushed \subseteq Good))'
    BY <1>4, <1>6, <2>1 DEF VerdictInv, Execute, counters, session
  <2>3. ASSUME NEW u \in Threads
        PROVE  /\ (pc[u] = "work" /\ ~fOk[u] => ~(pushed \subseteq Good))'
               /\ ((pc[u] = "enter" /\ vChecks[u] # {}) =>
                      IF fOk[u] THEN vChecks[u] \subseteq Good \intersect executed
                                ELSE ~(pushed \subseteq Good))'
    <3>1. CASE u = t
      BY <1>5, <3>1 DEF VerdictInv, Execute, session, TypeOK
    <3>2. CASE u # t
      BY <2>1, <3>2 DEF VerdictInv, Execute, session, TypeOK
    <3> QED BY <3>1, <3>2
  <2> QED BY <2>2, <2>3 DEF VerdictInv
<1> QED
  BY <1>1, <1>2, <1>4, <1>8, <1>9

LEMMA SleepInd ==
  ASSUME IndInv, NEW t \in Threads, Sleep(t)
  PROVE  IndInv'
<1> USE DEF IndInv
<1>1. TypeOK'
  BY DEF Sleep, TypeOK, IdleBeforeWait, session, LoopPCs
<1>2. LockInv' /\ BatchInv' /\ WorkerInv'
  BY NobodyAssumption
  DEF Sleep, LockInv, BatchInv, WorkerInv, TypeOK, LoopPCs, Threads
<1>3. /\ Outstanding' = Outstanding /\ Insiders' = Insiders
      /\ Idlers' = Idlers \union {t} /\ t \notin Idlers
  BY DEF Sleep, Outstanding, Idlers, Insiders, TypeOK
<1>4. CountInv'
  BY <1>3, FiniteCounted, FS_AddElement DEF CountInv, Sleep, IdleBeforeWait
<1>5. DisjointInv' /\ TodoCountsOutstanding'
  BY <1>3 DEF DisjointInv, TodoCountsOutstanding, Sleep
<1>6. PushedInv' /\ OutsideInv' /\ VerdictSound'
  BY <1>3 DEF PushedInv, OutsideInv, VerdictSound, Sleep, session, TypeOK, Threads
<1>7. VerdictInv'
  BY <1>1, <1>3 DEF VerdictInv, Sleep, session, TypeOK, Threads
<1> QED
  BY <1>1, <1>2, <1>4, <1>5, <1>6, <1>7

LEMMA WakeInd ==
  ASSUME IndInv, NEW t \in Threads, Wake(t)
  PROVE  IndInv'
<1> USE DEF IndInv
<1>1. /\ Outstanding' = Outstanding /\ Insiders' = Insiders
      /\ Idlers' = Idlers \ {t} /\ t \in Idlers
  BY DEF Wake, Outstanding, Idlers, Insiders, TypeOK
<1>2. CountInv' /\ nIdle' \in Nat
  <2>1. Cardinality(Idlers \ {t}) = Cardinality(Idlers) - 1 /\ IsFiniteSet(Idlers \ {t})
    BY <1>1, FiniteCounted, FS_RemoveElement
  <2>2. Cardinality(Idlers \ {t}) \in Nat
    BY <2>1, FS_CardinalityType
  <2> QED BY <1>1, <2>1, <2>2 DEF CountInv, Wake
<1>3. TypeOK'
  BY <1>2 DEF Wake, TypeOK, session, LoopPCs
<1>4. LockInv' /\ BatchInv' /\ WorkerInv'
  BY NobodyAssumption
  DEF Wake, LockInv, BatchInv, WorkerInv, TypeOK, LoopPCs, Threads
<1>5. DisjointInv' /\ TodoCountsOutstanding'
  BY <1>1 DEF DisjointInv, TodoCountsOutstanding, Wake
<1>6. PushedInv' /\ OutsideInv' /\ VerdictSound'
  BY <1>1 DEF PushedInv, OutsideInv, VerdictSound, Wake, session, TypeOK, Threads
<1>7. VerdictInv'
  BY <1>3, <1>1 DEF VerdictInv, Wake, session, TypeOK, Threads
<1> QED
  BY <1>2, <1>3, <1>4, <1>5, <1>6, <1>7

LEMMA ReturnInd ==
  ASSUME IndInv, Return
  PROVE  IndInv'
<1> USE DEF IndInv
<1> Master \in Threads
  BY DEF Threads
<1>1. /\ Outstanding' = Outstanding /\ Idlers' = Idlers
      /\ Insiders' = Insiders \ {Master} /\ Master \in Insiders
  BY DEF Return, Outstanding, Idlers, Insiders, TypeOK
<1>2. CountInv' /\ nTotal' \in Nat
  <2>1. /\ Cardinality(Insiders \ {Master}) = Cardinality(Insiders) - 1
        /\ IsFiniteSet(Insiders \ {Master})
    BY <1>1, FiniteCounted, FS_RemoveElement
  <2>2. Cardinality(Insiders \ {Master}) \in Nat
    BY <2>1, FS_CardinalityType
  <2> QED BY <1>1, <2>1, <2>2 DEF CountInv, Return
<1>3. TypeOK'
  BY <1>2 DEF Return, ResetVerdict, TypeOK, LoopPCs
<1>4. LockInv' /\ BatchInv' /\ WorkerInv'
  BY NobodyAssumption, WorkersAssumption
  DEF Return, LockInv, BatchInv, WorkerInv, TypeOK, LoopPCs
<1>5. DisjointInv' /\ TodoCountsOutstanding'
  BY <1>1 DEF DisjointInv, TodoCountsOutstanding, Return
<1>6. Outstanding = {}
  <2>1. Cardinality(Outstanding) = 0
    BY DEF TodoCountsOutstanding, Return, MayReturn
  <2> QED BY <2>1, FiniteCounted, FS_EmptySet
<1>7. \A t \in Threads : vChecks[t] = {} /\ pc[t] # "work"
  BY <1>6, FiniteCounted DEF BatchInv
<1>8. /\ fAllOk => pushed \subseteq Good \intersect executed
      /\ ~fAllOk => ~(pushed \subseteq Good)
  BY <1>6 DEF VerdictInv, Return
<1>9. VerdictSound'
  BY <1>8 DEF VerdictSound, Return, PushedInv, TypeOK
<1>10. PushedInv' /\ OutsideInv'
  BY <1>1, <1>6 DEF PushedInv, OutsideInv, Return, ResetVerdict, TypeOK
<1>11. VerdictInv'
  BY <1>3, <1>7 DEF VerdictInv, Return, ResetVerdict, TypeOK
<1> QED
  BY <1>2, <1>3, <1>4, <1>5, <1>9, <1>10, <1>11

LEMMA TakeInd ==
  ASSUME IndInv, NEW t \in Threads, Take(t)
  PROVE  IndInv'
<1> USE DEF IndInv
<1> DEFINE keep == Len(queue) - NowCount
           back == {queue[i] : i \in (keep + 1) .. Len(queue)}
<1>1. keep \in 0 .. (Len(queue) - 1)
  <2>1. NowCount \in 1 .. Len(queue) /\ Len(queue) \in Nat
    BY NowInRange DEF Take, TypeOK
  <2> QED BY <2>1
<1>2. /\ queue' \in Seq(Checks) /\ IsInjective(queue')
      /\ back \subseteq Checks /\ back # {}
      /\ Range(queue) = Range(queue') \union back
      /\ Range(queue') \intersect back = {}
  <2>1. queue' = SubSeq(queue, 1, keep) /\ queue \in Seq(Checks) /\ IsInjective(queue)
    BY DEF Take, TypeOK, DisjointInv
  <2> HIDE DEF keep
  <2> QED BY <1>1, <2>1, SplitBack
<1>3. /\ vChecks' = [vChecks EXCEPT ![t] = back] /\ vChecks[t] = {}
      /\ pc' = [pc EXCEPT ![t] = "work"] /\ pc[t] = "test"
      /\ fOk' = [fOk EXCEPT ![t] = fAllOk] /\ mutex' = Nobody
      /\ UNCHANGED <<nIdle, nTotal, nTodo, fAllOk, executed, pushed, fRet, nSpurious>>
  BY DEF Take, counters, session, BatchInv
<1> HIDE DEF back
<1>4. TypeOK'
  BY <1>2, <1>3 DEF TypeOK, LoopPCs
<1>5. LockInv' /\ BatchInv' /\ WorkerInv'
  BY <1>2, <1>3, NobodyAssumption
  DEF LockInv, BatchInv, WorkerInv, TypeOK, LoopPCs, Threads
<1>6. Outstanding' = Outstanding
  <2>1. ASSUME NEW x PROVE x \in Outstanding' <=> x \in Outstanding
    <3>1. (\E u \in Threads : x \in vChecks'[u]) <=>
             (x \in back \/ \E u \in Threads : x \in vChecks[u])
      BY <1>3 DEF TypeOK
    <3> QED BY <3>1, <1>2 DEF Outstanding
  <2> QED BY <2>1
<1>7. DisjointInv'
  BY <1>2, <1>3 DEF DisjointInv, TypeOK
<1>8. Idlers' = Idlers /\ Insiders' = Insiders
  BY <1>2, <1>3 DEF Idlers, Insiders, TypeOK
<1>9. TodoCountsOutstanding' /\ CountInv'
  BY <1>3, <1>6, <1>8 DEF TodoCountsOutstanding, CountInv
<1>10. PushedInv' /\ OutsideInv' /\ VerdictSound'
  BY <1>3, <1>6 DEF PushedInv, OutsideInv, VerdictSound, TypeOK, Threads
<1>11. VerdictInv'
  BY <1>3, <1>6 DEF VerdictInv, TypeOK, Threads
<1> QED
  BY <1>4, <1>5, <1>7, <1>9, <1>10, <1>11

LEMMA AddInd ==
  ASSUME IndInv, NEW S \in SUBSET (Checks \ pushed), NEW b \in SetToSeqs(S),
         S # {}, Add(b)
  PROVE  IndInv'
<1> USE DEF IndInv
<1>1. b \in Seq(Checks) /\ IsInjective(b) /\ Range(b) \subseteq S
  <2>1. IsFiniteSet(S)
    BY ChecksAssumption, FS_Subset
  <2>2. Cardinality(S) \in Nat
    BY <2>1, FS_CardinalityType
  <2> QED BY <2>2 DEF SetToSeqs, IsInjective, Range
<1>2. Range(queue) \intersect Range(b) = {} /\ Outstanding \intersect Range(b) = {}
  BY <1>1, FiniteCounted DEF PushedInv
<1>3. /\ queue' \in Seq(Checks) /\ IsInjective(queue')
      /\ Range(queue') = Range(queue) \union Range(b)
  BY <1>1, <1>2, AppendNew DEF Add, DisjointInv, TypeOK
<1>4. IsFiniteSet(Range(b)) /\ Cardinality(Range(b)) = Len(b) /\ Len(b) \in Nat
  BY <1>1, InjectiveRange
<1>5. PICK woken \in NotifyAdd(Len(b)) : pc' = WakeUp(pc, woken)
  BY DEF Add
<1>6. woken \subseteq WaitingWorkers
  BY <1>5 DEF NotifyAdd, NotifyOne
<1>7. \A u \in Threads :
         \/ pc'[u] = pc[u]
         \/ u \in Workers /\ pc[u] = "waiting" /\ pc'[u] = "woken"
  BY <1>5, <1>6 DEF WakeUp, WaitingWorkers
<1>8. pc' \in [Threads -> LoopPCs \union {"outside", "adding", "aborted"}]
  BY <1>5 DEF WakeUp, TypeOK, LoopPCs
<1>9. /\ nTodo' = nTodo + Len(b) /\ pushed' = pushed \union Range(b)
      /\ pc[Master] = "adding"
      /\ UNCHANGED <<mutex, nIdle, nTotal, fAllOk, vChecks, fOk, executed, fRet, nSpurious>>
  BY DEF Add, TodoAfterAdd
<1>10. Master \in Threads /\ pc'[Master] = "adding"
  BY <1>7, <1>9, WorkersAssumption DEF Threads
<1>11. TypeOK'
  BY <1>1, <1>3, <1>4, <1>8, <1>9 DEF TypeOK
<1>12. LockInv' /\ BatchInv' /\ WorkerInv'
  BY <1>7, <1>9 DEF LockInv, BatchInv, WorkerInv, LoopPCs, Threads
<1>13. Outstanding' = Outstanding \union Range(b)
  BY <1>3, <1>9 DEF Outstanding
<1>14. DisjointInv'
  BY <1>2, <1>3, <1>9, FiniteCounted DEF DisjointInv
<1>15. TodoCountsOutstanding'
  <2>1. /\ IsFiniteSet(Outstanding)
        /\ Cardinality(Outstanding \intersect Range(b)) = 0
    BY <1>2, FiniteCounted, FS_EmptySet
  <2>2. Cardinality(Outstanding \union Range(b)) = Cardinality(Outstanding) + Len(b)
    <3>1. Cardinality(Outstanding \union Range(b)) =
            Cardinality(Outstanding) + Cardinality(Range(b))
              - Cardinality(Outstanding \intersect Range(b))
      BY <1>4, <2>1, FS_Union
    <3> QED BY <1>4, <2>1, <3>1, FS_CardinalityType
  <2> QED BY <1>9, <1>13, <2>2 DEF TodoCountsOutstanding
<1>16. Idlers' = Idlers /\ Insiders' = Insiders
  BY <1>7, <1>9 DEF Idlers, Insiders
<1>17. CountInv'
  BY <1>9, <1>16 DEF CountInv
<1>18. PushedInv' /\ OutsideInv' /\ VerdictSound'
  BY <1>9, <1>10, <1>13 DEF PushedInv, OutsideInv, VerdictSound
<1>19. VerdictInv'
  <2>1. pushed' \ Outstanding' \subseteq pushed \ Outstanding /\ pushed \subseteq pushed'
    BY <1>9, <1>13
  <2> QED BY <1>7, <1>9, <1>10, <2>1 DEF VerdictInv
<1> QED
  BY <1>11, <1>12, <1>14, <1>15, <1>17, <1>18, <1>19

LEMMA EnterFirstInd ==
  ASSUME IndInv, NEW t \in Threads, Enter(t), vChecks[t] = {}
  PROVE  IndInv'
<1> USE DEF IndInv
<1>1. /\ pc[t] = "enter" /\ pc' = [pc EXCEPT ![t] = "test"]
      /\ mutex = Nobody /\ mutex' = t /\ nTotal' = nTotal + 1
      /\ vChecks' = vChecks
      /\ UNCHANGED <<queue, nIdle, nTodo, fAllOk, fOk, executed, pushed, fRet, nSpurious>>
  BY DEF Enter, session, TypeOK
<1>2. TypeOK'
  BY <1>1 DEF TypeOK, LoopPCs
<1>3. LockInv' /\ BatchInv' /\ WorkerInv'
  BY <1>1, NobodyAssumption
  DEF LockInv, BatchInv, WorkerInv, TypeOK, LoopPCs, Threads
<1>4. /\ Outstanding' = Outstanding /\ Idlers' = Idlers
      /\ Insiders' = Insiders \union {t} /\ t \notin Insiders
  BY <1>1 DEF Outstanding, Idlers, Insiders, TypeOK
<1>5. CountInv'
  BY <1>1, <1>4, FiniteCounted, FS_AddElement DEF CountInv
<1>6. DisjointInv' /\ TodoCountsOutstanding'
  BY <1>1, <1>4 DEF DisjointInv, TodoCountsOutstanding
<1>7. PushedInv' /\ OutsideInv' /\ VerdictSound'
  BY <1>1, <1>4 DEF PushedInv, OutsideInv, VerdictSound, TypeOK, Threads
<1>8. VerdictInv'
  BY <1>1, <1>4 DEF VerdictInv, TypeOK, Threads
<1> QED
  BY <1>2, <1>3, <1>5, <1>6, <1>7, <1>8

LEMMA EnterAgainInd ==
  ASSUME IndInv, NEW t \in Threads, Enter(t), vChecks[t] # {}
  PROVE  IndInv'
<1> USE DEF IndInv
<1>1. /\ pc[t] = "enter" /\ mutex = Nobody /\ mutex' = t
      /\ fAllOk' = (fAllOk /\ fOk[t])
      /\ nTodo' = nTodo - Cardinality(vChecks[t])
      /\ pc' = [WakeUp(pc, NotifiedMaster(t, nTodo')) EXCEPT ![t] = "test"]
      /\ vChecks' = [vChecks EXCEPT ![t] = {}]
      /\ UNCHANGED <<queue, nIdle, nTotal, fOk, executed, pushed, fRet, nSpurious>>
  BY DEF Enter, session, MergedVerdict
<1>2. /\ pc'[t] = "test"
      /\ \A u \in Threads : u # t =>
            \/ pc'[u] = pc[u]
            \/ u = Master /\ pc[u] = "waiting" /\ pc'[u] = "woken"
  <2> DEFINE n == NotifiedMaster(t, nTodo')
  <2>1. \A u \in n : u = Master /\ pc[u] = "waiting"
    BY DEF NotifiedMaster
  <2> HIDE DEF n
  <2>2. \A u \in Threads : WakeUp(pc, n)[u] = IF u \in n THEN "woken" ELSE pc[u]
    BY Zenon DEF WakeUp
  <2>3. pc' = [WakeUp(pc, n) EXCEPT ![t] = "test"] /\ DOMAIN WakeUp(pc, n) = Threads
    BY <1>1, Zenon DEF n, WakeUp
  <2> HIDE DEF WakeUp
  <2>4. pc'[t] = "test" /\ \A u \in Threads : u # t => pc'[u] = WakeUp(pc, n)[u]
    BY <2>3
  <2> QED BY <2>1, <2>2, <2>4
<1>3. pc' \in [Threads -> LoopPCs \union {"outside", "adding", "aborted"}]
  <2>1. DOMAIN pc' = Threads /\ pc' = [u \in Threads |-> pc'[u]]
    BY <1>1 DEF WakeUp
  <2>2. \A u \in Threads : pc'[u] \in LoopPCs \union {"outside", "adding", "aborted"}
    BY <1>2 DEF TypeOK, LoopPCs
  <2> QED BY <2>1, <2>2
<1>4. /\ Outstanding' = Outstanding \ vChecks[t]
      /\ vChecks[t] \subseteq Outstanding
      /\ IsFiniteSet(Outstanding) /\ IsFiniteSet(vChecks[t])
  <2>1. ASSUME NEW x PROVE x \in Outstanding' <=> x \in Outstanding \ vChecks[t]
    <3>1. (\E u \in Threads : x \in vChecks'[u]) <=>
             (\E u \in Threads : u # t /\ x \in vChecks[u])
      BY <1>1 DEF TypeOK
    <3> QED BY <3>1, <1>1 DEF Outstanding, DisjointInv
  <2> QED BY <2>1, FiniteCounted
<1>5. nTodo' = Cardinality(Outstanding') /\ nTodo' \in Nat
  <2>1. /\ Cardinality(Outstanding) =
             Cardinality(Outstanding \ vChecks[t]) + Cardinality(vChecks[t])
        /\ Cardinality(Outstanding \ vChecks[t]) \in Nat
        /\ Cardinality(vChecks[t]) \in Nat
    BY <1>4, SplitCardinality
  <2> QED BY <1>1, <1>4, <2>1 DEF TodoCountsOutstanding
<1>6. TypeOK'
  BY <1>1, <1>3, <1>5 DEF TypeOK
<1>7. LockInv' /\ BatchInv' /\ WorkerInv'
  BY <1>1, <1>2, NobodyAssumption
  DEF LockInv, BatchInv, WorkerInv, TypeOK, LoopPCs, Threads
<1>8. Idlers' = Idlers /\ Insiders' = Insiders
  BY <1>1, <1>2 DEF Idlers, Insiders, TypeOK
<1>9. DisjointInv' /\ TodoCountsOutstanding' /\ CountInv'
  BY <1>1, <1>5, <1>8 DEF DisjointInv, TodoCountsOutstanding, CountInv, TypeOK
<1>10. pc[Master] \notin {"outside", "aborted"} /\ pc'[Master] \notin {"outside", "aborted"}
  BY <1>2, FiniteCounted DEF OutsideInv, Threads
<1>11. PushedInv' /\ OutsideInv' /\ VerdictSound'
  BY <1>1, <1>4, <1>10 DEF PushedInv, OutsideInv, VerdictSound
<1>12. VerdictInv'
  <2>1. fAllOk' => pushed \ Outstanding' \subseteq Good \intersect executed
    BY <1>1, <1>4, <1>10 DEF VerdictInv
  <2>2. ~fAllOk' => ~(pushed \subseteq Good)
    BY <1>1 DEF VerdictInv
  <2>3. \A u \in Threads : u # t => vChecks'[u] = vChecks[u]
    BY <1>1 DEF TypeOK
  <2>4. ASSUME NEW u \in Threads
        PROVE  /\ pc'[u] = "work" => u # t /\ pc[u] = "work"
               /\ pc'[u] = "enter" => u # t /\ pc[u] = "enter"
    BY <1>2
  <2> QED BY <1>1, <2>1, <2>2, <2>3, <2>4 DEF VerdictInv
<1> QED
  BY <1>6, <1>7, <1>9, <1>11, <1>12

LEMMA NextInd ==
  IndInv /\ [Next]_vars => IndInv'
<1> SUFFICES ASSUME IndInv, [Next]_vars PROVE IndInv'
  OBVIOUS
<1>1. CASE Control
  BY <1>1, ControlInd
<1>2. CASE \E S \in SUBSET (Checks \ pushed) :
              S # {} /\ \E batch \in SetToSeqs(S) : Add(batch)
  BY <1>2, AddInd
<1>3. CASE Wait
  BY <1>3, WaitInd
<1>4. CASE Return
  BY <1>4, ReturnInd
<1>5. CASE \E t \in Threads : ThreadStep(t) \/ Spurious(t)
  <2> PICK t \in Threads : ThreadStep(t) \/ Spurious(t)
    BY <1>5
  <2>1. CASE Enter(t)
    BY <2>1, EnterFirstInd, EnterAgainInd
  <2> QED
    BY <2>1, SleepInd, WakeInd, TakeInd, ExecuteInd, SpuriousInd DEF ThreadStep
<1>6. CASE UNCHANGED vars
  <2>1. Outstanding' = Outstanding /\ Idlers' = Idlers /\ Insiders' = Insiders
    BY <1>6 DEF vars, Outstanding, Idlers, Insiders
  <2> QED
    BY <1>6, <2>1 DEF vars, IndInv, TypeOK, LockInv, BatchInv, WorkerInv,
      DisjointInv, TodoCountsOutstanding, CountInv, PushedInv, VerdictInv,
      OutsideInv, VerdictSound
<1> QED
  BY <1>1, <1>2, <1>3, <1>4, <1>5, <1>6 DEF Next, Aborted

(* Every reachable state of the queue satisfies the inductive invariant.   *)
THEOREM Invariance ==
  Spec => []IndInv
<1>1. Init => IndInv
  BY InitInd
<1>2. IndInv /\ [Next]_vars => IndInv'
  BY NextInd
<1> QED
  BY <1>1, <1>2, PTL DEF Spec

(* The state of CCheckQueue has the types its declarations give it: in     *)
(* particular the unsigned nTodo never wraps below zero.                   *)
THEOREM TypeCorrect ==
  Spec => []TypeOK
<1>1. IndInv => TypeOK
  BY DEF IndInv
<1> QED
  BY <1>1, Invariance, PTL

(* Wait returns true exactly when every check of the block succeeds, and   *)
(* then every one of them was executed, whatever the number of workers.    *)
THEOREM VerdictCorrect ==
  Spec => []VerdictSound
<1>1. IndInv => VerdictSound
  BY DEF IndInv
<1> QED
  BY <1>1, Invariance, PTL

(* No worker keeps a check, that is, a pointer into the block, after Wait. *)
THEOREM NoDanglingChecks ==
  Spec => []NothingLeftBehind
<1>1. IndInv => NothingLeftBehind
  BY DEF IndInv, OutsideInv, NothingLeftBehind
<1> QED
  BY <1>1, Invariance, PTL

(* The constructor's assertions hold whenever nobody is inside the queue's *)
(* critical section between two blocks.                                    *)
THEOREM AssertionsUnderLock ==
  Spec => []QuietBetweenBlocks
<1>1. IndInv => QuietBetweenBlocks
  <2> SUFFICES ASSUME IndInv, pc[Master] = "outside", mutex = Nobody
               PROVE  ControlAssertions
    BY DEF QuietBetweenBlocks
  <2>1. Outstanding = {} /\ fAllOk
    BY DEF IndInv, OutsideInv
  <2>2. \A t \in Threads : vChecks[t] = {}
    BY <2>1, FiniteCounted DEF IndInv
  <2>3. nTodo = 0
    BY <2>1, FS_EmptySet DEF IndInv, TodoCountsOutstanding
  <2>4. Insiders = Idlers
    BY <2>2, NobodyAssumption DEF IndInv, Insiders, Idlers, LockInv, BatchInv
  <2> QED
    BY <2>1, <2>3, <2>4 DEF ControlAssertions, IndInv, CountInv
<1> QED
  BY <1>1, Invariance, PTL
=============================================================================
