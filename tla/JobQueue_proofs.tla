--------------------------- MODULE JobQueue_proofs ---------------------------
(***************************************************************************)
(* Theorems about JobQueue, for every set of jobs, every retry setting,    *)
(* every set of faults and any number of restarts.                         *)
(***************************************************************************)
EXTENDS JobQueue, FiniteSetTheorems, SequenceTheorems, TLAPS

-----------------------------------------------------------------------------
(* Lists(q, S): how the list operations of the code preserve it.            *)

LEMMA ListsEmpty == \A S : S = {} => Lists(<<>>, S)
BY DEF Lists

LEMMA ListsAppend ==
  ASSUME NEW T, NEW q \in Seq(T), NEW S \in SUBSET T, NEW x \in T,
         Lists(q, S), x \notin S
  PROVE  Lists(Append(q, x), S \cup {x})
<1> DEFINE r == Append(q, x)
<1>1. /\ Len(q) \in Nat
      /\ Len(r) = Len(q) + 1
      /\ r[Len(q) + 1] = x
      /\ \A i \in 1..Len(q) : r[i] = q[i]
  BY AppendProperties
<1> HIDE DEF r
<1>2. \A i \in 1..Len(r) : i \in 1..Len(q) \/ i = Len(q) + 1
  BY <1>1
<1>3. \A i \in 1..Len(r) : r[i] \in S \cup {x}
  BY <1>1, <1>2 DEF Lists
<1>4. \A y \in S \cup {x} : \E i \in 1..Len(r) : r[i] = y
  <2>1. ASSUME NEW y \in S PROVE \E i \in 1..Len(r) : r[i] = y
    <3>1. PICK i \in 1..Len(q) : q[i] = y
      BY DEF Lists
    <3> QED BY <1>1, <3>1
  <2>2. \E i \in 1..Len(r) : r[i] = x
    BY <1>1
  <2> QED BY <2>1, <2>2
<1>5. \A i, k \in 1..Len(r) : r[i] = r[k] => i = k
  BY <1>1, <1>2 DEF Lists
<1> QED BY <1>3, <1>4, <1>5 DEF Lists, r

LEMMA ListsTail ==
  ASSUME NEW T, NEW q \in Seq(T), NEW S \in SUBSET T, Lists(q, S), q # <<>>
  PROVE  /\ Head(q) \in S
         /\ Tail(q) \in Seq(T)
         /\ Lists(Tail(q), S \ {Head(q)})
<1> DEFINE r == Tail(q)
<1>1. /\ Len(q) \in Nat /\ Len(q) >= 1
      /\ Head(q) = q[1]
      /\ r \in Seq(T)
      /\ Len(r) = Len(q) - 1
      /\ \A i \in 1..Len(r) : r[i] = q[i + 1]
  BY HeadTailProperties, EmptySeq, LenProperties
<1> HIDE DEF r
<1>2. \A i \in 1..Len(r) : r[i] \in S \ {q[1]}
  BY <1>1 DEF Lists
<1>3. ASSUME NEW y \in S \ {q[1]} PROVE \E i \in 1..Len(r) : r[i] = y
  <2>1. PICK i \in 1..Len(q) : q[i] = y
    BY DEF Lists
  <2>2. i - 1 \in 1..Len(r) /\ r[i - 1] = y
    BY <1>1, <2>1
  <2> QED BY <2>2
<1>4. \A i, k \in 1..Len(r) : r[i] = r[k] => i = k
  BY <1>1 DEF Lists
<1>5. q[1] \in S
  BY <1>1 DEF Lists
<1> QED BY <1>1, <1>2, <1>3, <1>4, <1>5 DEF Lists, r

LEMMA ListsConcat ==
  ASSUME NEW T, NEW q \in Seq(T), NEW p \in Seq(T),
         NEW S \in SUBSET T, NEW U \in SUBSET T,
         Lists(q, S), Lists(p, U), S \cap U = {}
  PROVE  Lists(q \o p, S \cup U)
<1> DEFINE r == q \o p
<1>1. /\ Len(q) \in Nat /\ Len(p) \in Nat
      /\ Len(r) = Len(q) + Len(p)
      /\ \A i \in 1..Len(r) : r[i] = IF i <= Len(q) THEN q[i] ELSE p[i - Len(q)]
  BY ConcatProperties, LenProperties
<1> HIDE DEF r
<1>2. ASSUME NEW i \in 1..Len(r)
      PROVE  \/ i \in 1..Len(q) /\ r[i] = q[i] /\ r[i] \in S
             \/ i - Len(q) \in 1..Len(p) /\ r[i] = p[i - Len(q)] /\ r[i] \in U
  BY <1>1 DEF Lists
<1>3. ASSUME NEW y \in S \cup U PROVE \E i \in 1..Len(r) : r[i] = y
  <2>1. CASE y \in S
    <3>1. PICK i \in 1..Len(q) : q[i] = y
      BY <2>1 DEF Lists
    <3>2. i \in 1..Len(r) /\ r[i] = y
      BY <1>1, <3>1
    <3> QED BY <3>2
  <2>2. CASE y \in U
    <3>1. PICK i \in 1..Len(p) : p[i] = y
      BY <2>2 DEF Lists
    <3>2. Len(q) + i \in 1..Len(r) /\ r[Len(q) + i] = y
      BY <1>1, <3>1
    <3> QED BY <3>2
  <2> QED BY <2>1, <2>2
<1>4. ASSUME NEW i \in 1..Len(r), NEW k \in 1..Len(r), r[i] = r[k]
      PROVE  i = k
  <2>1. CASE i \in 1..Len(q) /\ k \in 1..Len(q)
    <3>1. r[i] = q[i] /\ r[k] = q[k]
      BY <1>1, <2>1
    <3> QED BY <1>4, <2>1, <3>1 DEF Lists
  <2>2. CASE i - Len(q) \in 1..Len(p) /\ k - Len(q) \in 1..Len(p)
    <3>1. r[i] = p[i - Len(q)] /\ r[k] = p[k - Len(q)]
      BY <1>1, <2>2
    <3>2. i - Len(q) = k - Len(q)
      BY <1>4, <2>2, <3>1 DEF Lists
    <3> QED BY <1>1, <3>2
  <2>3. /\ \/ i \in 1..Len(q) /\ r[i] \in S
           \/ i - Len(q) \in 1..Len(p) /\ r[i] \in U
        /\ \/ k \in 1..Len(q) /\ r[k] \in S
           \/ k - Len(q) \in 1..Len(p) /\ r[k] \in U
    BY <1>2
  <2> QED BY <1>4, <2>1, <2>2, <2>3
<1> QED BY <1>2, <1>3, <1>4 DEF Lists, r

LEMMA OrderingsList ==
  ASSUME NEW T, IsFiniteSet(T), NEW S \in SUBSET T, NEW q \in Orderings(S)
  PROVE  q \in Seq(T) /\ Lists(q, S)
<1>1. Cardinality(S) \in Nat
  BY FS_Subset, FS_CardinalityType
<1>2. q \in [1..Cardinality(S) -> T] /\ Lists(q, S)
  BY DEF Orderings
<1> QED BY <1>1, <1>2

-----------------------------------------------------------------------------
(* Type correctness.                                                        *)

LEMMA NoJobsType == NoJob \in Job /\ NoJobs \in [Jobs -> Job]
BY DEF NoJob, NoJobs, Job, Status, Settled

LEMMA NewJobType == \A m \in Int : NewJob(m) \in Job
BY DEF NewJob, Job, Status, Settled, AtLeast

LEMMA MarkedJob ==
  ASSUME NEW r \in Job, NEW s \in Status
  PROVE  /\ Marked(r, s) \in Job
         /\ Marked(r, s).status = s
         /\ Marked(r, s).attempts = r.attempts
         /\ Marked(r, s).max = r.max
         /\ Marked(r, s).wait = r.wait
BY DEF Marked, Job

LEMMA RetryDelayType == \A n \in Nat : RetryDelay(n) \in Nat
<1>1. AtLeast(1, RetryBase) \in Nat
  BY ConstantsAssumption DEF AtLeast
<1> QED BY <1>1 DEF RetryDelay

LEMMA SentBackJob ==
  ASSUME NEW r \in Job
  PROVE  /\ SentBack(r) \in Job
         /\ SentBack(r).status = "queued"
         /\ SentBack(r).attempts = r.attempts + 1
         /\ SentBack(r).max = r.max
         /\ SentBack(r).wait = RetryDelay(r.attempts + 1)
<1>1. r.attempts + 1 \in Nat /\ RetryDelay(r.attempts + 1) \in Nat
  BY RetryDelayType DEF Job
<1> QED BY <1>1 DEF SentBack, Job, Status

LEMMA GivenUpJob ==
  ASSUME NEW r \in Job
  PROVE  /\ GivenUp(r) \in Job
         /\ GivenUp(r).status = "failed"
         /\ GivenUp(r).attempts = r.attempts + 1
         /\ GivenUp(r).max = r.max
<1>1. r.attempts + 1 \in Nat
  BY DEF Job
<1> QED BY <1>1 DEF GivenUp, Job, Status, Settled

LEMMA RequeuedType ==
  ASSUME NEW js \in [Jobs -> Job]
  PROVE  Requeued(js) \in [Jobs -> Job]
BY MarkedJob DEF Requeued, Status

LEMMA AgedType ==
  ASSUME NEW js \in [Jobs -> Job]
  PROVE  Aged(js) \in [Jobs -> Job]
BY DEF Aged, Job, AtLeast

LEMMA ReloadedType ==
  ASSUME NEW js \in [Jobs -> Job], NEW p \in Seq(Jobs), NEW q \in Reloaded(js, p)
  PROVE  q \in Seq(Jobs)
<1>1. PICK t \in Orderings(Unlisted(js, p)) : q = p \o t
  BY DEF Reloaded
<1>2. Unlisted(js, p) \in SUBSET Jobs
  BY DEF Unlisted, Having
<1>3. t \in Seq(Jobs)
  BY <1>1, <1>2, OrderingsList, ConstantsAssumption
<1> QED BY <1>1, <1>3, ConcatProperties

DiskType ==
  /\ diskJobs \in [Jobs -> Job]
  /\ diskQueue \in Seq(Jobs)
  /\ diskOk \in BOOLEAN /\ torn \in BOOLEAN

LEMMA PersistType ==
  ASSUME DiskType, NEW js \in [Jobs -> Job], NEW q \in Seq(Jobs),
         Persist(js, q) \/ PersistRaises
  PROVE  DiskType'
BY NoJobsType, EmptySeq DEF DiskType, Persist, PersistRaises, Tear, disk

LEMMA PersistThenType ==
  ASSUME DiskType, NEW js \in [Jobs -> Job], NEW q \in Seq(Jobs),
         NEW next,
         PersistAndAuditThen(js, q, next) \/ PersistThen(js, q, next)
  PROVE  DiskType' /\ worker' \in {next, "dead"}
BY PersistType DEF PersistAndAuditThen, PersistThen

LEMMA InitType == Init => TypeOK
<1>1. Init => diskOk \in BOOLEAN /\ torn \in BOOLEAN
  BY DEF Init
<1> QED BY <1>1, NoJobsType, EmptySeq DEF Init, TypeOK, Phases

LEMMA LifecycleType == TypeOK /\ Lifecycle => TypeOK'
<1> SUFFICES ASSUME TypeOK, Lifecycle PROVE TypeOK'
  OBVIOUS
<1> USE DEF TypeOK, memory, frame, disk, history, Phases
<1>1. CASE LoadState
  <2> DEFINE js == Requeued(diskJobs)
  <2>1. PICK q \in Reloaded(js, diskQueue) :
          \/ /\ UNCHANGED disk \/ Persist(js, q)
             /\ jobs' = js /\ queue' = q /\ worker' = "none"
          \/ /\ PersistRaises
             /\ UNCHANGED <<memory, worker>>
    BY <1>1 DEF LoadState
  <2>2. js \in [Jobs -> Job] /\ q \in Seq(Jobs)
    BY RequeuedType, ReloadedType
  <2>3. DiskType'
    BY <2>1, <2>2, PersistType DEF DiskType
  <2> QED BY <1>1, <2>1, <2>2, <2>3 DEF LoadState, DiskType
<1>2. CASE Start
  BY <1>2 DEF Start
<1>3. CASE Stop
  BY <1>3 DEF Stop
<1>4. CASE Exit
  BY <1>4, NoJobsType, EmptySeq DEF Exit, Forget
<1>5. CASE Crash
  <2>1. DiskType'
    BY <1>5, NoJobsType, EmptySeq DEF Crash, Tear, DiskType
  <2> QED BY <1>5, <2>1, NoJobsType, EmptySeq DEF Crash, Forget, DiskType
<1> QED BY <1>1, <1>2, <1>3, <1>4, <1>5 DEF Lifecycle

LEMMA AdvancedType ==
  ASSUME NEW ticks \in Seq(Nat)
  PROVE  /\ Advanced(ticks) \in Seq(Nat)
         /\ Len(Advanced(ticks)) = Len(ticks)
         /\ \A n \in 1..Len(ticks) : Advanced(ticks)[n] = AtMost(MaxIdle, ticks[n] + 1)
<1>1. Len(ticks) \in Nat /\ DOMAIN ticks = 1..Len(ticks)
  BY LenProperties
<1>2. Advanced(ticks) \in [1..Len(ticks) -> Nat]
  BY <1>1, ConstantsAssumption DEF Advanced, AtMost
<1> QED BY <1>1, <1>2 DEF Advanced

LEMMA TickType == TypeOK /\ Tick => TypeOK'
<1> SUFFICES ASSUME TypeOK, Tick PROVE TypeOK'
  OBVIOUS
<1>1. jobs' \in [Jobs -> Job] /\ diskJobs' \in [Jobs -> Job]
  BY AgedType DEF TypeOK, Tick
<1>2. idle' \in [Jobs -> Seq(Nat)]
  BY AdvancedType DEF TypeOK, Tick
<1> QED BY <1>1, <1>2 DEF TypeOK, Tick, frame

LEMMA EnqueueType ==
  ASSUME TypeOK, NEW j \in Jobs, NEW m \in Retries, Enqueue(j, m)
  PROVE  TypeOK'
<1>1. jobs' \in [Jobs -> Job]
  BY NewJobType, ConstantsAssumption DEF TypeOK, Enqueue
<1>2. queue' \in Seq(Jobs)
  BY AppendProperties DEF TypeOK, Enqueue
<1>3. DiskType'
  BY <1>1, <1>2, PersistType DEF TypeOK, Enqueue, DiskType
<1> QED BY <1>1, <1>2, <1>3 DEF TypeOK, Enqueue, DiskType, frame


(* The ticks of a job that has been sent back once more.                    *)
LEMMA RecordedType ==
  ASSUME NEW ticks \in Seq(Nat), NEW n \in Nat
  PROVE  /\ Recorded(ticks, n) \in Seq(Nat)
         /\ n <= Len(ticks) =>
              /\ Len(Recorded(ticks, n)) = n + 1
              /\ \A i \in 1..n : Recorded(ticks, n)[i] = ticks[i]
              /\ Recorded(ticks, n)[n + 1] = 0
<1> DEFINE k == AtMost(Len(ticks), n)
           kept == SubSeq(ticks, 1, k)
<1>1. Len(ticks) \in Nat /\ k \in 0..Len(ticks) /\ (n <= Len(ticks) => k = n)
  BY LenProperties DEF AtMost
<1>2. \A i \in 1..k : ticks[i] \in Nat
  BY <1>1, ElementOfSeq
<1> HIDE DEF k
<1>3. /\ kept \in Seq(Nat) /\ Len(kept) = k
      /\ \A i \in 1..k : kept[i] = ticks[i]
  BY <1>1, <1>2, SubSeqProperties
<1> HIDE DEF kept
<1>4. /\ Append(kept, 0) \in Seq(Nat)
      /\ Len(Append(kept, 0)) = k + 1
      /\ \A i \in 1..k : Append(kept, 0)[i] = kept[i]
      /\ Append(kept, 0)[k + 1] = 0
  BY <1>1, <1>3, AppendProperties
<1>5. Recorded(ticks, n) = Append(kept, 0)
  BY DEF Recorded, kept, k
<1> QED BY <1>1, <1>3, <1>4, <1>5

LEMMA WorkerStepType == TypeOK /\ WorkerStep => TypeOK'
<1> SUFFICES ASSUME TypeOK, WorkerStep PROVE TypeOK'
  OBVIOUS
<1> USE DEF memory, frame, disk, history
<1>1. CASE BeginScan
  BY <1>1, LenProperties DEF TypeOK, BeginScan, Phases
<1>2. CASE SkipHead
  <2>1. queue # <<>>
    BY <1>2, EmptySeq DEF TypeOK, SkipHead
  <2>2. /\ Head(queue) \in Jobs /\ Tail(queue) \in Seq(Jobs)
        /\ Len(Tail(queue)) = Len(queue) - 1
    BY <2>1, HeadTailProperties DEF TypeOK
  <2>3. queue' \in Seq(Jobs) /\ Len(queue') >= Len(queue) - 1
    BY <1>2, <2>2, AppendProperties, LenProperties DEF SkipHead
  <2>4. left' \in Nat /\ left' <= Len(queue')
    BY <1>2, <2>2, <2>3, LenProperties DEF TypeOK, SkipHead
  <2> QED BY <1>2, <2>3, <2>4 DEF TypeOK, SkipHead, Phases
<1>3. CASE TakeHead
  <2>1. queue # <<>>
    BY <1>3, EmptySeq DEF TypeOK, TakeHead
  <2>2. Head(queue) \in Jobs /\ Tail(queue) \in Seq(Jobs)
    BY <2>1, HeadTailProperties DEF TypeOK
  <2>3. jobs' \in [Jobs -> Job]
    BY <1>3, <2>2, MarkedJob DEF TypeOK, TakeHead, Status
  <2>4. DiskType' /\ worker' \in {"got", "dead"}
    BY <1>3, <2>2, <2>3, PersistType DEF TypeOK, TakeHead, DiskType, PersistThen
  <2>5. takes' \in [Jobs -> Nat]
    BY <1>3, <2>2 DEF TypeOK, TakeHead
  <2> QED BY <1>3, <2>2, <2>3, <2>4, <2>5 DEF TypeOK, TakeHead, DiskType, Phases, Busy
<1>4. CASE EndScan \/ WakeUp \/ ReadJob \/ HandlerEnds
  BY <1>4 DEF TypeOK, EndScan, WakeUp, ReadJob, HandlerEnds, Phases, Busy
<1>5. CASE MarkCompleted \/ MarkFailed
  <2>1. jobs' \in [Jobs -> Job]
    <3>1. CASE MarkCompleted
      BY <3>1, MarkedJob DEF TypeOK, MarkCompleted, Status, Settled
    <3>2. CASE MarkFailed
      BY <3>2, GivenUpJob DEF TypeOK, MarkFailed
    <3> QED BY <1>5, <3>1, <3>2
  <2>2. DiskType' /\ worker' \in {"poll", "dead"}
    BY <1>5, <2>1, PersistThenType DEF TypeOK, MarkCompleted, MarkFailed, DiskType
  <2> QED BY <1>5, <2>1, <2>2 DEF TypeOK, MarkCompleted, MarkFailed, DiskType, Phases
<1>6. CASE MarkRetry
  <2>1. jobs' \in [Jobs -> Job]
    BY <1>6, SentBackJob DEF TypeOK, MarkRetry
  <2>2. queue' \in Seq(Jobs)
    BY <1>6, AppendProperties DEF TypeOK, MarkRetry
  <2>3. DiskType' /\ worker' \in {"poll", "dead"}
    BY <1>6, <2>1, <2>2, PersistThenType DEF TypeOK, MarkRetry, DiskType
  <2>4. idle' \in [Jobs -> Seq(Nat)]
    BY <1>6, RecordedType DEF TypeOK, MarkRetry, Job
  <2> QED BY <1>6, <2>1, <2>2, <2>3, <2>4 DEF TypeOK, MarkRetry, DiskType, Phases
<1> QED BY <1>1, <1>2, <1>3, <1>4, <1>5, <1>6 DEF WorkerStep

LEMMA NextType == TypeOK /\ [Next]_vars => TypeOK'
<1>1. TypeOK /\ UNCHANGED vars => TypeOK'
  BY DEF TypeOK, vars, memory, frame, disk, history
<1> QED BY <1>1, LifecycleType, TickType, EnqueueType, WorkerStepType DEF Next

(* In every behaviour the variables keep their shape: job records stay job  *)
(* records, in memory and in the vault, and the scan never runs past the    *)
(* end of the list.                                                         *)
THEOREM TypeCorrect == Spec => []TypeOK
BY InitType, NextType, PTL DEF Spec

-----------------------------------------------------------------------------
(* The inductive invariant.  Sound says of a job table and a list of ids    *)
(* what every operation of the queue keeps; it holds of the pair in memory  *)
(* and of the pair in the vault, which a failed write leaves behind.        *)

Sound(js, q) ==
  /\ Lists(q, Having(js, "queued"))
  /\ Budgeted(js)
  /\ \A j \in Jobs : js[j].status # "queued" => js[j].wait = 0

HeldRuns == worker \in Busy => jobs[cur].status = "running"

Fresh == \A j \in Jobs \ issued : jobs[j].status = "none" /\ diskJobs[j].status = "none"

IInv == /\ TypeOK
        /\ Sound(jobs, queue)
        /\ Sound(diskJobs, diskQueue)
        /\ HeldRuns
        /\ Fresh

LEMMA SoundNoJobs == Sound(NoJobs, <<>>)
<1>1. Having(NoJobs, "queued") = {}
  BY DEF Having, NoJobs, NoJob
<1> QED BY <1>1, ListsEmpty DEF Sound, Budgeted, NoJobs, NoJob

(* One record replaced, the list unchanged. *)
LEMMA SoundReplace ==
  ASSUME NEW js \in [Jobs -> Job], NEW q \in Seq(Jobs), Sound(js, q),
         NEW j \in Jobs, js[j].status # "queued",
         NEW r \in Job, r.status # "queued", r.wait = 0,
         IF r.status = "failed" THEN r.attempts = r.max + 1 ELSE r.attempts <= r.max
  PROVE  Sound([js EXCEPT ![j] = r], q)
<1> DEFINE ks == [js EXCEPT ![j] = r]
<1>1. \A k \in Jobs : ks[k] = IF k = j THEN r ELSE js[k]
  OBVIOUS
<1> HIDE DEF ks
<1>2. Having(ks, "queued") = Having(js, "queued")
  BY <1>1 DEF Having
<1> QED BY <1>1, <1>2 DEF Sound, Budgeted, ks

(* A job becomes queued and joins the end of the list. *)
LEMMA SoundAppend ==
  ASSUME NEW js \in [Jobs -> Job], NEW q \in Seq(Jobs), Sound(js, q),
         NEW j \in Jobs, js[j].status # "queued",
         NEW r \in Job, r.status = "queued", r.attempts <= r.max
  PROVE  Sound([js EXCEPT ![j] = r], Append(q, j))
<1> DEFINE ks == [js EXCEPT ![j] = r]
<1>1. \A k \in Jobs : ks[k] = IF k = j THEN r ELSE js[k]
  OBVIOUS
<1> HIDE DEF ks
<1>2. Having(ks, "queued") = Having(js, "queued") \cup {j}
  BY <1>1 DEF Having
<1>3. j \notin Having(js, "queued") /\ Having(js, "queued") \in SUBSET Jobs
  BY DEF Having
<1>4. Lists(Append(q, j), Having(ks, "queued"))
  BY <1>2, <1>3, ListsAppend DEF Sound
<1> QED BY <1>1, <1>4 DEF Sound, Budgeted, ks

(* The head of the list is a queued job; it leaves the list as it starts to *)
(* run, or goes to the back.                                                *)
LEMMA SoundHead ==
  ASSUME NEW js \in [Jobs -> Job], NEW q \in Seq(Jobs), Sound(js, q), q # <<>>
  PROVE  /\ Head(q) \in Jobs
         /\ js[Head(q)].status = "queued"
         /\ Sound(js, Append(Tail(q), Head(q)))
         /\ js[Head(q)].wait = 0 =>
              Sound([js EXCEPT ![Head(q)] = Marked(@, "running")], Tail(q))
<1> DEFINE S == Having(js, "queued")
           h == Head(q)
           r == Marked(js[h], "running")
           ks == [js EXCEPT ![h] = r]
<1>1. S \in SUBSET Jobs /\ Lists(q, S)
  BY DEF Having, Sound
<1>2. h \in S /\ Tail(q) \in Seq(Jobs) /\ Lists(Tail(q), S \ {h})
  BY <1>1, ListsTail
<1>3. h \in Jobs /\ js[h].status = "queued"
  BY <1>2 DEF Having
<1>4. Lists(Append(Tail(q), h), S)
  <2>1. Lists(Append(Tail(q), h), (S \ {h}) \cup {h})
    BY <1>1, <1>2, <1>3, ListsAppend
  <2>2. (S \ {h}) \cup {h} = S
    BY <1>2
  <2> QED BY <2>1, <2>2
<1>5. ASSUME js[h].wait = 0 PROVE Sound(ks, Tail(q))
  <2>1. r.status = "running" /\ r.wait = 0 /\ r.attempts = js[h].attempts /\ r.max = js[h].max
    BY <1>3, <1>5 DEF Marked, Job
  <2>2. \A k \in Jobs : ks[k] = IF k = h THEN r ELSE js[k]
    BY <1>3
  <2> HIDE DEF ks, r
  <2>3. Having(ks, "queued") = S \ {h}
    BY <2>1, <2>2 DEF Having
  <2> QED BY <1>2, <1>3, <2>1, <2>2, <2>3 DEF Sound, Budgeted
<1> QED BY <1>3, <1>4, <1>5 DEF Sound

LEMMA AgedRecords ==
  ASSUME NEW js \in [Jobs -> Job], NEW j \in Jobs
  PROVE  /\ Aged(js)[j].status = js[j].status
         /\ Aged(js)[j].attempts = js[j].attempts
         /\ Aged(js)[j].max = js[j].max
         /\ Aged(js)[j].wait = IF js[j].wait = 0 THEN 0 ELSE js[j].wait - 1
<1>1. js[j] \in Job /\ js[j].wait \in Nat
  BY DEF Job
<1>2. AtLeast(0, js[j].wait - 1) = IF js[j].wait = 0 THEN 0 ELSE js[j].wait - 1
  BY <1>1 DEF AtLeast
<1> QED BY <1>1, <1>2 DEF Aged, Job

LEMMA SoundAged ==
  ASSUME NEW js \in [Jobs -> Job], NEW q, Sound(js, q)
  PROVE  Sound(Aged(js), q)
<1> DEFINE ks == Aged(js)
<1>1. \A k \in Jobs : /\ ks[k].status = js[k].status
                      /\ ks[k].attempts = js[k].attempts
                      /\ ks[k].max = js[k].max
                      /\ js[k].wait = 0 => ks[k].wait = 0
  BY DEF Aged, AtLeast, Job
<1> HIDE DEF ks
<1>2. Having(ks, "queued") = Having(js, "queued")
  BY <1>1 DEF Having
<1> QED BY <1>1, <1>2 DEF Sound, Budgeted, ks

LEMMA SoundReload ==
  ASSUME NEW js \in [Jobs -> Job], NEW q \in Seq(Jobs), Sound(js, q),
         NEW p \in Reloaded(Requeued(js), q)
  PROVE  Sound(Requeued(js), p)
<1> DEFINE ks == Requeued(js)
           Q == Having(js, "queued")
           R == Having(js, "running")
<1>1. \A k \in Jobs : /\ ks[k].status = IF js[k].status = "running" THEN "queued"
                                                                   ELSE js[k].status
                      /\ ks[k].attempts = js[k].attempts
                      /\ ks[k].max = js[k].max
                      /\ js[k].status # "running" => ks[k] = js[k]
  BY MarkedJob DEF Requeued, Status
<1>2. PICK t \in Orderings(Unlisted(ks, q)) : p = q \o t
  BY DEF Reloaded
<1> HIDE DEF ks
<1>3. Having(ks, "queued") = Q \cup R
  BY <1>1 DEF Having
<1>4. {q[i] : i \in 1..Len(q)} = Q
  BY DEF Sound, Lists
<1>5. Q \cap R = {} /\ Q \in SUBSET Jobs /\ R \in SUBSET Jobs
  BY DEF Having
<1>6. Unlisted(ks, q) = R
  BY <1>3, <1>4, <1>5 DEF Unlisted
<1>7. t \in Seq(Jobs) /\ Lists(t, R)
  BY <1>2, <1>5, <1>6, OrderingsList, ConstantsAssumption
<1>8. Lists(p, Q \cup R)
  BY <1>2, <1>5, <1>7, ListsConcat DEF Sound
<1> QED BY <1>1, <1>3, <1>8 DEF Sound, Budgeted, ks

(* A write, successful or not, leaves in the vault the new pair, the old    *)
(* one or nothing.                                                          *)
LEMMA PersistSound ==
  ASSUME Sound(diskJobs, diskQueue), NEW js, NEW q, Sound(js, q),
         Persist(js, q) \/ PersistRaises
  PROVE  /\ Sound(diskJobs', diskQueue')
         /\ \A j \in Jobs : diskJobs[j].status = "none" /\ js[j].status = "none"
                              => diskJobs'[j].status = "none"
<1>1. CASE diskJobs' = js /\ diskQueue' = q
  BY <1>1
<1>2. CASE diskJobs' = diskJobs /\ diskQueue' = diskQueue
  BY <1>2
<1>3. CASE diskJobs' = NoJobs /\ diskQueue' = <<>>
  BY <1>3, SoundNoJobs DEF NoJobs, NoJob
<1> QED BY <1>1, <1>2, <1>3 DEF Persist, PersistRaises, Tear, disk

LEMMA PersistThenPersists ==
  ASSUME NEW js, NEW q, NEW next,
         PersistThen(js, q, next) \/ PersistAndAuditThen(js, q, next)
  PROVE  /\ Persist(js, q) \/ PersistRaises
         /\ worker' \in {next, "dead"}
BY DEF PersistThen, PersistAndAuditThen

LEMMA InitIInv == Init => IInv
BY InitType, SoundNoJobs DEF Init, IInv, HeldRuns, Fresh, Busy, NoJobs, NoJob

LEMMA LifecycleIInv ==
  ASSUME IInv, Lifecycle, TypeOK'
  PROVE  IInv'
<1>1. CASE LoadState
  <2> DEFINE js == Requeued(diskJobs)
  <2>1. PICK q \in Reloaded(js, diskQueue) :
          \/ /\ \/ js = diskJobs /\ q = diskQueue /\ UNCHANGED disk
                \/ Persist(js, q)
             /\ jobs' = js /\ queue' = q /\ worker' = "none"
          \/ /\ PersistRaises
             /\ UNCHANGED <<memory, worker>>
    BY <1>1 DEF LoadState
  <2>2. Sound(js, q)
    BY SoundReload DEF IInv, TypeOK
  <2>3. \A j \in Jobs : diskJobs[j].status = "none" => js[j].status = "none"
    BY DEF Requeued
  <2>4. /\ Sound(diskJobs', diskQueue')
        /\ \A j \in Jobs : diskJobs[j].status = "none" => diskJobs'[j].status = "none"
    BY <2>1, <2>2, <2>3, PersistSound DEF IInv, disk
  <2>5. Sound(jobs', queue') /\ HeldRuns'
    BY <1>1, <2>1, <2>2 DEF IInv, HeldRuns, Busy, memory, LoadState
  <2>6. Fresh'
    BY <1>1, <2>1, <2>3, <2>4 DEF IInv, Fresh, memory, history, LoadState
  <2> QED BY <2>4, <2>5, <2>6 DEF IInv
<1>2. CASE Start \/ Stop
  BY <1>2 DEF IInv, Start, Stop, HeldRuns, Fresh, Busy, memory, disk, frame, history
<1>3. CASE Exit \/ Crash
  <2>1. /\ jobs' = NoJobs /\ queue' = <<>> /\ worker' = "off" /\ issued' = issued
        /\ \/ diskJobs' = diskJobs /\ diskQueue' = diskQueue
           \/ diskJobs' = NoJobs /\ diskQueue' = <<>>
    BY <1>3 DEF Exit, Crash, Forget, Tear, disk, history
  <2>2. Sound(jobs', queue') /\ Sound(diskJobs', diskQueue')
    BY <2>1, SoundNoJobs DEF IInv
  <2>3. HeldRuns' /\ Fresh'
    BY <2>1 DEF IInv, HeldRuns, Fresh, Busy, NoJobs, NoJob
  <2> QED BY <2>2, <2>3 DEF IInv
<1> QED BY <1>1, <1>2, <1>3 DEF Lifecycle

LEMMA TickIInv ==
  ASSUME IInv, Tick, TypeOK'
  PROVE  IInv'
<1>1. Sound(jobs', queue') /\ Sound(diskJobs', diskQueue')
  <2>1. /\ jobs \in [Jobs -> Job] /\ Sound(jobs, queue)
        /\ diskJobs \in [Jobs -> Job] /\ Sound(diskJobs, diskQueue)
    BY DEF IInv, TypeOK
  <2>2. /\ jobs' = Aged(jobs) /\ queue' = queue
        /\ diskJobs' = Aged(diskJobs) /\ diskQueue' = diskQueue
    BY DEF Tick
  <2> QED BY <2>1, <2>2, SoundAged
<1>2. \A j \in Jobs : jobs'[j].status = jobs[j].status /\ diskJobs'[j].status = diskJobs[j].status
  <2>1. jobs \in [Jobs -> Job] /\ diskJobs \in [Jobs -> Job]
    BY DEF IInv, TypeOK
  <2> QED BY <2>1, AgedRecords DEF Tick
<1> QED BY <1>1, <1>2 DEF IInv, TypeOK, HeldRuns, Fresh, Tick, frame

LEMMA EnqueueIInv ==
  ASSUME IInv, NEW j \in Jobs, NEW m \in Retries, Enqueue(j, m), TypeOK'
  PROVE  IInv'
<1>1. /\ NewJob(m) \in Job /\ NewJob(m).status = "queued"
      /\ NewJob(m).attempts <= NewJob(m).max
  BY NewJobType, ConstantsAssumption DEF NewJob, AtLeast
<1>2. jobs[j].status = "none"
  BY DEF IInv, Fresh, Enqueue
<1>3. Sound(jobs', queue')
  BY <1>1, <1>2, SoundAppend DEF IInv, TypeOK, Enqueue
<1>4. Persist(jobs', queue') \/ PersistRaises
  BY DEF Enqueue
<1>5. /\ Sound(diskJobs', diskQueue')
      /\ \A k \in Jobs : diskJobs[k].status = "none" /\ jobs'[k].status = "none"
                           => diskJobs'[k].status = "none"
  BY <1>3, <1>4, PersistSound DEF IInv
<1>6. \A k \in Jobs : k # j => jobs'[k] = jobs[k]
  BY DEF IInv, TypeOK, Enqueue
<1>7. HeldRuns'
  BY <1>2, <1>6 DEF IInv, TypeOK, HeldRuns, Enqueue, frame
<1>8. Fresh'
  BY <1>5, <1>6 DEF IInv, Fresh, Enqueue
<1> QED BY <1>3, <1>5, <1>7, <1>8 DEF IInv

LEMMA WorkerStepIInv ==
  ASSUME IInv, WorkerStep, TypeOK'
  PROVE  IInv'
<1>1. CASE BeginScan \/ EndScan \/ WakeUp \/ ReadJob \/ HandlerEnds
  BY <1>1 DEF IInv, BeginScan, EndScan, WakeUp, ReadJob, HandlerEnds,
              HeldRuns, Fresh, Busy, memory, disk, frame, history
<1>2. CASE SkipHead
  <2>1. queue # <<>>
    BY <1>2, EmptySeq DEF IInv, TypeOK, SkipHead
  <2>2. Sound(jobs, queue')
    BY <1>2, <2>1, SoundHead DEF IInv, TypeOK, SkipHead
  <2> QED BY <1>2, <2>2 DEF IInv, SkipHead, HeldRuns, Fresh, Busy, disk, history
<1>3. CASE TakeHead
  <2>1. queue # <<>>
    BY <1>3, EmptySeq DEF IInv, TypeOK, TakeHead
  <2>2. Head(queue) \in Jobs /\ Sound(jobs', queue')
    BY <1>3, <2>1, SoundHead DEF IInv, TypeOK, TakeHead, Due
  <2>3. /\ Sound(diskJobs', diskQueue')
        /\ \A k \in Jobs : diskJobs[k].status = "none" /\ jobs'[k].status = "none"
                             => diskJobs'[k].status = "none"
        /\ worker' \in {"got", "dead"}
    BY <1>3, <2>2, PersistSound, PersistThenPersists DEF IInv, TakeHead
  <2>4. /\ jobs'[cur'].status = "running"
        /\ \A k \in Jobs : jobs[k].status = "none" => jobs'[k].status = "none"
    <3>1. /\ cur' = Head(queue) /\ Head(queue) \in Jobs
          /\ jobs[Head(queue)].status = "queued"
          /\ jobs' = [jobs EXCEPT ![Head(queue)] = Marked(jobs[Head(queue)], "running")]
      BY <1>3, <2>2 DEF TakeHead, Due
    <3>2. Marked(jobs[Head(queue)], "running").status = "running"
      BY <2>2, MarkedJob DEF IInv, TypeOK, Status
    <3> QED BY <3>1, <3>2 DEF IInv, TypeOK
  <2>5. HeldRuns' /\ Fresh'
    BY <1>3, <2>3, <2>4 DEF IInv, HeldRuns, Fresh, TakeHead
  <2> QED BY <2>2, <2>3, <2>5 DEF IInv
<1>4. CASE MarkCompleted \/ MarkRetry \/ MarkFailed
  <2>1. /\ jobs[cur] \in Job /\ jobs[cur].status = "running" /\ jobs[cur].wait = 0
        /\ jobs[cur].attempts <= jobs[cur].max
    BY <1>4 DEF IInv, TypeOK, HeldRuns, Busy, Sound, Budgeted,
                MarkCompleted, MarkRetry, MarkFailed
  <2>2. Sound(jobs', queue')
    <3>0. /\ jobs \in [Jobs -> Job] /\ queue \in Seq(Jobs) /\ cur \in Jobs
          /\ Sound(jobs, queue)
      BY DEF IInv, TypeOK
    <3>1. CASE MarkCompleted
      <4> DEFINE r == Marked(jobs[cur], "completed")
      <4>1. /\ r \in Job /\ r.status = "completed" /\ r.wait = 0
            /\ r.attempts <= r.max
        BY <2>1, MarkedJob DEF Status, Settled
      <4>2. jobs' = [jobs EXCEPT ![cur] = r] /\ queue' = queue
        BY <3>1 DEF MarkCompleted
      <4> HIDE DEF r
      <4> QED BY <2>1, <3>0, <4>1, <4>2, SoundReplace
    <3>2. CASE MarkRetry
      <4> DEFINE r == SentBack(jobs[cur])
      <4>1. r \in Job /\ r.status = "queued" /\ r.attempts <= r.max
        BY <2>1, <3>2, SentBackJob DEF MarkRetry, MayRetry
      <4>2. jobs' = [jobs EXCEPT ![cur] = r] /\ queue' = Append(queue, cur)
        BY <3>2 DEF MarkRetry
      <4> HIDE DEF r
      <4> QED BY <2>1, <3>0, <4>1, <4>2, SoundAppend
    <3>3. CASE MarkFailed
      <4> DEFINE r == GivenUp(jobs[cur])
      <4>1. r.wait = 0
        BY <2>1 DEF GivenUp, Job
      <4>2. jobs[cur].attempts = jobs[cur].max
        BY <2>1, <3>3 DEF MarkFailed, MayRetry, Job
      <4>3. r \in Job /\ r.status = "failed" /\ r.attempts = r.max + 1
        BY <2>1, <4>2, GivenUpJob
      <4>4. jobs' = [jobs EXCEPT ![cur] = r] /\ queue' = queue
        BY <3>3 DEF MarkFailed
      <4> HIDE DEF r
      <4> QED BY <2>1, <3>0, <4>1, <4>3, <4>4, SoundReplace
    <3> QED BY <1>4, <3>1, <3>2, <3>3
  <2>3. /\ Persist(jobs', queue') \/ PersistRaises
        /\ worker' \in {"poll", "dead"}
    BY <1>4, PersistThenPersists DEF MarkCompleted, MarkRetry, MarkFailed
  <2>4. /\ Sound(diskJobs', diskQueue')
        /\ \A k \in Jobs : diskJobs[k].status = "none" /\ jobs'[k].status = "none"
                             => diskJobs'[k].status = "none"
    BY <2>2, <2>3, PersistSound DEF IInv
  <2>5. \A k \in Jobs : jobs[k].status = "none" => jobs'[k].status = "none"
    BY <1>4, <2>1 DEF IInv, TypeOK, MarkCompleted, MarkRetry, MarkFailed
  <2>6. issued' = issued
    BY <1>4 DEF MarkCompleted, MarkRetry, MarkFailed, history
  <2>7. HeldRuns' /\ Fresh'
    BY <2>3, <2>4, <2>5, <2>6 DEF IInv, HeldRuns, Fresh, Busy
  <2> QED BY <2>2, <2>4, <2>7 DEF IInv
<1> QED BY <1>1, <1>2, <1>3, <1>4 DEF WorkerStep

LEMMA NextIInv == IInv /\ [Next]_vars => IInv'
<1> SUFFICES ASSUME IInv, [Next]_vars PROVE IInv'
  OBVIOUS
<1>1. TypeOK'
  BY NextType DEF IInv
<1>2. CASE UNCHANGED vars
  BY <1>2 DEF IInv, TypeOK, Sound, HeldRuns, Fresh, vars, memory, frame, disk, history
<1> QED BY <1>1, <1>2, LifecycleIInv, TickIInv, EnqueueIInv, WorkerStepIInv DEF Next

LEMMA Inductive == Spec => []IInv
BY InitIInv, NextIInv, PTL DEF Spec

(* No job is ever queued twice, queued and forgotten, or listed while it    *)
(* runs or after it settled, in memory or in the vault file, under every    *)
(* fault and every restart.                                                 *)
THEOREM QueueIsExact == Spec => []QueueExact
<1>1. IInv => QueueExact
  BY DEF IInv, Sound, QueueExact
<1> QED BY <1>1, Inductive, PTL

(* The failures recorded for a job never exceed its budget, and a job is    *)
(* failed exactly when it has spent it.                                     *)
THEOREM BudgetIsKept == Spec => []AttemptsWithinBudget
<1>1. IInv => AttemptsWithinBudget
  BY DEF IInv, Sound, AttemptsWithinBudget
<1> QED BY <1>1, Inductive, PTL

-----------------------------------------------------------------------------
(* Durability, until a write of the vault file is cut short.  What the      *)
(* vault holds, the memory of a live process holds too, and a settled       *)
(* record is the same in both; so no later write can lose or change it.     *)

Covers ==
  worker # "off" =>
    \A j \in Jobs : /\ diskJobs[j].status # "none" => jobs[j].status # "none"
                    /\ diskJobs[j].status \in Settled => jobs[j] = diskJobs[j]

DInv == IInv /\ Covers /\ AckedInVault

UntilTorn == ~torn => DInv

(* What a step does to the records of a table. *)
KeepsSettled(js, ks) == \A j \in Jobs : js[j].status \in Settled => ks[j] = js[j]
KeepsPresent(js, ks) ==
  \A j \in Jobs : js[j].status # "none" => ks[j].status # "none"

DiskKept == KeepsSettled(diskJobs, diskJobs') /\ KeepsPresent(diskJobs, diskJobs')

LEMMA AgedKeeps ==
  ASSUME NEW js \in [Jobs -> Job],
         \A j \in Jobs : js[j].status # "queued" => js[j].wait = 0
  PROVE  KeepsSettled(js, Aged(js)) /\ KeepsPresent(js, Aged(js))
<1>1. ASSUME NEW j \in Jobs, js[j].status \in Settled
      PROVE  Aged(js)[j] = js[j]
  <2>1. js[j] \in Job /\ js[j].wait = 0
    BY <1>1 DEF Settled
  <2>2. AtLeast(0, js[j].wait - 1) = 0
    BY <2>1 DEF AtLeast
  <2>3. Aged(js)[j] = [js[j] EXCEPT !.wait = 0]
    BY <2>2 DEF Aged
  <2> QED BY <2>1, <2>3 DEF Job
<1>2. \A j \in Jobs : Aged(js)[j].status = js[j].status
  BY DEF Aged, Job
<1> QED BY <1>1, <1>2 DEF KeepsSettled, KeepsPresent

(* One record changes, of a job that was not settled and does not vanish. *)
LEMMA ReplaceKeeps ==
  ASSUME NEW js \in [Jobs -> Job], NEW j \in Jobs, js[j].status \notin Settled,
         NEW r, r.status # "none"
  PROVE  /\ KeepsSettled(js, [js EXCEPT ![j] = r])
         /\ KeepsPresent(js, [js EXCEPT ![j] = r])
BY DEF KeepsSettled, KeepsPresent

(* A step of a live process that changes the table that way and then tries  *)
(* to save it. *)
LEMMA SavingStep ==
  ASSUME ~torn', TypeOK, Covers, worker # "off",
         KeepsSettled(jobs, jobs'), KeepsPresent(jobs, jobs'),
         Persist(jobs', queue') \/ PersistRaises
  PROVE  Covers' /\ DiskKept
<1>1. diskJobs' = jobs' \/ diskJobs' = diskJobs
  BY DEF Persist, PersistRaises, Tear, disk
<1> QED BY <1>1 DEF Covers, KeepsSettled, KeepsPresent, DiskKept

LEMMA LifecycleDurable ==
  ASSUME ~torn', DInv, Lifecycle
  PROVE  Covers' /\ DiskKept /\ acked' = acked
<1>1. CASE LoadState
  <2> DEFINE js == Requeued(diskJobs)
  <2>1. /\ acked' = acked
        /\ \/ diskJobs' = js /\ jobs' = js
           \/ diskJobs' = diskJobs /\ worker' = "off"
    BY <1>1 DEF LoadState, Persist, PersistRaises, Tear, memory, disk, history
  <2>2. KeepsSettled(diskJobs, js) /\ KeepsPresent(diskJobs, js)
    <3>1. \A j \in Jobs : js[j].status = IF diskJobs[j].status = "running"
                                         THEN "queued" ELSE diskJobs[j].status
      BY MarkedJob DEF Requeued, Status, DInv, IInv, TypeOK
    <3>2. \A j \in Jobs : diskJobs[j].status # "running" => js[j] = diskJobs[j]
      BY DEF Requeued
    <3> HIDE DEF js
    <3> QED BY <3>1, <3>2 DEF KeepsSettled, KeepsPresent, Settled
  <2> HIDE DEF js
  <2> QED BY <2>1, <2>2 DEF Covers, DiskKept, KeepsSettled, KeepsPresent
<1>2. CASE Start \/ Stop
  BY <1>2 DEF DInv, Start, Stop, Covers, DiskKept, KeepsSettled, KeepsPresent,
              memory, disk, frame, history
<1>3. CASE Exit \/ Crash
  BY <1>3 DEF Exit, Crash, Forget, Tear, Covers, DiskKept, KeepsSettled, KeepsPresent,
              disk, history
<1> QED BY <1>1, <1>2, <1>3 DEF Lifecycle

LEMMA TickDurable ==
  ASSUME DInv, Tick
  PROVE  Covers' /\ DiskKept /\ acked' = acked
<1>1. DiskKept /\ KeepsSettled(jobs, jobs') /\ KeepsPresent(jobs, jobs')
  BY AgedKeeps DEF DInv, IInv, TypeOK, Sound, Tick, DiskKept
<1>2. \A j \in Jobs : diskJobs'[j].status = diskJobs[j].status
  BY DEF DInv, IInv, TypeOK, Tick, Aged, Job
<1> QED BY <1>1, <1>2 DEF DInv, Covers, DiskKept, KeepsSettled, KeepsPresent, Tick

LEMMA WorkerStepDurable ==
  ASSUME ~torn', DInv, WorkerStep
  PROVE  Covers' /\ DiskKept /\ acked' = acked
<1> USE DEF DInv, IInv
<1>1. CASE BeginScan \/ SkipHead \/ EndScan \/ WakeUp \/ ReadJob \/ HandlerEnds
  BY <1>1 DEF BeginScan, SkipHead, EndScan, WakeUp, ReadJob, HandlerEnds,
              Covers, DiskKept, KeepsSettled, KeepsPresent, memory, disk, frame, history
<1>2. CASE TakeHead
  <2>1. queue # <<>>
    BY <1>2, EmptySeq DEF TypeOK, TakeHead
  <2>2. Head(queue) \in Jobs /\ jobs[Head(queue)].status = "queued"
    BY <2>1, SoundHead DEF TypeOK
  <2>3. Marked(jobs[Head(queue)], "running").status = "running"
    BY <2>2, MarkedJob DEF TypeOK, Status
  <2>4. KeepsSettled(jobs, jobs') /\ KeepsPresent(jobs, jobs')
    BY <1>2, <2>2, <2>3, ReplaceKeeps DEF TypeOK, TakeHead, Settled
  <2> QED BY <1>2, <2>4, SavingStep, PersistThenPersists DEF TakeHead
<1>3. CASE MarkCompleted \/ MarkRetry \/ MarkFailed
  <2>1. cur \in Jobs /\ jobs[cur] \in Job /\ jobs[cur].status = "running"
    BY <1>3 DEF TypeOK, HeldRuns, Busy, MarkCompleted, MarkRetry, MarkFailed
  <2>2. PICK r : jobs' = [jobs EXCEPT ![cur] = r] /\ r.status # "none"
    BY <1>3, <2>1, MarkedJob, SentBackJob, GivenUpJob
       DEF MarkCompleted, MarkRetry, MarkFailed, Status, Settled
  <2>3. KeepsSettled(jobs, jobs') /\ KeepsPresent(jobs, jobs')
    BY <2>1, <2>2, ReplaceKeeps DEF TypeOK, Settled
  <2>4. /\ Persist(jobs', queue') \/ PersistRaises
        /\ worker # "off" /\ acked' = acked
    BY <1>3, PersistThenPersists DEF MarkCompleted, MarkRetry, MarkFailed, history
  <2> QED BY <2>3, <2>4, SavingStep
<1> QED BY <1>1, <1>2, <1>3 DEF WorkerStep

LEMMA EnqueueDurable ==
  ASSUME ~torn', DInv, NEW j \in Jobs, NEW m \in Retries, Enqueue(j, m)
  PROVE  Covers' /\ DiskKept /\ AckedInVault'
<1> USE DEF DInv, IInv
<1>1. jobs[j].status = "none" /\ NewJob(m).status = "queued"
  BY DEF Fresh, Enqueue, NewJob
<1>2. KeepsSettled(jobs, jobs') /\ KeepsPresent(jobs, jobs')
  BY <1>1, ReplaceKeeps DEF TypeOK, Enqueue, Settled
<1>3. Covers' /\ DiskKept
  BY <1>2, SavingStep DEF Enqueue
<1>4. \/ acked' = acked
      \/ acked' = acked \cup {j} /\ diskJobs'[j] = NewJob(m)
  <2>1. jobs'[j] = NewJob(m)
    BY DEF Enqueue, TypeOK
  <2>2. Persist(jobs', queue') => diskJobs' = jobs'
    BY DEF Persist
  <2>3. \/ Persist(jobs', queue') /\ acked' = acked \cup {j}
        \/ acked' = acked
    BY DEF Enqueue
  <2> QED BY <2>1, <2>2, <2>3
<1> QED BY <1>1, <1>3, <1>4 DEF AckedInVault, DiskKept, KeepsPresent, TypeOK

LEMMA NextDurable ==
  ASSUME DInv, [Next]_vars, ~torn'
  PROVE  DInv' /\ DiskKept
<1> SUFFICES Covers' /\ DiskKept /\ AckedInVault'
  BY NextIInv DEF DInv
<1>1. ASSUME DiskKept, acked' = acked PROVE AckedInVault'
  BY <1>1 DEF DInv, IInv, TypeOK, AckedInVault, DiskKept, KeepsPresent
<1>2. CASE UNCHANGED vars
  BY <1>2 DEF DInv, Covers, AckedInVault, DiskKept, KeepsSettled, KeepsPresent,
              vars, memory, disk, history
<1> QED BY <1>1, <1>2, LifecycleDurable, TickDurable, WorkerStepDurable, EnqueueDurable
        DEF Next

(* What was torn stays torn. *)
LEMMA TornStays ==
  ASSUME [Next]_vars, ~torn'
  PROVE  ~torn
<1>1. Persist(jobs', queue') \/ PersistRaises => ~torn
  BY DEF Persist, PersistRaises, Tear, disk
<1>2. CASE LoadState
  BY <1>2 DEF LoadState, Persist, PersistRaises, Tear, disk
<1>3. CASE Start \/ Stop \/ Exit \/ Crash \/ Tick \/ UNCHANGED vars
  BY <1>3 DEF Start, Stop, Exit, Crash, Tick, Tear, vars, disk
<1>4. CASE \E j \in Jobs, m \in Retries : Enqueue(j, m)
  BY <1>1, <1>4 DEF Enqueue
<1>5. CASE BeginScan \/ SkipHead \/ EndScan \/ WakeUp \/ ReadJob \/ HandlerEnds
  BY <1>5 DEF BeginScan, SkipHead, EndScan, WakeUp, ReadJob, HandlerEnds, disk
<1>6. CASE TakeHead \/ MarkCompleted \/ MarkRetry \/ MarkFailed
  BY <1>1, <1>6, PersistThenPersists DEF TakeHead, MarkCompleted, MarkRetry, MarkFailed
<1> QED BY <1>2, <1>3, <1>4, <1>5, <1>6 DEF Next, Lifecycle, WorkerStep

LEMMA UntilTornStep == UntilTorn /\ [Next]_vars => UntilTorn' /\ (~torn' => DiskKept)
BY NextDurable, TornStays DEF UntilTorn

LEMMA InitDurable == Init => UntilTorn
BY InitIInv DEF UntilTorn, DInv, Init, Covers, AckedInVault

(* Until a write of the vault is cut short, a job whose enqueue returned is *)
(* in the vault, whatever is killed or raises.                              *)
THEOREM AckedJobsAreDurable == Spec => []AckedIsDurable
<1>1. UntilTorn => AckedIsDurable
  BY DEF UntilTorn, DInv, AckedIsDurable
<1> QED BY <1>1, UntilTornStep, InitDurable, PTL DEF Spec

(* Until then the record of a completed or failed job never changes again   *)
(* in the vault.                                                            *)
THEOREM SettledJobsStay == Spec => SettledStaysSettled
<1>1. UntilTorn /\ [Next]_vars =>
        [~torn' => \A j \in Jobs : diskJobs[j].status \in Settled
                                      => diskJobs'[j] = diskJobs[j]]_vars
  BY UntilTornStep DEF DiskKept, KeepsSettled
<1> QED BY <1>1, UntilTornStep, InitDurable, PTL DEF Spec, SettledStaysSettled

-----------------------------------------------------------------------------
(* The steps that change a record and save the table.                       *)

LEMMA TakingStep ==
  ASSUME IInv, TakeHead
  PROVE  /\ cur' \in Jobs
         /\ jobs[cur'].status = "queued" /\ jobs[cur'].wait = 0
         /\ jobs' = [jobs EXCEPT ![cur'] = Marked(jobs[cur'], "running")]
         /\ takes' = [takes EXCEPT ![cur'] = takes[cur'] + 1]
         /\ cur' = Head(queue) /\ queue # <<>>
         /\ worker = "scan"
         /\ worker' \in {"got", "dead"}
         /\ worker' = "got" => Persist(jobs', queue')
         /\ Persist(jobs', queue') \/ PersistRaises
<1>1. queue # <<>>
  BY EmptySeq DEF IInv, TypeOK, TakeHead
<1>2. Head(queue) \in Jobs /\ jobs[Head(queue)].status = "queued"
  BY <1>1, SoundHead DEF IInv, TypeOK
<1> QED BY <1>1, <1>2 DEF TakeHead, Due, PersistThen

LEMMA MarkingStep ==
  ASSUME IInv, MarkCompleted \/ MarkRetry \/ MarkFailed
  PROVE  /\ jobs[cur] \in Job /\ jobs[cur].status = "running"
         /\ worker \in {"returned", "raised"} /\ cur' = cur
         /\ worker' \in {"poll", "dead"}
         /\ worker' = "poll" => Persist(jobs', queue')
         /\ Persist(jobs', queue') \/ PersistRaises
         /\ UNCHANGED <<issued, older, acked, takes, restarts>>
         /\ \E r \in Job :
              /\ jobs' = [jobs EXCEPT ![cur] = r]
              /\ r.status \in {"queued", "completed", "failed"}
              /\ r.max = jobs[cur].max
              /\ r.attempts = jobs[cur].attempts + (IF r.status = "completed" THEN 0 ELSE 1)
<1>1. jobs[cur] \in Job /\ jobs[cur].status = "running"
  BY DEF IInv, TypeOK, HeldRuns, Busy, MarkCompleted, MarkRetry, MarkFailed
<1>2. /\ worker \in {"returned", "raised"} /\ cur' = cur
      /\ UNCHANGED <<issued, older, acked, takes, restarts>>
      /\ PersistAndAuditThen(jobs', queue', "poll")
  BY DEF MarkCompleted, MarkRetry, MarkFailed, frame, history
<1>3. /\ worker' \in {"poll", "dead"}
      /\ worker' = "poll" => Persist(jobs', queue')
      /\ Persist(jobs', queue') \/ PersistRaises
  BY <1>2 DEF PersistAndAuditThen, PersistThen
<1>4. jobs[cur].attempts \in Nat
  BY <1>1 DEF Job
<1>5. \E r \in Job :
         /\ jobs' = [jobs EXCEPT ![cur] = r]
         /\ r.status \in {"queued", "completed", "failed"}
         /\ r.max = jobs[cur].max
         /\ r.attempts = jobs[cur].attempts + (IF r.status = "completed" THEN 0 ELSE 1)
  <2>1. CASE MarkCompleted
    <3> DEFINE r == Marked(jobs[cur], "completed")
    <3>1. r \in Job /\ r.status = "completed" /\ r.attempts = jobs[cur].attempts /\ r.max = jobs[cur].max
      BY <1>1, MarkedJob DEF Status, Settled
    <3>2. jobs' = [jobs EXCEPT ![cur] = r]
      BY <2>1 DEF MarkCompleted
    <3> HIDE DEF r
    <3>3. r.attempts = jobs[cur].attempts + (IF r.status = "completed" THEN 0 ELSE 1)
      BY <1>4, <3>1
    <3> QED BY <3>1, <3>2, <3>3
  <2>2. CASE MarkRetry
    BY <1>1, <2>2, SentBackJob DEF MarkRetry
  <2>3. CASE MarkFailed
    BY <1>1, <2>3, GivenUpJob DEF MarkFailed
  <2> QED BY <2>1, <2>2, <2>3
<1> QED BY <1>1, <1>2, <1>3, <1>5

(* What a save leaves in the vault. *)
LEMMA SavedRecords ==
  ASSUME NEW js, NEW q, Persist(js, q) \/ PersistRaises
  PROVE  \/ diskJobs' = js /\ diskQueue' = q
         \/ diskJobs' = diskJobs /\ diskQueue' = diskQueue
         \/ diskJobs' = NoJobs /\ diskQueue' = <<>>
BY DEF Persist, PersistRaises, Tear, disk

LEMMA RequeuedRecords ==
  ASSUME NEW js \in [Jobs -> Job], NEW j \in Jobs
  PROVE  /\ Requeued(js)[j].status = IF js[j].status = "running" THEN "queued" ELSE js[j].status
         /\ Requeued(js)[j].attempts = js[j].attempts
         /\ Requeued(js)[j].max = js[j].max
         /\ Requeued(js)[j].wait = js[j].wait
         /\ js[j].status # "running" => Requeued(js)[j] = js[j]
BY MarkedJob DEF Requeued, Status

(* LoadState, once the job table is back in memory or the process has ended. *)
LEMMA LoadingStep ==
  ASSUME LoadState
  PROVE  /\ worker = "off" /\ UNCHANGED <<cur, left, issued, older, acked, takes, idle, restarts>>
         /\ \/ /\ worker' = "none"
               /\ jobs' = Requeued(diskJobs) /\ diskJobs' = Requeued(diskJobs)
               /\ queue' = diskQueue'
               /\ queue' \in Reloaded(Requeued(diskJobs), diskQueue)
            \/ /\ worker' = "off" /\ UNCHANGED memory
               /\ \/ UNCHANGED <<diskJobs, diskQueue>>
                  \/ diskJobs' = NoJobs /\ diskQueue' = <<>>
<1>1. PICK q \in Reloaded(Requeued(diskJobs), diskQueue) :
        \/ /\ IF Requeued(diskJobs) = diskJobs /\ q = diskQueue
              THEN UNCHANGED disk ELSE Persist(Requeued(diskJobs), q)
           /\ jobs' = Requeued(diskJobs) /\ queue' = q /\ worker' = "none"
        \/ PersistRaises /\ UNCHANGED <<memory, worker>>
  BY DEF LoadState
<1> QED BY <1>1 DEF LoadState, Persist, PersistRaises, Tear, memory, disk, frame, history

LEMMA EndingStep ==
  ASSUME Exit \/ Crash
  PROVE  /\ jobs' = NoJobs /\ queue' = <<>> /\ worker' = "off"
         /\ UNCHANGED <<issued, older, acked, takes, idle>>
         /\ \/ diskJobs' = diskJobs /\ diskQueue' = diskQueue
            \/ diskJobs' = NoJobs /\ diskQueue' = <<>>
         /\ \/ worker = "stopped" /\ restarts' = restarts
            \/ worker # "off" /\ restarts' = restarts + 1
BY DEF Exit, Crash, Forget, Tear, disk, history

-----------------------------------------------------------------------------
(* Running jobs are held, if start() is called once per process, as main.py *)
(* does.                                                                    *)

HeldInv == IInv /\ RunningIsHeld /\ (worker = "off" => jobs = NoJobs)

LEMMA HeldStep ==
  ASSUME RestartInPlace = FALSE, HeldInv, [Next]_vars
  PROVE  HeldInv'
<1> SUFFICES RunningIsHeld' /\ (worker' = "off" => jobs' = NoJobs)
  BY NextIInv DEF HeldInv
<1> USE DEF HeldInv, RunningIsHeld, Having
<1>1. CASE LoadState
  <2>1. \A j \in Jobs : Requeued(diskJobs)[j].status # "running"
    <3>1. diskJobs \in [Jobs -> Job]
      BY DEF IInv, TypeOK
    <3>2. \A j \in Jobs : Requeued(diskJobs)[j].status
                            = IF diskJobs[j].status = "running" THEN "queued"
                                                                ELSE diskJobs[j].status
      BY <3>1, RequeuedRecords
    <3> QED BY <3>2
  <2>2. \/ worker' = "none" /\ jobs' = Requeued(diskJobs)
        \/ worker = "off" /\ jobs' = jobs
    BY <1>1, LoadingStep DEF memory
  <2> QED BY <2>1, <2>2 DEF NoJobs, NoJob
<1>2. CASE Start \/ Stop
  BY <1>2 DEF Start, Stop, Busy, memory, frame
<1>3. CASE Exit \/ Crash
  BY <1>3, EndingStep DEF NoJobs, NoJob
<1>4. CASE Tick
  <2>1. \A j \in Jobs : jobs'[j].status = jobs[j].status
    BY <1>4, AgedRecords DEF IInv, TypeOK, Tick
  <2>2. worker = "off" => jobs' = NoJobs
    <3>1. ASSUME worker = "off" PROVE jobs' = NoJobs
      BY <1>4, <3>1 DEF Tick, Aged, NoJobs, NoJob, AtLeast
    <3> QED BY <3>1
  <2> QED BY <1>4, <2>1, <2>2 DEF Tick, frame
<1>5. CASE \E j \in Jobs, m \in Retries : Enqueue(j, m)
  BY <1>5 DEF IInv, TypeOK, Enqueue, NewJob, frame
<1>6. CASE BeginScan \/ SkipHead \/ EndScan \/ WakeUp \/ ReadJob \/ HandlerEnds
  BY <1>6 DEF BeginScan, SkipHead, EndScan, WakeUp, ReadJob, HandlerEnds, Busy,
              memory, frame
<1>7. CASE TakeHead
  BY <1>7, TakingStep DEF IInv, TypeOK, Busy
<1>8. CASE MarkCompleted \/ MarkRetry \/ MarkFailed
  BY <1>8, MarkingStep DEF IInv, TypeOK, Busy
<1>9. CASE UNCHANGED vars
  BY <1>9 DEF vars, memory, frame
<1> QED BY <1>1, <1>2, <1>3, <1>4, <1>5, <1>6, <1>7, <1>8, <1>9
        DEF Next, Lifecycle, WorkerStep

LEMMA HeldInductive ==
  ASSUME RestartInPlace = FALSE
  PROVE  Spec => []HeldInv
<1>1. Init => HeldInv
  BY InitIInv DEF HeldInv, RunningIsHeld, Having, Init, NoJobs, NoJob
<1>2. HeldInv /\ [Next]_vars => HeldInv'
  BY HeldStep
<1> QED BY <1>1, <1>2, PTL DEF Spec

(* As main.py starts the queue, once in a process, a job the API reports as *)
(* running is the one the worker holds, or the worker has ended; whatever   *)
(* was killed, torn or raised before.                                       *)
THEOREM RunningJobsAreHeld ==
  ASSUME RestartInPlace = FALSE
  PROVE  Spec => []RunningIsHeld
<1>1. HeldInv => RunningIsHeld
  BY DEF HeldInv
<1> QED BY <1>1, HeldInductive, PTL

-----------------------------------------------------------------------------
(* How often a job has run against what its record accounts for.  The       *)
(* record in memory lacks at most the attempt under way, the record in the  *)
(* vault at most the last attempt; a kill or a shutdown pays for either.    *)

Accounted(r) == r.attempts + restarts + (IF r.status = "completed" THEN 1 ELSE 0)

Lag(r) == IF r.status = "running" /\ worker \in Busy \cup {"dead"} THEN 1 ELSE 0

DiskLag(r) == IF worker = "dead" \/ (r.status = "running" /\ worker \in Busy) THEN 1 ELSE 0

RunsAccounted ==
  \A j \in Jobs :
    /\ j \notin issued => takes[j] = 0
    /\ jobs[j].status # "none" => takes[j] <= Accounted(jobs[j]) + Lag(jobs[j])
    /\ diskJobs[j].status # "none" => takes[j] <= Accounted(diskJobs[j]) + DiskLag(diskJobs[j])

TakesInv == HeldInv /\ RunsAccounted

LEMMA AccountedType ==
  ASSUME TypeOK, NEW j \in Jobs
  PROVE  /\ jobs[j].attempts \in Nat /\ diskJobs[j].attempts \in Nat
         /\ restarts \in Nat /\ takes[j] \in Nat
BY DEF TypeOK, Job

LEMMA TakesStep ==
  ASSUME RestartInPlace = FALSE, TakesInv, [Next]_vars
  PROVE  TakesInv'
<1> SUFFICES RunsAccounted'
  BY HeldStep DEF TakesInv
<1> USE AccountedType DEF TakesInv, HeldInv, IInv
<1>1. CASE LoadState
  <2>1. CASE worker' = "none"
    <3>1. \A j \in Jobs : /\ jobs'[j].status # "running"
                          /\ jobs'[j].status = "completed" <=> diskJobs[j].status = "completed"
                          /\ jobs'[j].status = "none" <=> diskJobs[j].status = "none"
                          /\ jobs'[j].attempts = diskJobs[j].attempts
      <4>1. jobs' = Requeued(diskJobs)
        BY <1>1, <2>1, LoadingStep
      <4>2. \A j \in Jobs :
              /\ Requeued(diskJobs)[j].status
                   = IF diskJobs[j].status = "running" THEN "queued" ELSE diskJobs[j].status
              /\ Requeued(diskJobs)[j].attempts = diskJobs[j].attempts
        BY RequeuedRecords DEF TypeOK
      <4> QED BY <4>1, <4>2
    <3>2. /\ UNCHANGED <<issued, takes, restarts>> /\ diskJobs' = jobs'
          /\ worker = "off"
      BY <1>1, <2>1, LoadingStep
    <3> QED BY <2>1, <3>1, <3>2 DEF RunsAccounted, Accounted, Lag, DiskLag, Busy
  <2>2. CASE worker' = "off"
    BY <1>1, <2>2, LoadingStep DEF RunsAccounted, Accounted, Lag, DiskLag, Busy, memory, NoJobs, NoJob
  <2> QED BY <1>1, <2>1, <2>2, LoadingStep
<1>2. CASE Start
  BY <1>2 DEF Start, RunsAccounted, Accounted, Lag, DiskLag, Busy, memory, disk, history
<1>3. CASE Stop
  <2>1. /\ worker' = "stopped" /\ restarts' = restarts + 1
        /\ UNCHANGED <<jobs, diskJobs, issued, takes>>
    BY <1>3 DEF Stop, memory, disk
  <2> QED BY <2>1 DEF RunsAccounted, Accounted, Lag, DiskLag, Busy
<1>4. CASE Exit \/ Crash
  <2>1. /\ \A j \in Jobs : jobs'[j].status = "none"
        /\ \A j \in Jobs : diskJobs'[j] = diskJobs[j] \/ diskJobs'[j].status = "none"
        /\ worker' = "off" /\ UNCHANGED <<issued, takes>>
    BY <1>4, EndingStep DEF NoJobs, NoJob
  <2>2. \/ restarts' = restarts /\ worker = "stopped"
        \/ restarts' = restarts + 1
    BY <1>4, EndingStep
  <2> QED BY <2>1, <2>2 DEF RunsAccounted, Accounted, DiskLag, Busy
<1>5. CASE Tick
  <2>1. /\ \A j \in Jobs : /\ jobs'[j].status = jobs[j].status
                           /\ jobs'[j].attempts = jobs[j].attempts
                           /\ diskJobs'[j].status = diskJobs[j].status
                           /\ diskJobs'[j].attempts = diskJobs[j].attempts
        /\ UNCHANGED <<worker, issued, takes, restarts>>
    BY <1>5, AgedRecords DEF TypeOK, Tick
  <2> QED BY <2>1 DEF RunsAccounted, Accounted, Lag, DiskLag
<1>6. ASSUME NEW i \in Jobs, NEW m \in Retries, Enqueue(i, m)
      PROVE  RunsAccounted'
  <2>1. /\ jobs' = [jobs EXCEPT ![i] = NewJob(m)]
        /\ i \notin issued /\ issued' = issued \cup {i}
        /\ UNCHANGED <<worker, takes, restarts>>
        /\ Persist(jobs', queue') \/ PersistRaises
    BY <1>6 DEF Enqueue
  <2>2. NewJob(m).status = "queued" /\ NewJob(m).attempts = 0
    BY DEF NewJob
  <2>3. \A j \in Jobs : jobs'[j].status # "none" =>
           takes'[j] <= Accounted(jobs[j])' + Lag(jobs[j])'
    <3> TAKE j \in Jobs
    <3>1. CASE j = i
      BY <2>1, <2>2, <3>1 DEF RunsAccounted, Accounted, Lag, TypeOK
    <3>2. CASE j # i
      BY <2>1, <3>2 DEF RunsAccounted, Accounted, Lag, TypeOK
    <3> QED BY <3>1, <3>2
  <2>4. \A j \in Jobs : diskJobs'[j].status # "none" =>
           takes'[j] <= Accounted(diskJobs[j])' + DiskLag(diskJobs[j])'
    <3>1. CASE diskJobs' = jobs'
      <4>1. \A j \in Jobs : jobs'[j].attempts \in Nat
        BY <2>1, <2>2 DEF TypeOK
      <4> QED BY <2>1, <2>3, <3>1, <4>1 DEF Accounted, Lag, DiskLag
    <3>2. CASE diskJobs' = diskJobs
      BY <2>1, <3>2 DEF RunsAccounted, Accounted, DiskLag
    <3>3. CASE diskJobs' = NoJobs
      BY <3>3 DEF NoJobs, NoJob
    <3> QED BY <2>1, <3>1, <3>2, <3>3, SavedRecords
  <2> QED BY <2>1, <2>3, <2>4 DEF RunsAccounted
<1>7. CASE BeginScan \/ SkipHead \/ EndScan \/ WakeUp \/ ReadJob \/ HandlerEnds
  <2>1. /\ worker # "dead" /\ worker' # "dead"
        /\ worker \in Busy <=> worker' \in Busy
        /\ UNCHANGED <<jobs, diskJobs, issued, takes, restarts>>
    BY <1>7 DEF BeginScan, SkipHead, EndScan, WakeUp, ReadJob, HandlerEnds,
                memory, disk, history, Busy
  <2> QED BY <2>1 DEF RunsAccounted, Accounted, Lag, DiskLag
<1>8. CASE TakeHead
  <2> DEFINE h == cur'
  <2>1. /\ h \in Jobs /\ jobs[h].status = "queued"
        /\ jobs' = [jobs EXCEPT ![h] = Marked(jobs[h], "running")]
        /\ takes' = [takes EXCEPT ![h] = takes[h] + 1]
        /\ worker = "scan" /\ worker' \in {"got", "dead"}
        /\ worker' = "got" => Persist(jobs', queue')
        /\ Persist(jobs', queue') \/ PersistRaises
        /\ UNCHANGED <<issued, restarts>>
    BY <1>8, TakingStep DEF TakeHead
  <2>2. /\ Marked(jobs[h], "running").status = "running"
        /\ Marked(jobs[h], "running").attempts = jobs[h].attempts
    BY <2>1, MarkedJob DEF TypeOK, Status
  <2> HIDE DEF h
  <2>3. h \in issued
    BY <2>1 DEF Fresh
  <2>4. \A j \in Jobs : jobs'[j].status # "none" =>
           takes'[j] <= Accounted(jobs[j])' + Lag(jobs[j])'
    <3> TAKE j \in Jobs
    <3>1. CASE j = h
      <4>1. takes[h] <= jobs[h].attempts + restarts
        BY <2>1 DEF RunsAccounted, Accounted, Lag
      <4>2. /\ jobs'[h].status = "running" /\ jobs'[h].attempts = jobs[h].attempts
            /\ takes'[h] = takes[h] + 1 /\ worker' \in Busy \cup {"dead"}
        BY <2>1, <2>2 DEF TypeOK, Busy
      <4> QED BY <2>1, <3>1, <4>1, <4>2 DEF Accounted, Lag
    <3>2. CASE j # h
      <4>1. jobs'[j] = jobs[j] /\ takes'[j] = takes[j]
        BY <2>1, <3>2 DEF TypeOK
      <4>2. jobs[j].status # "none" => takes[j] <= Accounted(jobs[j])
        BY <2>1 DEF RunsAccounted, Accounted, Lag, Busy
      <4> QED BY <2>1, <4>1, <4>2 DEF Accounted, Lag
    <3> QED BY <3>1, <3>2
  <2>5. \A j \in Jobs : diskJobs'[j].status # "none" =>
           takes'[j] <= Accounted(diskJobs[j])' + DiskLag(diskJobs[j])'
    <3>1. CASE diskJobs' = jobs'
      <4>1. \A j \in Jobs : jobs'[j].attempts \in Nat
        BY <2>1, <2>2 DEF TypeOK
      <4> QED BY <2>1, <2>4, <3>1, <4>1 DEF Accounted, Lag, DiskLag, Busy
    <3>2. CASE diskJobs' = diskJobs /\ worker' = "dead"
      <4>1. \A j \in Jobs : takes'[j] <= takes[j] + 1
        BY <2>1 DEF TypeOK
      <4>2. \A j \in Jobs : diskJobs[j].status # "none" => takes[j] <= Accounted(diskJobs[j])
        BY <2>1 DEF RunsAccounted, Accounted, DiskLag, Busy
      <4>3. \A j \in Jobs : takes'[j] \in Nat
        BY <2>1 DEF TypeOK
      <4> QED BY <2>1, <3>2, <4>1, <4>2, <4>3 DEF Accounted, DiskLag
    <3>3. CASE diskJobs' = NoJobs
      BY <3>3 DEF NoJobs, NoJob
    <3>4. worker' = "got" => diskJobs' = jobs'
      BY <2>1 DEF Persist
    <3> QED BY <2>1, <3>1, <3>2, <3>3, <3>4, SavedRecords
  <2> QED BY <2>1, <2>3, <2>4, <2>5 DEF RunsAccounted, TypeOK
<1>9. CASE MarkCompleted \/ MarkRetry \/ MarkFailed
  <2>1. PICK r \in Job :
          /\ jobs' = [jobs EXCEPT ![cur] = r]
          /\ r.status \in {"queued", "completed", "failed"}
          /\ r.attempts = jobs[cur].attempts + (IF r.status = "completed" THEN 0 ELSE 1)
    BY <1>9, MarkingStep
  <2>2. /\ jobs[cur].status = "running" /\ worker \in Busy
        /\ worker' \in {"poll", "dead"} /\ (worker' = "poll" => Persist(jobs', queue'))
        /\ Persist(jobs', queue') \/ PersistRaises
        /\ UNCHANGED <<issued, takes, restarts>>
    BY <1>9, MarkingStep DEF Busy
  <2>3. \A j \in Jobs : jobs'[j].status # "none" => takes'[j] <= Accounted(jobs[j])'
    <3> TAKE j \in Jobs
    <3>1. CASE j = cur
      <4>1. takes[cur] <= jobs[cur].attempts + restarts + 1
        BY <2>2, <3>1 DEF RunsAccounted, Accounted, Lag
      <4>2. jobs'[cur] = r /\ jobs[cur].attempts \in Nat
        BY <2>1, <3>1 DEF TypeOK
      <4> QED BY <2>1, <2>2, <3>1, <4>1, <4>2 DEF Accounted
    <3>2. CASE j # cur
      <4>1. jobs[j].status # "running"
        BY <2>2, <3>2 DEF RunningIsHeld, Having, Busy
      <4> QED BY <2>1, <2>2, <3>2, <4>1 DEF RunsAccounted, Accounted, Lag, TypeOK
    <3> QED BY <3>1, <3>2
  <2>4. \A j \in Jobs : /\ jobs'[j].attempts \in Nat /\ takes'[j] \in Nat
                        /\ restarts' \in Nat
    BY <2>1, <2>2 DEF TypeOK, Job
  <2>5. \A j \in Jobs : diskJobs'[j].status # "none" =>
           takes'[j] <= Accounted(diskJobs[j])' + DiskLag(diskJobs[j])'
    <3>1. CASE diskJobs' = jobs'
      BY <2>3, <2>4, <3>1 DEF Accounted, DiskLag
    <3>2. CASE diskJobs' = diskJobs /\ worker' = "dead"
      BY <2>2, <3>2 DEF RunsAccounted, Accounted, DiskLag
    <3>3. CASE diskJobs' = NoJobs
      BY <3>3 DEF NoJobs, NoJob
    <3>4. worker' = "poll" => diskJobs' = jobs'
      BY <2>2 DEF Persist
    <3> QED BY <2>2, <3>1, <3>2, <3>3, <3>4, SavedRecords
  <2> QED BY <2>2, <2>3, <2>4, <2>5 DEF RunsAccounted, Accounted, Lag
<1>10. CASE UNCHANGED vars
  BY <1>10 DEF vars, memory, disk, history, RunsAccounted, Accounted, Lag, DiskLag
<1> QED BY <1>1, <1>2, <1>3, <1>4, <1>5, <1>6, <1>7, <1>8, <1>9, <1>10
        DEF Next, Lifecycle, WorkerStep

LEMMA TakesInductive ==
  ASSUME RestartInPlace = FALSE
  PROVE  Spec => []TakesInv
<1>1. Init => RunsAccounted
  BY DEF Init, RunsAccounted, NoJobs, NoJob
<1>2. Init => HeldInv
  BY InitIInv DEF HeldInv, RunningIsHeld, Having, Init, NoJobs, NoJob
<1>3. TakesInv /\ [Next]_vars => TakesInv'
  BY TakesStep
<1> QED BY <1>1, <1>2, <1>3, PTL DEF Spec, TakesInv

(* A job runs at most its budget of attempts, and once more for every kill  *)
(* or shutdown, because an interrupted attempt is not counted: also when    *)
(* writes of the vault raise or are cut short.                              *)
THEOREM RunsAreBounded ==
  ASSUME RestartInPlace = FALSE
  PROVE  Spec => []TakesBounded
<1>1. TakesInv => TakesBounded
  <2> SUFFICES ASSUME TakesInv, NEW j \in Jobs, jobs[j].status # "none"
               PROVE  takes[j] <= jobs[j].max + 1 + restarts
    BY DEF TakesBounded
  <2>1. /\ jobs[j].attempts \in Nat /\ jobs[j].max \in Nat
        /\ restarts \in Nat /\ takes[j] \in Nat
    BY DEF TakesInv, HeldInv, IInv, TypeOK, Job
  <2>2. IF jobs[j].status = "failed" THEN jobs[j].attempts = jobs[j].max + 1
                                     ELSE jobs[j].attempts <= jobs[j].max
    BY DEF TakesInv, HeldInv, IInv, Sound, Budgeted
  <2>3. takes[j] <= Accounted(jobs[j]) + Lag(jobs[j])
    BY DEF TakesInv, RunsAccounted
  <2> QED BY <2>1, <2>2, <2>3 DEF Accounted, Lag
<1> QED BY <1>1, TakesInductive, PTL

-----------------------------------------------------------------------------
(* The order of arrival.  Among the jobs never taken, the list has none     *)
(* before one that is older.  The scan moves, and the repair appends, only  *)
(* jobs that were taken before.                                             *)

InOrder(q, runs, before) ==
  \A i, k \in 1..Len(q) :
    i < k /\ runs[q[i]] = 0 /\ runs[q[k]] = 0 => q[k] \notin before[q[i]]

LEMMA InOrderTail ==
  ASSUME NEW q \in Seq(Jobs), q # <<>>, NEW runs, NEW before, InOrder(q, runs, before)
  PROVE  InOrder(Tail(q), runs, before)
<1> DEFINE t == Tail(q)
<1>1. /\ Len(q) \in Nat /\ Len(t) = Len(q) - 1
      /\ \A i \in 1..Len(t) : t[i] = q[i + 1]
  BY HeadTailProperties, LenProperties
<1> HIDE DEF t
<1>2. \A i \in 1..Len(t) : i + 1 \in 1..Len(q)
  BY <1>1
<1>3. \A i, k \in 1..Len(t) : i < k => i + 1 < k + 1
  BY <1>1
<1>4. InOrder(t, runs, before)
  BY <1>1, <1>2, <1>3 DEF InOrder
<1> QED BY <1>4 DEF t

LEMMA InOrderConcat ==
  ASSUME NEW q \in Seq(Jobs), NEW p \in Seq(Jobs), NEW runs, NEW before,
         InOrder(q, runs, before), \A i \in 1..Len(p) : runs[p[i]] # 0
  PROVE  InOrder(q \o p, runs, before)
<1> DEFINE r == q \o p
<1>1. /\ Len(q) \in Nat /\ Len(p) \in Nat
      /\ Len(r) = Len(q) + Len(p)
      /\ \A i \in 1..Len(r) : r[i] = IF i <= Len(q) THEN q[i] ELSE p[i - Len(q)]
  BY ConcatProperties, LenProperties
<1> HIDE DEF r
<1>2. \A i \in 1..Len(r) : i <= Len(q) \/ runs[r[i]] # 0
  BY <1>1
<1>3. ASSUME NEW i \in 1..Len(r), NEW k \in 1..Len(r), i < k,
             runs[r[i]] = 0, runs[r[k]] = 0
      PROVE  r[k] \notin before[r[i]]
  <2>1. i \in 1..Len(q) /\ k \in 1..Len(q) /\ r[i] = q[i] /\ r[k] = q[k]
    BY <1>1, <1>2, <1>3
  <2> QED BY <1>3, <2>1 DEF InOrder
<1>4. InOrder(r, runs, before)
  BY <1>3 DEF InOrder
<1> QED BY <1>4 DEF r

LEMMA InOrderAppend ==
  ASSUME NEW q \in Seq(Jobs), NEW j \in Jobs, NEW runs, NEW before,
         InOrder(q, runs, before),
         runs[j] # 0 \/ \A i \in 1..Len(q) : j \notin before[q[i]]
  PROVE  InOrder(Append(q, j), runs, before)
<1> DEFINE r == Append(q, j)
<1>1. /\ Len(q) \in Nat
      /\ Len(r) = Len(q) + 1
      /\ r[Len(q) + 1] = j
      /\ \A i \in 1..Len(q) : r[i] = q[i]
  BY AppendProperties
<1> HIDE DEF r
<1>2. ASSUME NEW i \in 1..Len(r), NEW k \in 1..Len(r), i < k,
             runs[r[i]] = 0, runs[r[k]] = 0
      PROVE  r[k] \notin before[r[i]]
  <2>1. i \in 1..Len(q) /\ r[i] = q[i]
    BY <1>1, <1>2
  <2>2. CASE k = Len(q) + 1
    BY <1>1, <1>2, <2>1, <2>2
  <2>3. CASE k \in 1..Len(q)
    BY <1>1, <1>2, <2>1, <2>3 DEF InOrder
  <2> QED BY <1>1, <2>2, <2>3
<1>3. InOrder(r, runs, before)
  BY <1>2 DEF InOrder
<1> QED BY <1>3 DEF r

(* Taken more often, and the same jobs older. *)
LEMMA InOrderLater ==
  ASSUME NEW q, NEW runs, NEW before, NEW runs2, NEW before2,
         InOrder(q, runs, before),
         \A i \in 1..Len(q) : /\ runs2[q[i]] = 0 => runs[q[i]] = 0
                              /\ before2[q[i]] = before[q[i]]
  PROVE  InOrder(q, runs2, before2)
BY DEF InOrder

TakenBefore(js) ==
  \A j \in Jobs : js[j].status = "running" \/ js[j].wait > 0 => takes[j] # 0

OrderInv ==
  /\ IInv
  /\ InOrder(queue, takes, older) /\ InOrder(diskQueue, takes, older)
  /\ TakenBefore(jobs) /\ TakenBefore(diskJobs)
  /\ \A j \in Jobs : older[j] \subseteq issued /\ j \notin older[j]

(* What a save leaves in the vault is in order, when memory is. *)
LEMMA SavedOrder ==
  ASSUME OrderInv, Persist(jobs', queue') \/ PersistRaises,
         InOrder(queue', takes', older'), TakenBefore(jobs)',
         \A j \in Jobs : takes'[j] = 0 => takes[j] = 0,
         \A i \in 1..Len(diskQueue) : older'[diskQueue[i]] = older[diskQueue[i]]
  PROVE  InOrder(diskQueue', takes', older') /\ TakenBefore(diskJobs)'
<1>1. CASE diskJobs' = jobs' /\ diskQueue' = queue'
  BY <1>1 DEF TakenBefore
<1>2. CASE diskJobs' = diskJobs /\ diskQueue' = diskQueue
  <2>1. \A i \in 1..Len(diskQueue) : diskQueue[i] \in Jobs
    BY DEF OrderInv, IInv, Sound, Lists, Having
  <2>2. InOrder(diskQueue, takes', older')
    BY <2>1, InOrderLater DEF OrderInv
  <2> QED BY <1>2, <2>2 DEF OrderInv, TakenBefore
<1>3. CASE diskJobs' = NoJobs /\ diskQueue' = <<>>
  BY <1>3 DEF TakenBefore, InOrder, NoJobs, NoJob
<1> QED BY <1>1, <1>2, <1>3, SavedRecords

(* The jobs the repair appends were running when the process ended. *)
LEMMA ReloadedOrder ==
  ASSUME OrderInv, NEW q \in Reloaded(Requeued(diskJobs), diskQueue)
  PROVE  InOrder(q, takes, older)
<1> DEFINE ks == Requeued(diskJobs)
<1>1. PICK t \in Orderings(Unlisted(ks, diskQueue)) : q = diskQueue \o t
  BY DEF Reloaded
<1>2. Unlisted(ks, diskQueue) \in SUBSET Jobs
  BY DEF Unlisted, Having
<1>3. t \in Seq(Jobs) /\ Lists(t, Unlisted(ks, diskQueue))
  BY <1>1, <1>2, OrderingsList, ConstantsAssumption
<1>4. \A j \in Unlisted(ks, diskQueue) : j \in Jobs /\ diskJobs[j].status = "running"
  <2>1. \A j \in Jobs : ks[j].status = IF diskJobs[j].status = "running" THEN "queued"
                                       ELSE diskJobs[j].status
    BY RequeuedRecords DEF OrderInv, IInv, TypeOK
  <2>2. \A j \in Having(diskJobs, "queued") : j \in {diskQueue[i] : i \in 1..Len(diskQueue)}
    BY DEF OrderInv, IInv, Sound, Lists
  <2> HIDE DEF ks
  <2> QED BY <2>1, <2>2 DEF Unlisted, Having
<1>5. \A i \in 1..Len(t) : takes[t[i]] # 0
  BY <1>3, <1>4 DEF Lists, OrderInv, TakenBefore
<1> QED BY <1>1, <1>3, <1>5, InOrderConcat DEF OrderInv, IInv, TypeOK

LEMMA OrderLifecycle ==
  ASSUME OrderInv, Lifecycle, IInv'
  PROVE  OrderInv'
<1> USE DEF OrderInv
<1>1. CASE LoadState
  <2>1. UNCHANGED <<issued, older, takes>>
    BY <1>1, LoadingStep
  <2>2. CASE worker' = "none"
    <3>1. /\ jobs' = Requeued(diskJobs) /\ diskJobs' = Requeued(diskJobs)
          /\ queue' = diskQueue' /\ queue' \in Reloaded(Requeued(diskJobs), diskQueue)
      BY <1>1, <2>2, LoadingStep
    <3>2. InOrder(queue', takes, older)
      BY <3>1, ReloadedOrder
    <3>3. \A j \in Jobs : /\ Requeued(diskJobs)[j].status # "running"
                          /\ Requeued(diskJobs)[j].wait = diskJobs[j].wait
      <4>1. diskJobs \in [Jobs -> Job]
        BY DEF IInv, TypeOK
      <4>2. \A j \in Jobs : /\ Requeued(diskJobs)[j].status
                                  = IF diskJobs[j].status = "running" THEN "queued"
                                                                      ELSE diskJobs[j].status
                            /\ Requeued(diskJobs)[j].wait = diskJobs[j].wait
        BY <4>1, RequeuedRecords
      <4> QED BY <4>2
    <3>4. TakenBefore(jobs)' /\ TakenBefore(diskJobs)'
      BY <2>1, <3>1, <3>3 DEF TakenBefore
    <3> QED BY <2>1, <3>1, <3>2, <3>4
  <2>3. CASE worker' = "off"
    BY <1>1, <2>1, <2>3, LoadingStep DEF memory, TakenBefore, InOrder, NoJobs, NoJob
  <2> QED BY <1>1, <2>2, <2>3, LoadingStep
<1>2. CASE Start \/ Stop
  BY <1>2 DEF Start, Stop, TakenBefore, memory, disk, history
<1>3. CASE Exit \/ Crash
  BY <1>3, EndingStep DEF TakenBefore, InOrder, NoJobs, NoJob
<1> QED BY <1>1, <1>2, <1>3 DEF Lifecycle

LEMMA OrderEnqueue ==
  ASSUME OrderInv, NEW j \in Jobs, NEW m \in Retries, Enqueue(j, m), IInv'
  PROVE  OrderInv'
<1> USE DEF OrderInv
<1>1. /\ j \notin issued /\ issued' = issued \cup {j}
      /\ older' = [older EXCEPT ![j] = issued]
      /\ jobs' = [jobs EXCEPT ![j] = NewJob(m)] /\ queue' = Append(queue, j)
      /\ takes' = takes
      /\ Persist(jobs', queue') \/ PersistRaises
  BY DEF Enqueue
<1>2. /\ \A i \in 1..Len(queue) : queue[i] \in Jobs /\ queue[i] \in issued
      /\ \A i \in 1..Len(diskQueue) : diskQueue[i] \in Jobs /\ diskQueue[i] \in issued
  BY DEF IInv, Sound, Lists, Having, Fresh
<1>3. /\ \A i \in 1..Len(queue) : older'[queue[i]] = older[queue[i]]
      /\ \A i \in 1..Len(diskQueue) : older'[diskQueue[i]] = older[diskQueue[i]]
  <2>1. older \in [Jobs -> SUBSET Jobs]
    BY DEF IInv, TypeOK
  <2>2. \A k \in Jobs : k \in issued => older'[k] = older[k]
    BY <1>1, <2>1
  <2> QED BY <1>2, <2>2
<1>4. InOrder(queue, takes, older')
  BY <1>3, InOrderLater
<1>5. InOrder(queue', takes', older')
  <2>1. \A i \in 1..Len(queue) : j \notin older'[queue[i]]
    BY <1>1, <1>2, <1>3
  <2> QED BY <1>1, <1>4, <2>1, InOrderAppend DEF IInv, TypeOK
<1>6. TakenBefore(jobs)'
  BY <1>1 DEF TakenBefore, NewJob, IInv, TypeOK
<1>7. InOrder(diskQueue', takes', older') /\ TakenBefore(diskJobs)'
  BY <1>1, <1>3, <1>5, <1>6, SavedOrder
<1>8. \A k \in Jobs : older'[k] \subseteq issued' /\ k \notin older'[k]
  BY <1>1 DEF IInv, TypeOK
<1> QED BY <1>5, <1>6, <1>7, <1>8

LEMMA OrderWorkerStep ==
  ASSUME OrderInv, WorkerStep, IInv'
  PROVE  OrderInv'
<1> USE DEF OrderInv
<1>1. CASE BeginScan \/ EndScan \/ WakeUp \/ ReadJob \/ HandlerEnds
  BY <1>1 DEF BeginScan, EndScan, WakeUp, ReadJob, HandlerEnds,
              TakenBefore, memory, disk, history
<1>2. CASE SkipHead
  <2>1. queue # <<>> /\ queue \in Seq(Jobs)
    BY <1>2, EmptySeq DEF IInv, TypeOK, SkipHead
  <2>2. /\ Head(queue) \in Jobs /\ jobs[Head(queue)].status = "queued"
        /\ Tail(queue) \in Seq(Jobs)
    BY <2>1, SoundHead, HeadTailProperties DEF IInv, TypeOK
  <2>3. takes[Head(queue)] # 0
    <3>1. jobs[Head(queue)].wait \in Nat
      BY <2>2 DEF IInv, TypeOK, Job
    <3>2. jobs[Head(queue)].wait # 0
      BY <1>2, <2>2 DEF SkipHead, Due
    <3> QED BY <2>2, <3>1, <3>2 DEF TakenBefore
  <2>4. queue' = Append(Tail(queue), Head(queue))
    BY <1>2, <2>2 DEF SkipHead
  <2>5. InOrder(queue', takes, older)
    BY <2>1, <2>2, <2>3, <2>4, InOrderTail, InOrderAppend
  <2> QED BY <1>2, <2>5 DEF SkipHead, TakenBefore, disk, history
<1>3. CASE TakeHead
  <2>1. /\ cur' \in Jobs /\ jobs' = [jobs EXCEPT ![cur'] = Marked(jobs[cur'], "running")]
        /\ takes' = [takes EXCEPT ![cur'] = takes[cur'] + 1]
        /\ queue # <<>> /\ queue' = Tail(queue)
        /\ UNCHANGED <<issued, older>>
        /\ Persist(jobs', queue') \/ PersistRaises
    BY <1>3, TakingStep DEF TakeHead
  <2>2. /\ \A j \in Jobs : takes'[j] = 0 => takes[j] = 0
        /\ takes'[cur'] # 0
    <3>1. takes \in [Jobs -> Nat]
      BY DEF IInv, TypeOK
    <3> QED BY <2>1, <3>1
  <2>3. InOrder(queue', takes, older)
    BY <2>1, InOrderTail DEF IInv, TypeOK
  <2>4. \A i \in 1..Len(queue') : queue'[i] \in Jobs
    BY DEF IInv, Sound, Lists, Having
  <2>5. InOrder(queue', takes', older')
    <3>1. \A i \in 1..Len(queue') : /\ takes'[queue'[i]] = 0 => takes[queue'[i]] = 0
                                    /\ older'[queue'[i]] = older[queue'[i]]
      BY <2>1, <2>2, <2>4
    <3> QED BY <2>3, <3>1, InOrderLater
  <2>6. TakenBefore(jobs)'
    BY <2>1, <2>2 DEF TakenBefore, IInv, TypeOK
  <2>7. InOrder(diskQueue', takes', older') /\ TakenBefore(diskJobs)'
    BY <2>1, <2>2, <2>5, <2>6, SavedOrder
  <2> QED BY <2>1, <2>5, <2>6, <2>7
<1>4. CASE MarkCompleted \/ MarkRetry \/ MarkFailed
  <2>1. /\ jobs[cur].status = "running" /\ cur \in Jobs
        /\ Persist(jobs', queue') \/ PersistRaises
        /\ UNCHANGED <<issued, older, takes>>
        /\ \E r \in Job : jobs' = [jobs EXCEPT ![cur] = r]
    BY <1>4, MarkingStep DEF IInv, TypeOK
  <2>2. takes[cur] # 0
    BY <2>1 DEF TakenBefore
  <2>3. queue' = queue \/ queue' = Append(queue, cur)
    BY <1>4 DEF MarkCompleted, MarkRetry, MarkFailed
  <2>4. InOrder(queue', takes', older')
    <3>1. InOrder(Append(queue, cur), takes, older)
      BY <2>1, <2>2, InOrderAppend DEF IInv, TypeOK
    <3> QED BY <2>1, <2>3, <3>1
  <2>5. TakenBefore(jobs)'
    BY <2>1, <2>2 DEF TakenBefore, IInv, TypeOK
  <2>6. InOrder(diskQueue', takes', older') /\ TakenBefore(diskJobs)'
    BY <2>1, <2>4, <2>5, SavedOrder
  <2> QED BY <2>1, <2>4, <2>5, <2>6
<1> QED BY <1>1, <1>2, <1>3, <1>4 DEF WorkerStep

LEMMA OrderStep == OrderInv /\ [Next]_vars => OrderInv'
<1> SUFFICES ASSUME OrderInv, [Next]_vars PROVE OrderInv'
  OBVIOUS
<1>1. IInv'
  BY NextIInv DEF OrderInv
<1>2. CASE Tick
  <2>1. \A j \in Jobs : /\ jobs'[j].status = jobs[j].status
                        /\ jobs'[j].wait > 0 => jobs[j].wait > 0
                        /\ diskJobs'[j].status = diskJobs[j].status
                        /\ diskJobs'[j].wait > 0 => diskJobs[j].wait > 0
    <3>1. jobs \in [Jobs -> Job] /\ diskJobs \in [Jobs -> Job]
      BY DEF OrderInv, IInv, TypeOK
    <3>2. ASSUME NEW js \in [Jobs -> Job], NEW j \in Jobs
          PROVE  /\ Aged(js)[j].status = js[j].status
                 /\ Aged(js)[j].wait > 0 => js[j].wait > 0
      <4>1. js[j].wait \in Nat
        BY DEF Job
      <4> QED BY <4>1, AgedRecords
    <3> QED BY <1>2, <3>1, <3>2 DEF Tick
  <2>2. UNCHANGED <<queue, diskQueue, issued, older, takes>>
    BY <1>2 DEF Tick
  <2> QED BY <1>1, <2>1, <2>2 DEF OrderInv, TakenBefore
<1>3. CASE UNCHANGED vars
  BY <1>1, <1>3 DEF OrderInv, TakenBefore, vars, memory, disk, history
<1> QED BY <1>1, <1>2, <1>3, OrderLifecycle, OrderEnqueue, OrderWorkerStep DEF Next

LEMMA OrderInductive == Spec => []OrderInv
<1>1. Init => OrderInv
  BY InitIInv DEF Init, OrderInv, InOrder, TakenBefore, NoJobs, NoJob
<1> QED BY <1>1, OrderStep, PTL DEF Spec

(* No job is taken for the first time before an older one that waits to be  *)
(* taken for the first time, under every fault and every restart.           *)
THEOREM ArrivalOrderIsKept == Spec => FirstComeFirstServed
<1> DEFINE A == \A j \in Jobs : takes[j] = 0 /\ takes'[j] = 1 =>
                  \A k \in older[j] : ~(takes[k] = 0 /\ jobs[k].status = "queued")
<1>1. ASSUME OrderInv, Next PROVE A
  <2>1. CASE TakeHead
    <3> SUFFICES ASSUME NEW j \in Jobs, takes[j] = 0, takes'[j] = 1,
                        NEW k \in older[j], takes[k] = 0, jobs[k].status = "queued"
                 PROVE  FALSE
      OBVIOUS
    <3>1. j = Head(queue) /\ queue # <<>> /\ queue \in Seq(Jobs)
      BY <2>1, TakingStep, <1>1 DEF OrderInv, IInv, TypeOK
    <3>2. k \in Jobs /\ k # j
      BY <1>1 DEF OrderInv, IInv, TypeOK
    <3>3. PICK i \in 1..Len(queue) : queue[i] = k
      BY <1>1, <3>2 DEF OrderInv, IInv, Sound, Lists, Having
    <3>4. queue[1] = j /\ 1 \in 1..Len(queue) /\ 1 < i
      BY <3>1, <3>2, <3>3, HeadTailProperties, LenProperties
    <3> QED BY <1>1, <3>3, <3>4 DEF OrderInv, InOrder
  <2>2. ASSUME takes' = takes PROVE A
    BY <2>2
  <2>3. CASE LoadState
    BY <2>2, <2>3, LoadingStep
  <2>4. CASE Start \/ Stop \/ Exit \/ Crash \/ Tick
    BY <2>2, <2>4 DEF Start, Stop, Exit, Crash, Tick, history
  <2>5. CASE \E j \in Jobs, m \in Retries : Enqueue(j, m)
    BY <2>2, <2>5 DEF Enqueue
  <2>6. CASE WorkerStep /\ ~TakeHead
    BY <2>2, <2>6 DEF WorkerStep, BeginScan, SkipHead, EndScan, WakeUp, ReadJob, HandlerEnds,
                      MarkCompleted, MarkRetry, MarkFailed, history
  <2> QED BY <1>1, <2>1, <2>3, <2>4, <2>5, <2>6 DEF Next, Lifecycle
<1>2. OrderInv /\ [Next]_vars => [A]_vars
  BY <1>1
<1> QED BY <1>2, OrderInductive, PTL DEF Spec, FirstComeFirstServed

-----------------------------------------------------------------------------
(* Back-off.  The time a job has rested since its n-th failure, and the     *)
(* time its record still asks for, make up the delay, in memory and in the  *)
(* vault; a record in the vault is never ahead of memory, so the history    *)
(* that its retry needs is not overwritten by a failure that was lost.      *)

Open(r) == r.status \in {"queued", "running"}

RestedOrWaits(r, ticks) ==
  /\ r.attempts <= Len(ticks)
  /\ r.attempts > 0 => ticks[r.attempts] + r.wait >= RetryDelay(r.attempts)

Rested(js, ticks) == \A j \in Jobs : Open(js[j]) => RestedOrWaits(js[j], ticks[j])

MaxGiven(js) ==
  \A j \in Jobs : js[j].status # "none" => \E m \in Retries : js[j].max = AtLeast(0, m)

NotAhead(js, ks) == \A j \in Jobs : Open(js[j]) => js[j].attempts <= ks[j].attempts

RestInv ==
  /\ IInv
  /\ Rested(jobs, idle) /\ Rested(diskJobs, idle)
  /\ MaxGiven(jobs) /\ MaxGiven(diskJobs)
  /\ worker # "off" => NotAhead(diskJobs, jobs)

(* MaxIdle, where the history stops counting, is no shorter than any delay. *)
CountsLongEnough == \A m \in Retries : \A n \in 0..AtLeast(0, m) : RetryDelay(n) <= MaxIdle

LEMMA NotAheadItself ==
  ASSUME NEW js \in [Jobs -> Job]
  PROVE  NotAhead(js, js)
BY DEF NotAhead, Job

LEMMA RestedNoJobs ==
  ASSUME NEW ticks, NEW js
  PROVE  Rested(NoJobs, ticks) /\ MaxGiven(NoJobs) /\ NotAhead(NoJobs, js)
BY DEF Rested, MaxGiven, NotAhead, Open, NoJobs, NoJob

(* A record that is no longer to run, or asks for the same, replaces another. *)
LEMMA RestedReplace ==
  ASSUME NEW js \in [Jobs -> Job], NEW ticks \in [Jobs -> Seq(Nat)], Rested(js, ticks),
         MaxGiven(js), NEW j \in Jobs, js[j].status # "none", NEW r \in Job,
         r.max = js[j].max, Open(r) => RestedOrWaits(r, ticks[j])
  PROVE  /\ Rested([js EXCEPT ![j] = r], ticks)
         /\ MaxGiven([js EXCEPT ![j] = r])
<1> DEFINE ks == [js EXCEPT ![j] = r]
<1>1. \A k \in Jobs : ks[k] = IF k = j THEN r ELSE js[k]
  OBVIOUS
<1> HIDE DEF ks
<1>2. Rested(ks, ticks)
  BY <1>1 DEF Rested
<1>3. MaxGiven(ks)
  BY <1>1 DEF MaxGiven
<1> QED BY <1>2, <1>3 DEF ks

(* What a save leaves in the vault. *)
LEMMA SavedRested ==
  ASSUME Persist(jobs', queue') \/ PersistRaises, jobs' \in [Jobs -> Job],
         Rested(jobs', idle'), Rested(diskJobs, idle'),
         MaxGiven(jobs'), MaxGiven(diskJobs), NotAhead(diskJobs, jobs')
  PROVE  Rested(diskJobs', idle') /\ MaxGiven(diskJobs') /\ NotAhead(diskJobs', jobs')
BY SavedRecords, NotAheadItself, RestedNoJobs

LEMMA RestedRequeued ==
  ASSUME NEW js \in [Jobs -> Job], NEW ticks, Rested(js, ticks), MaxGiven(js)
  PROVE  Rested(Requeued(js), ticks) /\ MaxGiven(Requeued(js))
<1> DEFINE ks == Requeued(js)
<1>1. \A j \in Jobs : /\ ks[j].status = IF js[j].status = "running" THEN "queued"
                                                                    ELSE js[j].status
                      /\ ks[j].attempts = js[j].attempts
                      /\ ks[j].max = js[j].max
                      /\ ks[j].wait = js[j].wait
  BY RequeuedRecords
<1> HIDE DEF ks
<1>2. \A j \in Jobs : Open(ks[j]) => Open(js[j])
  BY <1>1 DEF Open
<1>3. \A j \in Jobs : RestedOrWaits(js[j], ticks[j]) => RestedOrWaits(ks[j], ticks[j])
  BY <1>1 DEF RestedOrWaits
<1>4. Rested(ks, ticks)
  BY <1>2, <1>3 DEF Rested
<1>5. MaxGiven(ks)
  BY <1>1 DEF MaxGiven
<1> QED BY <1>4, <1>5 DEF ks

(* One tick: the record asks for one less, or the job has rested one more,  *)
(* up to MaxIdle. *)
LEMMA RestedAged ==
  ASSUME CountsLongEnough, NEW js \in [Jobs -> Job], NEW ticks \in [Jobs -> Seq(Nat)],
         Rested(js, ticks), MaxGiven(js), Budgeted(js)
  PROVE  Rested(Aged(js), [j \in Jobs |-> Advanced(ticks[j])]) /\ MaxGiven(Aged(js))
<1> DEFINE ks == Aged(js)
<1>1. \A j \in Jobs : /\ ks[j].status = js[j].status
                      /\ ks[j].attempts = js[j].attempts
                      /\ ks[j].max = js[j].max
                      /\ ks[j].wait = IF js[j].wait = 0 THEN 0 ELSE js[j].wait - 1
  BY AgedRecords
<1> HIDE DEF ks
<1>2. ASSUME NEW j \in Jobs, Open(ks[j])
      PROVE  RestedOrWaits(ks[j], Advanced(ticks[j]))
  <2> DEFINE n == js[j].attempts
             w == js[j].wait
             d == RetryDelay(n)
             t == ticks[j][n]
  <2>1. n \in Nat /\ w \in Nat /\ js[j].max \in Nat /\ MaxIdle \in Nat
    BY ConstantsAssumption DEF Job
  <2>2. Open(js[j]) /\ RestedOrWaits(js[j], ticks[j])
    BY <1>1, <1>2 DEF Open, Rested
  <2>3. /\ Len(Advanced(ticks[j])) = Len(ticks[j]) /\ Len(ticks[j]) \in Nat
        /\ \A i \in 1..Len(ticks[j]) : Advanced(ticks[j])[i] = AtMost(MaxIdle, ticks[j][i] + 1)
    BY AdvancedType, LenProperties
  <2>4. d <= MaxIdle /\ d \in Nat
    <3>1. n <= js[j].max
      BY <2>2 DEF Budgeted, Open
    <3>2. PICK m \in Retries : js[j].max = AtLeast(0, m)
      BY <2>2 DEF MaxGiven, Open
    <3>3. n \in 0..AtLeast(0, m)
      BY <2>1, <3>1, <3>2
    <3>4. RetryDelay(n) <= MaxIdle
      BY <3>3 DEF CountsLongEnough
    <3> QED BY <2>1, <3>4, RetryDelayType
  <2>5. CASE n > 0
    <3>1. n \in 1..Len(ticks[j]) /\ t + w >= d
      BY <2>1, <2>2, <2>3, <2>5 DEF RestedOrWaits
    <3>2. t \in Nat
      BY <3>1, ElementOfSeq
    <3>3. Advanced(ticks[j])[n] = AtMost(MaxIdle, t + 1)
      BY <2>3, <3>1
    <3> HIDE DEF n, w, d, t
    <3>4. AtMost(MaxIdle, t + 1) + (IF w = 0 THEN 0 ELSE w - 1) >= d
      BY <2>1, <2>4, <3>1, <3>2 DEF AtMost
    <3>5. /\ ks[j].attempts = n /\ RetryDelay(ks[j].attempts) = d
          /\ ks[j].wait = IF w = 0 THEN 0 ELSE w - 1
      BY <1>1 DEF n, w, d
    <3> QED BY <2>3, <3>1, <3>3, <3>4, <3>5 DEF RestedOrWaits
  <2>6. CASE ~(n > 0)
    BY <1>1, <2>1, <2>2, <2>3, <2>6 DEF RestedOrWaits
  <2> QED BY <2>5, <2>6
<1>3. Rested(ks, [j \in Jobs |-> Advanced(ticks[j])])
  BY <1>2 DEF Rested
<1>4. MaxGiven(ks)
  BY <1>1 DEF MaxGiven
<1> QED BY <1>3, <1>4 DEF ks

LEMMA RestLifecycle ==
  ASSUME RestInv, Lifecycle, IInv'
  PROVE  RestInv'
<1> USE DEF RestInv
<1>1. CASE LoadState
  <2>0. diskJobs \in [Jobs -> Job]
    BY DEF IInv, TypeOK
  <2>1. idle' = idle
    BY <1>1, LoadingStep
  <2>2. CASE worker' = "none"
    <3>1. jobs' = Requeued(diskJobs) /\ diskJobs' = Requeued(diskJobs)
      BY <1>1, <2>2, LoadingStep
    <3>2. NotAhead(diskJobs', jobs')
      BY <2>0, <3>1, RequeuedType, NotAheadItself
    <3> QED BY <2>0, <2>1, <3>1, <3>2, RestedRequeued
  <2>3. CASE worker' = "off"
    BY <1>1, <2>1, <2>3, LoadingStep, RestedNoJobs DEF memory
  <2> QED BY <1>1, <2>2, <2>3, LoadingStep
<1>2. CASE Start \/ Stop
  <2>1. worker # "off" /\ UNCHANGED <<jobs, diskJobs, idle>>
    BY <1>2 DEF Start, Stop, memory, disk, history
  <2> QED BY <2>1
<1>3. CASE Exit \/ Crash
  BY <1>3, EndingStep, RestedNoJobs
<1> QED BY <1>1, <1>2, <1>3 DEF Lifecycle

LEMMA RestEnqueue ==
  ASSUME RestInv, NEW j \in Jobs, NEW m \in Retries, Enqueue(j, m), IInv'
  PROVE  RestInv'
<1> USE DEF RestInv
<1>1. /\ j \notin issued /\ worker # "off" /\ worker' = worker
      /\ jobs' = [jobs EXCEPT ![j] = NewJob(m)]
      /\ idle' = idle
      /\ Persist(jobs', queue') \/ PersistRaises
  BY DEF Enqueue
<1>2. /\ NewJob(m).attempts = 0 /\ NewJob(m).max = AtLeast(0, m)
      /\ Len(idle[j]) \in Nat
  BY DEF NewJob, IInv, TypeOK
<1>3. \A k \in Jobs : jobs'[k] = IF k = j THEN NewJob(m) ELSE jobs[k]
  BY <1>1 DEF IInv, TypeOK
<1>4. Rested(jobs', idle')
  BY <1>1, <1>2, <1>3 DEF Rested, RestedOrWaits
<1>5. MaxGiven(jobs')
  BY <1>2, <1>3 DEF MaxGiven
<1>6. NotAhead(diskJobs, jobs')
  BY <1>1, <1>3 DEF NotAhead, Fresh, Open, IInv
<1> QED BY <1>1, <1>4, <1>5, <1>6, SavedRested DEF IInv, TypeOK

LEMMA RestWorkerStep ==
  ASSUME RestInv, WorkerStep, IInv'
  PROVE  RestInv'
<1> USE DEF RestInv
<1>0. /\ jobs \in [Jobs -> Job] /\ idle \in [Jobs -> Seq(Nat)] /\ cur \in Jobs
      /\ jobs' \in [Jobs -> Job]
  BY DEF IInv, TypeOK
<1>1. CASE BeginScan \/ SkipHead \/ EndScan \/ WakeUp \/ ReadJob \/ HandlerEnds
  <2>1. worker # "off" /\ UNCHANGED <<jobs, diskJobs, idle>>
    BY <1>1 DEF BeginScan, SkipHead, EndScan, WakeUp, ReadJob, HandlerEnds,
                memory, disk, history
  <2> QED BY <2>1
<1>2. CASE TakeHead
  <2> DEFINE h == cur'
             r == Marked(jobs[h], "running")
  <2>1. /\ h \in Jobs /\ jobs[h].status = "queued" /\ jobs[h] \in Job
        /\ jobs' = [jobs EXCEPT ![h] = r]
        /\ worker # "off" /\ idle' = idle
        /\ Persist(jobs', queue') \/ PersistRaises
    BY <1>0, <1>2, TakingStep DEF TakeHead
  <2>2. /\ r \in Job /\ r.status = "running" /\ r.attempts = jobs[h].attempts
        /\ r.max = jobs[h].max /\ r.wait = jobs[h].wait
    BY <2>1, MarkedJob DEF Status
  <2> HIDE DEF h, r
  <2>3. RestedOrWaits(r, idle[h])
    BY <2>1, <2>2 DEF Rested, Open, RestedOrWaits
  <2>4. Rested(jobs', idle') /\ MaxGiven(jobs')
    BY <1>0, <2>1, <2>2, <2>3, RestedReplace
  <2>5. NotAhead(diskJobs, jobs')
    BY <1>0, <2>1, <2>2 DEF NotAhead
  <2> QED BY <1>0, <2>1, <2>4, <2>5, SavedRested
<1>3. CASE MarkCompleted \/ MarkFailed
  <2>1. PICK r \in Job :
          /\ jobs' = [jobs EXCEPT ![cur] = r]
          /\ r.max = jobs[cur].max /\ r.attempts >= jobs[cur].attempts
          /\ r.status \in {"completed", "failed"}
    <3>1. jobs[cur] \in Job /\ jobs[cur].attempts \in Nat
      BY <1>0 DEF Job
    <3>2. CASE MarkCompleted
      <4> DEFINE r == Marked(jobs[cur], "completed")
      <4>1. /\ r \in Job /\ r.status = "completed" /\ r.attempts = jobs[cur].attempts
            /\ r.max = jobs[cur].max
        BY <3>1, MarkedJob DEF Status, Settled
      <4>2. jobs' = [jobs EXCEPT ![cur] = r]
        BY <3>2 DEF MarkCompleted
      <4>3. r.attempts >= jobs[cur].attempts
        BY <3>1, <4>1
      <4> HIDE DEF r
      <4> QED BY <4>1, <4>2, <4>3
    <3>3. CASE MarkFailed
      <4> DEFINE r == GivenUp(jobs[cur])
      <4>1. /\ r \in Job /\ r.status = "failed" /\ r.attempts = jobs[cur].attempts + 1
            /\ r.max = jobs[cur].max
        BY <3>1, GivenUpJob
      <4>2. jobs' = [jobs EXCEPT ![cur] = r]
        BY <3>3 DEF MarkFailed
      <4>3. r.attempts >= jobs[cur].attempts
        BY <3>1, <4>1
      <4> HIDE DEF r
      <4> QED BY <4>1, <4>2, <4>3
    <3> QED BY <1>3, <3>2, <3>3
  <2>2. /\ jobs[cur].status = "running" /\ worker # "off" /\ idle' = idle
        /\ Persist(jobs', queue') \/ PersistRaises
    BY <1>3, MarkingStep DEF MarkCompleted, MarkFailed, history
  <2>3. Rested(jobs', idle') /\ MaxGiven(jobs')
    BY <1>0, <2>1, <2>2, RestedReplace DEF Open
  <2>4. NotAhead(diskJobs, jobs')
    <3>1. \A j \in Jobs : diskJobs[j].attempts \in Nat /\ jobs[j].attempts \in Nat
      BY DEF IInv, TypeOK, Job
    <3> QED BY <1>0, <2>1, <2>2, <3>1 DEF NotAhead, Job
  <2> QED BY <1>0, <2>2, <2>3, <2>4, SavedRested
<1>4. CASE MarkRetry
  <2> DEFINE n == jobs[cur].attempts
             r == SentBack(jobs[cur])
             t == Recorded(idle[cur], n)
  <2>1. /\ jobs[cur].status = "running" /\ worker # "off"
        /\ jobs[cur] \in Job /\ n \in Nat
        /\ jobs' = [jobs EXCEPT ![cur] = r]
        /\ idle' = [idle EXCEPT ![cur] = t]
        /\ Persist(jobs', queue') \/ PersistRaises
    BY <1>0, <1>4, MarkingStep DEF MarkRetry, Job
  <2>2. /\ r \in Job /\ r.status = "queued" /\ r.attempts = n + 1 /\ r.max = jobs[cur].max
        /\ r.wait = RetryDelay(n + 1)
    <3>1. jobs[cur] \in Job
      BY <2>1
    <3> QED BY <3>1, SentBackJob DEF n, r
  <2>3. n <= Len(idle[cur])
    BY <1>0, <2>1 DEF Rested, Open, RestedOrWaits
  <2>4. /\ t \in Seq(Nat) /\ Len(t) = n + 1 /\ t[n + 1] = 0
        /\ \A i \in 1..n : t[i] = idle[cur][i]
    <3>1. idle[cur] \in Seq(Nat) /\ n \in Nat
      BY <1>0, <2>1
    <3> HIDE DEF n
    <3> QED BY <2>3, <3>1, RecordedType
  <2>5. RetryDelay(n + 1) \in Nat
    BY <2>1, RetryDelayType
  <2> HIDE DEF n, r, t
  <2>6. idle' \in [Jobs -> Seq(Nat)] /\ idle'[cur] = t /\ \A j \in Jobs \ {cur} : idle'[j] = idle[j]
    BY <1>0, <2>1, <2>4
  <2>7. RestedOrWaits(r, t)
    BY <2>1, <2>2, <2>4, <2>5 DEF RestedOrWaits
  <2>8. Rested(jobs', idle')
    <3>1. \A j \in Jobs \ {cur} : jobs'[j] = jobs[j]
      BY <1>0, <2>1
    <3>2. jobs'[cur] = r
      BY <1>0, <2>1
    <3> QED BY <2>6, <2>7, <3>1, <3>2 DEF Rested
  <2>9. MaxGiven(jobs')
    BY <1>0, <2>1, <2>2 DEF MaxGiven
  <2>10. \A j \in Jobs : diskJobs[j].attempts \in Nat /\ jobs[j].attempts \in Nat
    BY DEF IInv, TypeOK, Job
  <2>11. NotAhead(diskJobs, jobs')
    <3>1. \A j \in Jobs : jobs'[j].attempts >= jobs[j].attempts /\ jobs'[j].attempts \in Nat
      BY <1>0, <2>1, <2>2, <2>10 DEF n
    <3> QED BY <2>1, <2>10, <3>1 DEF NotAhead
  <2>12. Rested(diskJobs, idle')
    <3>1. ASSUME Open(diskJobs[cur]) PROVE RestedOrWaits(diskJobs[cur], t)
      <4>1. diskJobs[cur].attempts <= n /\ RestedOrWaits(diskJobs[cur], idle[cur])
        BY <1>0, <2>1, <3>1 DEF NotAhead, Rested, n
      <4>2. diskJobs[cur].attempts \in Nat
        BY <1>0, <2>10
      <4> QED BY <2>1, <2>4, <4>1, <4>2 DEF RestedOrWaits
    <3> QED BY <2>6, <3>1 DEF Rested
  <2> QED BY <1>0, <2>1, <2>8, <2>9, <2>11, <2>12, SavedRested
<1> QED BY <1>1, <1>2, <1>3, <1>4 DEF WorkerStep

LEMMA RestStep ==
  ASSUME CountsLongEnough, RestInv, [Next]_vars
  PROVE  RestInv'
<1>1. IInv'
  BY NextIInv DEF RestInv
<1>2. CASE Tick
  <2>1. /\ jobs' = Aged(jobs) /\ diskJobs' = Aged(diskJobs)
        /\ idle' = [j \in Jobs |-> Advanced(idle[j])] /\ worker' = worker
    BY <1>2 DEF Tick
  <2>2. /\ jobs \in [Jobs -> Job] /\ diskJobs \in [Jobs -> Job]
        /\ idle \in [Jobs -> Seq(Nat)]
        /\ Budgeted(jobs) /\ Budgeted(diskJobs)
    BY DEF RestInv, IInv, TypeOK, Sound
  <2>3. /\ Rested(jobs', idle') /\ MaxGiven(jobs')
        /\ Rested(diskJobs', idle') /\ MaxGiven(diskJobs')
    BY <2>1, <2>2, RestedAged DEF RestInv
  <2>4. NotAhead(diskJobs, jobs) => NotAhead(diskJobs', jobs')
    <3>1. \A j \in Jobs : jobs'[j].attempts = jobs[j].attempts
      BY <2>1, <2>2, AgedRecords
    <3>2. \A j \in Jobs : /\ diskJobs'[j].attempts = diskJobs[j].attempts
                          /\ diskJobs'[j].status = diskJobs[j].status
      BY <2>1, <2>2, AgedRecords
    <3> QED BY <3>1, <3>2 DEF NotAhead, Open
  <2> QED BY <1>1, <2>1, <2>3, <2>4 DEF RestInv
<1>3. CASE UNCHANGED vars
  BY <1>1, <1>3 DEF RestInv, vars, memory, disk, history
<1> QED BY <1>1, <1>2, <1>3, RestLifecycle, RestEnqueue, RestWorkerStep DEF Next

LEMMA RestInductive ==
  ASSUME CountsLongEnough
  PROVE  Spec => []RestInv
<1>1. Init => RestInv
  BY InitIInv, RestedNoJobs DEF Init, RestInv
<1>2. RestInv /\ [Next]_vars => RestInv'
  BY RestStep
<1> QED BY <1>1, <1>2, PTL DEF Spec

(* A job with n recorded failures is not taken before n times the retry     *)
(* base has passed since it was sent back with n failures, also when the    *)
(* process ended in between, a write raised or a later failure was lost.    *)
THEOREM RetriesBackOff ==
  ASSUME CountsLongEnough
  PROVE  Spec => BackoffHonoured
<1> DEFINE A == \A j \in Jobs :
                  takes'[j] # takes[j] /\ jobs[j].attempts > 0 =>
                    idle[j][jobs[j].attempts] >= RetryDelay(jobs[j].attempts)
<1>1. ASSUME RestInv, Next PROVE A
  <2>1. CASE TakeHead
    <3> SUFFICES ASSUME NEW j \in Jobs, takes'[j] # takes[j], jobs[j].attempts > 0
                 PROVE  idle[j][jobs[j].attempts] >= RetryDelay(jobs[j].attempts)
      OBVIOUS
    <3>1. j = cur'
      BY <1>1, <2>1, TakingStep DEF RestInv, IInv, TypeOK
    <3>2. jobs[j].status = "queued" /\ jobs[j].wait = 0
      BY <1>1, <2>1, <3>1, TakingStep DEF RestInv
    <3>3. RestedOrWaits(jobs[j], idle[j])
      BY <1>1, <3>2 DEF RestInv, Rested, Open
    <3>4. jobs[j].attempts \in 1..Len(idle[j]) /\ idle[j] \in Seq(Nat)
      <4>1. jobs[j].attempts \in Nat /\ idle[j] \in Seq(Nat)
        BY <1>1 DEF RestInv, IInv, TypeOK, Job
      <4> QED BY <3>3, <4>1, LenProperties DEF RestedOrWaits
    <3>5. idle[j][jobs[j].attempts] \in Nat
      BY <3>4, ElementOfSeq
    <3> QED BY <3>2, <3>3, <3>5 DEF RestedOrWaits
  <2>2. ASSUME takes' = takes PROVE A
    BY <2>2
  <2>3. CASE LoadState
    BY <2>2, <2>3, LoadingStep
  <2>4. CASE Start \/ Stop \/ Exit \/ Crash \/ Tick
    BY <2>2, <2>4 DEF Start, Stop, Exit, Crash, Tick, history
  <2>5. CASE \E j \in Jobs, m \in Retries : Enqueue(j, m)
    BY <2>2, <2>5 DEF Enqueue
  <2>6. CASE WorkerStep /\ ~TakeHead
    BY <2>2, <2>6 DEF WorkerStep, BeginScan, SkipHead, EndScan, WakeUp, ReadJob, HandlerEnds,
                      MarkCompleted, MarkRetry, MarkFailed, history
  <2> QED BY <1>1, <2>1, <2>3, <2>4, <2>5, <2>6 DEF Next, Lifecycle
<1>2. RestInv /\ [Next]_vars => [A]_vars
  BY <1>1
<1> QED BY <1>2, RestInductive, PTL DEF Spec, BackoffHonoured

-----------------------------------------------------------------------------
(* The refinement of JobLedger, for one start per process and faults that   *)
(* leave the vault as it should be.  Memory and vault then agree while the  *)
(* process lives, and the vault shows one running job at most.              *)

LedgerInv ==
  /\ HeldInv
  /\ worker # "off" => jobs = diskJobs
  /\ diskOk = TRUE
  /\ \A j, k \in Having(diskJobs, "running") : j = k
  /\ \A j \in Jobs : diskJobs[j].status = "none" => diskJobs[j] = NoJob

Entries(js) ==
  [j \in Jobs |-> [status |-> js[j].status, attempts |-> js[j].attempts, max |-> js[j].max]]

TheLedger == Entries(diskJobs)

(* Sparing: the faults of this section. *)
Sparing == RestartInPlace = FALSE /\ Faults \subseteq {"crash", "audit"}

LEMMA SparedVault ==
  ASSUME Sparing, LedgerInv
  PROVE  ~PersistRaises
BY DEF Sparing, LedgerInv, PersistRaises

LEMMA LedgerDefinitions ==
  /\ Ledger!Spec <=> Ledger!Init /\ [][Ledger!Next]_TheLedger
  /\ Ledger!Init <=> TheLedger = Entries(NoJobs)
<1>1. Entries(NoJobs) = [j \in Jobs |-> [status |-> "none", attempts |-> 0, max |-> 0]]
  BY DEF Entries, NoJobs, NoJob
<1> QED BY <1>1 DEF Ledger!Spec, Ledger!Init, Ledger!Absent, TheLedger, Entries

LEMMA LedgerAccept ==
  ASSUME NEW j \in Jobs, NEW m \in Retries, diskJobs[j] = NoJob,
         diskJobs' = [diskJobs EXCEPT ![j] = NewJob(m)], diskJobs \in [Jobs -> Job]
  PROVE  Ledger!Next
<1>1. /\ \A k \in Jobs : TheLedger[k] = [status |-> diskJobs[k].status,
                                        attempts |-> diskJobs[k].attempts,
                                        max |-> diskJobs[k].max]
      /\ TheLedger[j] = [status |-> "none", attempts |-> 0, max |-> 0]
  BY DEF TheLedger, Entries, NoJob
<1>2. TheLedger' = [TheLedger EXCEPT
                      ![j] = [status |-> "queued", attempts |-> 0, max |-> AtLeast(0, m)]]
  BY DEF TheLedger, Entries, NewJob
<1>3. Ledger!Accept(j)
  BY <1>1, <1>2 DEF Ledger!Accept, Ledger!Absent, TheLedger, Entries
<1> QED BY <1>3 DEF Ledger!Next

(* Moved(j, from, to, failures): what Move of JobLedger says of the records *)
(* in the vault.                                                            *)
Moved(j, from, to, failures) ==
  /\ diskJobs[j].status = from
  /\ diskJobs'[j].status = to
  /\ diskJobs'[j].attempts = diskJobs[j].attempts + failures
  /\ diskJobs'[j].max = diskJobs[j].max
  /\ \A k \in Jobs \ {j} : diskJobs'[k] = diskJobs[k]

LEMMA MovedMoves ==
  ASSUME NEW j \in Jobs, NEW from, NEW to, NEW failures \in Nat, Moved(j, from, to, failures)
  PROVE  Ledger!Move(j, from, to, failures)
<1>1. TheLedger[j].status = from
  BY DEF TheLedger, Entries, Moved
<1>2. TheLedger' = [TheLedger EXCEPT ![j].status = to, ![j].attempts = @ + failures]
  BY DEF TheLedger, Entries, Moved
<1> QED BY <1>1, <1>2 DEF Ledger!Move, TheLedger, Entries

LEMMA LedgerMove ==
  ASSUME NEW j \in Jobs,
         \/ /\ Moved(j, "queued", "running", 0)
            /\ \A k \in Jobs : diskJobs[k].status # "running"
         \/ Moved(j, "running", "completed", 0)
         \/ Moved(j, "running", "queued", 1) /\ diskJobs[j].attempts < diskJobs[j].max
         \/ Moved(j, "running", "failed", 1) /\ diskJobs[j].attempts = diskJobs[j].max
         \/ Moved(j, "running", "queued", 0)
  PROVE  Ledger!Next
<1>1. \A k \in Jobs : /\ TheLedger[k].status = diskJobs[k].status
                      /\ TheLedger[k].attempts = diskJobs[k].attempts
                      /\ TheLedger[k].max = diskJobs[k].max
  BY DEF TheLedger, Entries
<1>2. \/ Ledger!Begin(j) \/ Ledger!Succeed(j) \/ Ledger!Retry(j)
      \/ Ledger!GiveUp(j) \/ Ledger!Interrupt(j)
  BY <1>1, MovedMoves DEF Ledger!Begin, Ledger!Succeed, Ledger!Retry, Ledger!GiveUp,
                          Ledger!Interrupt, TheLedger, Entries
<1> QED BY <1>2 DEF Ledger!Next

LEMMA LedgerLifecycle ==
  ASSUME Sparing, LedgerInv, Lifecycle, HeldInv'
  PROVE  LedgerInv' /\ (Ledger!Next \/ UNCHANGED TheLedger)
<1> USE DEF LedgerInv
<1>1. CASE LoadState
  <2> DEFINE ks == Requeued(diskJobs)
  <2>1. worker' = "none" /\ jobs' = ks /\ diskJobs' = ks /\ diskOk' = TRUE
    BY <1>1, SparedVault DEF LoadState, Persist, disk
  <2>2. \A k \in Jobs :
          /\ ks[k].status = IF diskJobs[k].status = "running" THEN "queued"
                                                              ELSE diskJobs[k].status
          /\ ks[k].attempts = diskJobs[k].attempts
          /\ ks[k].max = diskJobs[k].max
          /\ diskJobs[k].status # "running" => ks[k] = diskJobs[k]
    <3>1. diskJobs \in [Jobs -> Job]
      BY DEF HeldInv, IInv, TypeOK
    <3> QED BY <3>1, RequeuedRecords
  <2> HIDE DEF ks
  <2>3. LedgerInv'
    <3>1. \A k \in Jobs : ks[k].status # "running"
      BY <2>2
    <3>2. \A k \in Jobs : ks[k].status = "none" => ks[k] = NoJob
      BY <2>2
    <3> QED BY <2>1, <3>1, <3>2 DEF Having
  <2>4. CASE \A k \in Jobs : diskJobs[k].status # "running"
    <3>1. \A k \in Jobs : ks[k] = diskJobs[k]
      BY <2>2, <2>4
    <3>2. TheLedger' = TheLedger
      BY <2>1, <3>1 DEF TheLedger, Entries
    <3> QED BY <2>3, <3>2
  <2>5. ASSUME NEW j \in Jobs, diskJobs[j].status = "running"
        PROVE  Ledger!Next
    <3>1. \A k \in Jobs \ {j} : ks[k] = diskJobs[k]
      BY <2>2, <2>5 DEF Having
    <3>2. diskJobs[j].attempts \in Nat
      BY DEF HeldInv, IInv, TypeOK, Job
    <3>3. Moved(j, "running", "queued", 0)
      BY <2>1, <2>2, <2>5, <3>1, <3>2 DEF Moved
    <3> QED BY <3>3, LedgerMove
  <2> QED BY <2>3, <2>4, <2>5
<1>2. CASE Start \/ Stop
  <2>1. worker # "off" /\ UNCHANGED <<jobs, diskJobs, diskOk>>
    BY <1>2 DEF Start, Stop, memory, disk
  <2> QED BY <2>1 DEF TheLedger, Having
<1>3. CASE Exit \/ Crash
  <2>1. worker' = "off" /\ UNCHANGED <<diskJobs, diskOk>>
    BY <1>3 DEF Exit, Crash, Forget, Tear, disk, Sparing
  <2> QED BY <2>1 DEF TheLedger, Having
<1> QED BY <1>1, <1>2, <1>3 DEF Lifecycle

LEMMA LedgerEnqueue ==
  ASSUME Sparing, LedgerInv, NEW j \in Jobs, NEW m \in Retries, Enqueue(j, m), HeldInv'
  PROVE  LedgerInv' /\ Ledger!Next
<1> USE DEF LedgerInv, HeldInv, IInv
<1>1. /\ worker # "off" /\ worker' = worker
      /\ jobs' = [jobs EXCEPT ![j] = NewJob(m)]
      /\ diskJobs' = jobs' /\ diskOk' = diskOk
      /\ diskJobs[j].status = "none"
  BY SparedVault DEF Enqueue, Persist, Fresh
<1>2. LedgerInv'
  <2>1. jobs = diskJobs /\ diskJobs \in [Jobs -> Job]
    BY <1>1 DEF TypeOK
  <2>2. Having(diskJobs', "running") \subseteq Having(diskJobs, "running")
    BY <1>1, <2>1 DEF Having, NewJob
  <2>3. \A k \in Jobs : diskJobs'[k] = diskJobs[k] \/ diskJobs'[k].status = "queued"
    BY <1>1, <2>1 DEF NewJob
  <2> QED BY <1>1, <2>2, <2>3
<1>3. diskJobs[j] = NoJob
  BY <1>1
<1> QED BY <1>1, <1>2, <1>3, LedgerAccept DEF TypeOK

LEMMA LedgerWorkerStep ==
  ASSUME Sparing, LedgerInv, WorkerStep, HeldInv'
  PROVE  LedgerInv' /\ (Ledger!Next \/ UNCHANGED TheLedger)
<1> USE DEF LedgerInv, HeldInv, IInv
<1>1. CASE BeginScan \/ SkipHead \/ EndScan \/ WakeUp \/ ReadJob \/ HandlerEnds
  <2>1. worker # "off" /\ UNCHANGED <<jobs, diskJobs, diskOk>>
    BY <1>1 DEF BeginScan, SkipHead, EndScan, WakeUp, ReadJob, HandlerEnds, memory, disk
  <2> QED BY <2>1 DEF TheLedger, Having
<1>2. ASSUME NEW j \in Jobs, NEW r \in Job, worker # "off", worker' # "off",
             jobs' = [jobs EXCEPT ![j] = r], Persist(jobs', queue'), r.status # "none",
             r.status = "running" => Having(jobs, "running") = {}
      PROVE  /\ LedgerInv'
             /\ diskJobs'[j] = r /\ \A k \in Jobs \ {j} : diskJobs'[k] = diskJobs[k]
  <2>1. /\ diskJobs' = jobs' /\ diskOk' = diskOk /\ jobs = diskJobs
        /\ diskJobs \in [Jobs -> Job]
    BY <1>2 DEF Persist, TypeOK
  <2>2. /\ diskJobs'[j] = r /\ \A k \in Jobs \ {j} : diskJobs'[k] = diskJobs[k]
    BY <1>2, <2>1
  <2>3. \A k \in Jobs : diskJobs'[k].status = "none" => diskJobs'[k] = NoJob
    BY <1>2, <2>2
  <2>4. \A i, k \in Having(diskJobs', "running") : i = k
    BY <1>2, <2>1, <2>2 DEF Having
  <2> QED BY <1>2, <2>1, <2>2, <2>3, <2>4 DEF Having
<1>3. CASE TakeHead
  <2> DEFINE h == cur'
             r == Marked(jobs[h], "running")
  <2>1. /\ h \in Jobs /\ jobs[h].status = "queued" /\ jobs[h] \in Job
        /\ jobs' = [jobs EXCEPT ![h] = r]
        /\ worker = "scan" /\ worker' # "off"
        /\ Persist(jobs', queue') /\ jobs = diskJobs
    BY <1>3, TakingStep, SparedVault DEF TypeOK
  <2>2. /\ r \in Job /\ r.status = "running" /\ r.attempts = jobs[h].attempts
        /\ r.max = jobs[h].max /\ jobs[h].attempts \in Nat
    BY <2>1, MarkedJob DEF Status, Job
  <2>3. Having(jobs, "running") = {}
    BY <2>1 DEF RunningIsHeld, Busy
  <2> HIDE DEF h, r
  <2>4. /\ LedgerInv'
        /\ diskJobs'[h] = r /\ \A k \in Jobs \ {h} : diskJobs'[k] = diskJobs[k]
    BY <1>2, <2>1, <2>2, <2>3
  <2>5. Moved(h, "queued", "running", 0)
    BY <2>1, <2>2, <2>4 DEF Moved
  <2>6. \A k \in Jobs : diskJobs[k].status # "running"
    BY <2>1, <2>3 DEF Having
  <2> QED BY <2>1, <2>4, <2>5, <2>6, LedgerMove
<1>4. CASE MarkCompleted \/ MarkRetry \/ MarkFailed
  <2>1. /\ jobs[cur] \in Job /\ jobs[cur].status = "running" /\ cur \in Jobs
        /\ worker # "off" /\ worker' # "off"
        /\ Persist(jobs', queue') /\ jobs = diskJobs
    BY <1>4, MarkingStep, SparedVault DEF TypeOK
  <2>2. /\ jobs[cur].attempts \in Nat /\ jobs[cur].max \in Nat
        /\ jobs[cur].attempts <= jobs[cur].max
    BY <2>1 DEF Job, Sound, Budgeted
  <2>3. ASSUME NEW r \in Job, jobs' = [jobs EXCEPT ![cur] = r], r.max = jobs[cur].max,
               \/ r.status = "completed" /\ r.attempts = jobs[cur].attempts
               \/ /\ r.status = "queued" /\ r.attempts = jobs[cur].attempts + 1
                  /\ jobs[cur].attempts < jobs[cur].max
               \/ /\ r.status = "failed" /\ r.attempts = jobs[cur].attempts + 1
                  /\ jobs[cur].attempts = jobs[cur].max
        PROVE  LedgerInv' /\ Ledger!Next
    <3>1. /\ LedgerInv'
          /\ diskJobs'[cur] = r /\ \A k \in Jobs \ {cur} : diskJobs'[k] = diskJobs[k]
      BY <1>2, <2>1, <2>3
    <3>2. \/ Moved(cur, "running", "completed", 0)
          \/ Moved(cur, "running", "queued", 1) /\ diskJobs[cur].attempts < diskJobs[cur].max
          \/ Moved(cur, "running", "failed", 1) /\ diskJobs[cur].attempts = diskJobs[cur].max
      BY <2>1, <2>2, <2>3, <3>1 DEF Moved
    <3> QED BY <2>1, <3>1, <3>2, LedgerMove
  <2>4. CASE MarkCompleted
    <3> DEFINE r == Marked(jobs[cur], "completed")
    <3>1. /\ r \in Job /\ r.status = "completed" /\ r.attempts = jobs[cur].attempts
          /\ r.max = jobs[cur].max
      BY <2>1, MarkedJob DEF Status, Settled
    <3>2. jobs' = [jobs EXCEPT ![cur] = r]
      BY <2>4 DEF MarkCompleted
    <3> HIDE DEF r
    <3> QED BY <2>3, <3>1, <3>2
  <2>5. CASE MarkRetry
    <3> DEFINE r == SentBack(jobs[cur])
    <3>1. /\ r \in Job /\ r.status = "queued" /\ r.attempts = jobs[cur].attempts + 1
          /\ r.max = jobs[cur].max
      BY <2>1, SentBackJob
    <3>2. jobs' = [jobs EXCEPT ![cur] = r] /\ jobs[cur].attempts < jobs[cur].max
      BY <2>2, <2>5 DEF MarkRetry, MayRetry
    <3> HIDE DEF r
    <3> QED BY <2>3, <3>1, <3>2
  <2>6. CASE MarkFailed
    <3> DEFINE r == GivenUp(jobs[cur])
    <3>1. /\ r \in Job /\ r.status = "failed" /\ r.attempts = jobs[cur].attempts + 1
          /\ r.max = jobs[cur].max
      BY <2>1, GivenUpJob
    <3>2. jobs' = [jobs EXCEPT ![cur] = r] /\ jobs[cur].attempts = jobs[cur].max
      BY <2>2, <2>6 DEF MarkFailed, MayRetry
    <3> HIDE DEF r
    <3> QED BY <2>3, <3>1, <3>2
  <2> QED BY <1>4, <2>4, <2>5, <2>6
<1> QED BY <1>1, <1>3, <1>4 DEF WorkerStep

LEMMA LedgerStep ==
  ASSUME Sparing, LedgerInv, [Next]_vars
  PROVE  LedgerInv' /\ (Ledger!Next \/ UNCHANGED TheLedger)
<1>1. HeldInv'
  BY HeldStep DEF Sparing, LedgerInv
<1>2. CASE Tick
  <2>1. /\ jobs' = Aged(jobs) /\ diskJobs' = Aged(diskJobs)
        /\ UNCHANGED <<worker, diskOk>> /\ diskJobs \in [Jobs -> Job]
    BY <1>2 DEF Tick, LedgerInv, HeldInv, IInv, TypeOK
  <2>2. \A j \in Jobs : /\ diskJobs'[j].status = diskJobs[j].status
                        /\ diskJobs'[j].attempts = diskJobs[j].attempts
                        /\ diskJobs'[j].max = diskJobs[j].max
    BY <2>1, AgedRecords
  <2>3. \A j \in Jobs : diskJobs[j] = NoJob => diskJobs'[j] = NoJob
    BY <2>1 DEF Aged, NoJob, AtLeast
  <2> QED BY <1>1, <2>1, <2>2, <2>3 DEF LedgerInv, Having, TheLedger, Entries
<1>3. CASE UNCHANGED vars
  BY <1>1, <1>3 DEF LedgerInv, Having, TheLedger, vars, memory, disk
<1> QED BY <1>1, <1>2, <1>3, LedgerLifecycle, LedgerEnqueue, LedgerWorkerStep DEF Next

(* The queue as the vault shows it is the queue clients were promised: one  *)
(* job runs at a time, failures are counted once and within the budget,     *)
(* an interrupted job goes back to queued, and settled jobs stay.  Between  *)
(* kills, shutdowns and audit logs that raise, with one start per process;  *)
(* a vault write that raises leaves the vault behind, and a torn one loses  *)
(* it, which the promise does not allow for.                                *)
THEOREM ImplementsJobLedger ==
  ASSUME RestartInPlace = FALSE, Faults \subseteq {"crash", "audit"}
  PROVE  Spec => KeepsLedger
<1>1. Sparing
  BY DEF Sparing
<1>2. Init => LedgerInv /\ Ledger!Init
  <2>1. Init => HeldInv
    BY InitIInv DEF HeldInv, RunningIsHeld, Having, Init, NoJobs, NoJob
  <2> QED BY <2>1, LedgerDefinitions
          DEF Init, LedgerInv, TheLedger, Having, NoJobs, NoJob
<1>3. LedgerInv /\ [Next]_vars => LedgerInv' /\ [Ledger!Next]_TheLedger
  BY <1>1, LedgerStep
<1> QED BY <1>2, <1>3, LedgerDefinitions, PTL DEF Spec, KeepsLedger

=============================================================================
