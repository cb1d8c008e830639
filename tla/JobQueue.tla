------------------------------ MODULE JobQueue ------------------------------
(***************************************************************************)
(* backend/app/job_queue.py: the persistent background job queue.          *)
(*                                                                         *)
(* One process holds a table of jobs and a list of queued job ids, copies  *)
(* both into the vault after every change, and runs one worker task.  The  *)
(* process may be killed between any two steps; what it then knows is what *)
(* the vault file holds.                                                   *)
(*                                                                         *)
(* Every critical section under self._lock is free of awaits, so each is   *)
(* one action here, except the scan of _dequeue_next_job_id, which is one  *)
(* action per list item with the lock held throughout (worker = "scan").   *)
(***************************************************************************)
EXTENDS Integers, Sequences, FiniteSets

CONSTANTS
  Jobs,            \* the ids uuid4 may hand out
  Handled,         \* those whose job type has a registered handler
  Retries,         \* the max_retries values that callers pass
  RetryBase,       \* the retry_base_seconds argument
  RestartInPlace,  \* TRUE: start() may be called again on the same instance
  Faults,          \* what may go wrong, out of FaultKinds
  MaxRestarts,     \* bound on the number of kills and shutdowns
  MaxIdle          \* the history idle stops counting here

FaultKinds == {"crash",  \* the process is killed
               "raise",  \* vault.set raises and leaves the file as it was
               "torn",   \* the vault file is truncated and not rewritten
               "audit"}  \* the append to the audit log raises

ASSUME ConstantsAssumption ==
  /\ IsFiniteSet(Jobs)
  /\ Handled \subseteq Jobs
  /\ Retries \subseteq Int
  /\ RetryBase \in Int
  /\ RestartInPlace \in BOOLEAN
  /\ Faults \subseteq FaultKinds
  /\ MaxRestarts \in Nat
  /\ MaxIdle \in Nat

VARIABLES
  jobs,       \* self._jobs
  queue,      \* self._queue
  worker,     \* where the process and its worker task are
  cur,        \* job_id in the frame of _worker_loop
  left,       \* iterations left of the loop in _dequeue_next_job_id
  diskJobs,   \* "jobs" under STATE_KEY in the vault file
  diskQueue,  \* "queue" under STATE_KEY in the vault file
  diskOk,     \* whether the vault file decrypts
  torn,       \* history: whether a write of the vault was ever cut short
  issued,     \* history: ids handed out
  older,      \* history: the ids handed out before each id
  acked,      \* history: ids that enqueue returned to its caller
  takes,      \* history: how often the worker has taken each job
  idle,       \* history: job -> n -> ticks since it was sent back with n failures
  restarts    \* history: kills and shutdowns so far

memory == <<jobs, queue>>
disk == <<diskJobs, diskQueue, diskOk, torn>>
frame == <<cur, left>>
history == <<issued, older, acked, takes, idle, restarts>>
vars == <<memory, worker, frame, disk, history>>

-----------------------------------------------------------------------------
(* The data.                                                               *)

Settled == {"completed", "failed"}
Status == {"none", "queued", "running"} \cup Settled

(* run_after is kept as `wait', the time still missing until it.  "none" is *)
(* the status of an id the table does not hold.                             *)
Job == [status: Status, attempts: Nat, max: Nat, wait: Nat]

NoJob == [status |-> "none", attempts |-> 0, max |-> 0, wait |-> 0]
NoJobs == [j \in Jobs |-> NoJob]

AtLeast(low, n) == IF n < low THEN low ELSE n
AtMost(high, n) == IF n > high THEN high ELSE n

(* Mutated form: max_retries stored as passed. *)
NewJobUnclamped(m) == [status |-> "queued", attempts |-> 0, max |-> m, wait |-> 0]

NewJob(m) == [status |-> "queued", attempts |-> 0, max |-> AtLeast(0, m), wait |-> 0]

Marked(job, s) == [job EXCEPT !.status = s]

Having(js, s) == {j \in Jobs : js[j].status = s}

(* Seq q enumerates set S, each element once. *)
Lists(q, S) ==
  /\ \A i \in 1..Len(q) : q[i] \in S
  /\ \A x \in S : \E i \in 1..Len(q) : q[i] = x
  /\ \A i, k \in 1..Len(q) : q[i] = q[k] => i = k

Orderings(S) == {q \in [1..Cardinality(S) -> S] : Lists(q, S)}

-----------------------------------------------------------------------------
(* The vault.  set() reads the whole file, replaces the state and writes    *)
(* the file with write_bytes, which truncates before it writes: a write     *)
(* that is cut short leaves an empty file, which reads as {}, or a part of  *)
(* a token, which every later read refuses.                                 *)

Tear ==
  /\ diskJobs' = NoJobs
  /\ diskQueue' = <<>>
  /\ diskOk' \in BOOLEAN
  /\ torn' = TRUE

Persist(js, q) ==
  /\ diskOk
  /\ diskJobs' = js
  /\ diskQueue' = q
  /\ UNCHANGED <<diskOk, torn>>

PersistRaises ==
  \/ /\ ~diskOk \/ "raise" \in Faults
     /\ UNCHANGED disk
  \/ /\ diskOk /\ "torn" \in Faults
     /\ Tear

(* What an await of a persisting method does to the worker task: it goes    *)
(* on, or an exception that _worker_loop does not catch ends it.            *)
PersistThen(js, q, next) ==
  \/ Persist(js, q) /\ worker' = next
  \/ PersistRaises /\ worker' = "dead"

PersistAndAuditThen(js, q, next) ==
  \/ PersistThen(js, q, next)
  \/ "audit" \in Faults /\ Persist(js, q) /\ worker' = "dead"

-----------------------------------------------------------------------------
Init ==
  /\ jobs = NoJobs /\ queue = <<>>
  /\ worker = "off"
  /\ cur \in Jobs /\ left = 0
  /\ diskJobs = NoJobs /\ diskQueue = <<>> /\ diskOk = TRUE
  /\ torn = FALSE
  /\ issued = {} /\ acked = {}
  /\ older = [j \in Jobs |-> {}]
  /\ takes = [j \in Jobs |-> 0]
  /\ idle = [j \in Jobs |-> <<>>]
  /\ restarts = 0

(* Mutated forms: the repair of interrupted jobs drops them, forgets them,  *)
(* takes in failed jobs too, restarts their count or counts the attempt, or *)
(* brings every retry forward.                                              *)
Repaired(js, S, f(_)) == [j \in Jobs |-> IF js[j].status \in S THEN f(js[j]) ELSE js[j]]
RequeuedDropped(js) == Repaired(js, {"running"}, LAMBDA r : NoJob)
RequeuedForgotten(js) == js
RequeuedWithFailed(js) ==
  Repaired(js, {"running", "failed"}, LAMBDA r : [r EXCEPT !.status = "queued"])
RequeuedAfresh(js) ==
  Repaired(js, {"running"}, LAMBDA r : [r EXCEPT !.status = "queued", !.attempts = 0])
RequeuedCounted(js) ==
  Repaired(js, {"running"}, LAMBDA r : [r EXCEPT !.status = "queued", !.attempts = @ + 1])
RequeuedAtOnce(js) ==
  Repaired(js, {"running", "queued"}, LAMBDA r : [r EXCEPT !.status = "queued", !.wait = 0])

Requeued(js) ==
  [j \in Jobs |-> IF js[j].status = "running"
                  THEN Marked(js[j], "queued") ELSE js[j]]

(* Mutated form: the test `job_id not in self._queue' is missing. *)
UnlistedUnchecked(js, q) == Having(js, "queued")

Unlisted(js, q) == Having(js, "queued") \ {q[i] : i \in 1..Len(q)}

(* Mutated form: the saved list is ignored and rebuilt from the jobs. *)
ReloadedRebuilt(js, q) == Orderings(Having(js, "queued"))

(* The file's keys are in the order of the uuids (json sort_keys), so       *)
(* several unlisted jobs are appended in any order.                         *)
Reloaded(js, q) == {q \o tail : tail \in Orderings(Unlisted(js, q))}

(* __init__ and _load_state; a vault that cannot be read or written ends    *)
(* the process again.                                                       *)
LoadState ==
  /\ worker = "off"
  /\ diskOk
  /\ LET js == Requeued(diskJobs)
     IN \E q \in Reloaded(js, diskQueue) :
          \/ /\ IF js = diskJobs /\ q = diskQueue
                THEN UNCHANGED disk
                ELSE Persist(js, q)
             /\ jobs' = js
             /\ queue' = q
             /\ worker' = "none"
          \/ /\ js # diskJobs \/ q # diskQueue
             /\ PersistRaises
             /\ UNCHANGED <<memory, worker>>
  /\ UNCHANGED <<frame, history>>

(* start: a task when there is none, or when the last one has ended. *)
Start ==
  /\ \/ worker = "none"
     \/ RestartInPlace /\ worker \in {"stopped", "dead"}
  /\ worker' = "poll"
  /\ UNCHANGED <<memory, frame, disk, history>>

(* stop: the cancellation is delivered where the task is suspended: before  *)
(* its first step, in the sleep, or in the handler.  The job of a cancelled *)
(* handler keeps its status.                                                *)
Stop ==
  /\ worker \in {"poll", "sleep", "handle"}
  /\ restarts < MaxRestarts
  /\ worker' = "stopped"
  /\ restarts' = restarts + 1
  /\ UNCHANGED <<memory, frame, disk, issued, older, acked, takes, idle>>

Forget ==
  /\ jobs' = NoJobs
  /\ queue' = <<>>
  /\ worker' = "off"
  /\ left' = 0
  /\ UNCHANGED cur

(* The process ends after the shutdown event. *)
Exit ==
  /\ worker = "stopped"
  /\ Forget
  /\ UNCHANGED <<disk, history>>

(* The process is killed.  The vault file is shared with the token and      *)
(* OAuth stores, so a write may be under way at any moment.                 *)
Crash ==
  /\ "crash" \in Faults
  /\ worker # "off"
  /\ restarts < MaxRestarts
  /\ restarts' = restarts + 1
  /\ Forget
  /\ \/ UNCHANGED disk
     \/ "torn" \in Faults /\ Tear
  /\ UNCHANGED <<issued, older, acked, takes, idle>>

(* Time passes; run_after is an instant, in memory and in the file alike.   *)
Aged(js) == [j \in Jobs |-> [js[j] EXCEPT !.wait = AtLeast(0, @ - 1)]]

Advanced(ticks) == [n \in DOMAIN ticks |-> AtMost(MaxIdle, ticks[n] + 1)]

Tick ==
  /\ worker # "scan"
  /\ \E j \in Jobs : jobs[j].wait > 0 \/ diskJobs[j].wait > 0
  /\ jobs' = Aged(jobs)
  /\ diskJobs' = Aged(diskJobs)
  /\ idle' = [j \in Jobs |-> Advanced(idle[j])]
  /\ UNCHANGED <<queue, worker, frame, diskQueue, diskOk, torn,
                 issued, older, acked, takes, restarts>>

-----------------------------------------------------------------------------
(* enqueue, with the lock free.  A failing vault or audit log reaches the   *)
(* caller as an exception, but the job stays in the table and in the list.  *)
Enqueue(j, m) ==
  /\ worker \notin {"off", "scan"}
  /\ j \notin issued
  /\ jobs' = [jobs EXCEPT ![j] = NewJob(m)]
  /\ queue' = Append(queue, j)
  /\ issued' = issued \cup {j}
  /\ older' = [older EXCEPT ![j] = issued]
  /\ \/ Persist(jobs', queue') /\ acked' = acked \cup {j}
     \/ "audit" \in Faults /\ Persist(jobs', queue') /\ UNCHANGED acked
     \/ PersistRaises /\ UNCHANGED acked
  /\ UNCHANGED <<worker, frame, takes, idle, restarts>>

-----------------------------------------------------------------------------
(* _dequeue_next_job_id.                                                    *)

BeginScan ==
  /\ worker = "poll"
  /\ worker' = IF queue = <<>> THEN "sleep" ELSE "scan"
  /\ left' = Len(queue)
  /\ UNCHANGED <<memory, cur, disk, history>>

Due(j) == jobs[j].status = "queued" /\ jobs[j].wait = 0

(* Mutated form: a job that is not due is not put back. *)
SkipHeadForGood ==
  /\ worker = "scan" /\ left > 0
  /\ ~Due(Head(queue))
  /\ queue' = Tail(queue)
  /\ left' = left - 1
  /\ UNCHANGED <<jobs, worker, cur, disk, history>>

(* The head of the list is dropped when it is no longer queued, and goes to *)
(* the back when its retry delay has not passed.                            *)
SkipHead ==
  /\ worker = "scan" /\ left > 0
  /\ ~Due(Head(queue))
  /\ queue' = IF jobs[Head(queue)].status = "queued"
              THEN Append(Tail(queue), Head(queue)) ELSE Tail(queue)
  /\ left' = left - 1
  /\ UNCHANGED <<jobs, worker, cur, disk, history>>

TakeHead ==
  /\ worker = "scan" /\ left > 0
  /\ Due(Head(queue))
  /\ cur' = Head(queue)
  /\ jobs' = [jobs EXCEPT ![Head(queue)] = Marked(@, "running")]
  /\ queue' = Tail(queue)
  /\ left' = 0
  /\ takes' = [takes EXCEPT ![Head(queue)] = @ + 1]
  /\ PersistThen(jobs', queue', "got")
  /\ UNCHANGED <<issued, older, acked, idle, restarts>>

EndScan ==
  /\ worker = "scan" /\ left = 0
  /\ worker' = "sleep"
  /\ UNCHANGED <<memory, frame, disk, history>>

(* asyncio.sleep(poll_interval_seconds) returns. *)
WakeUp ==
  /\ worker = "sleep"
  /\ worker' = "poll"
  /\ UNCHANGED <<memory, frame, disk, history>>

-----------------------------------------------------------------------------
(* The rest of _worker_loop.                                                *)

(* A job type nobody registered a handler for is a failed attempt. *)
ReadJob ==
  /\ worker = "got"
  /\ worker' = IF cur \in Handled THEN "handle" ELSE "raised"
  /\ UNCHANGED <<memory, frame, disk, history>>

HandlerEnds ==
  /\ worker = "handle"
  /\ worker' \in {"returned", "raised"}
  /\ UNCHANGED <<memory, frame, disk, history>>

MarkCompleted ==
  /\ worker = "returned"
  /\ jobs' = [jobs EXCEPT ![cur] = Marked(@, "completed")]
  /\ UNCHANGED queue
  /\ PersistAndAuditThen(jobs', queue', "poll")
  /\ UNCHANGED <<frame, history>>

RetryDelay(n) == AtLeast(1, RetryBase) * n

(* Mutated form: the old count is compared. *)
MayRetryOnceMore(j) == jobs[j].attempts <= jobs[j].max

MayRetry(j) == jobs[j].attempts + 1 <= jobs[j].max

SentBack(job) ==
  [job EXCEPT !.status = "queued", !.attempts = job.attempts + 1,
              !.wait = RetryDelay(job.attempts + 1)]

GivenUp(job) == [job EXCEPT !.status = "failed", !.attempts = job.attempts + 1]

(* The ticks since each failure of a job, when it has failed once more. *)
Recorded(ticks, n) == Append(SubSeq(ticks, 1, AtMost(Len(ticks), n)), 0)

MarkRetry ==
  /\ worker = "raised"
  /\ MayRetry(cur)
  /\ jobs' = [jobs EXCEPT ![cur] = SentBack(@)]
  /\ queue' = Append(queue, cur)
  /\ PersistAndAuditThen(jobs', queue', "poll")
  /\ idle' = [idle EXCEPT ![cur] = Recorded(@, jobs[cur].attempts)]
  /\ UNCHANGED <<frame, issued, older, acked, takes, restarts>>

MarkFailed ==
  /\ worker = "raised"
  /\ ~MayRetry(cur)
  /\ jobs' = [jobs EXCEPT ![cur] = GivenUp(@)]
  /\ UNCHANGED queue
  /\ PersistAndAuditThen(jobs', queue', "poll")
  /\ UNCHANGED <<frame, history>>

-----------------------------------------------------------------------------
WorkerStep ==
  \/ BeginScan \/ SkipHead \/ TakeHead \/ EndScan \/ WakeUp
  \/ ReadJob \/ HandlerEnds \/ MarkCompleted \/ MarkRetry \/ MarkFailed

Lifecycle == LoadState \/ Start \/ Stop \/ Exit \/ Crash

Next ==
  \/ Lifecycle
  \/ Tick
  \/ \E j \in Jobs, m \in Retries : Enqueue(j, m)
  \/ WorkerStep

Spec == Init /\ [][Next]_vars

(* The event loop runs a ready worker; a handler returns or raises (every   *)
(* request it makes has a timeout); compose restarts an ended process       *)
(* (restart: unless-stopped) and the startup event starts the worker; the   *)
(* clock advances outside the scan.                                         *)
Fairness ==
  /\ WF_vars(WorkerStep)
  /\ WF_vars(LoadState) /\ WF_vars(Start) /\ WF_vars(Exit)
  /\ SF_vars(Tick)

FairSpec == Spec /\ Fairness

-----------------------------------------------------------------------------
(* Properties.                                                              *)

Busy == {"got", "handle", "returned", "raised"}
Phases == Busy \cup {"off", "none", "poll", "scan", "sleep", "stopped", "dead"}

(* Every variable keeps its shape (all of job_queue.py). *)
TypeOK ==
  /\ jobs \in [Jobs -> Job] /\ queue \in Seq(Jobs)
  /\ worker \in Phases
  /\ cur \in Jobs /\ left \in Nat
  /\ worker = "scan" => left <= Len(queue)
  /\ diskJobs \in [Jobs -> Job] /\ diskQueue \in Seq(Jobs)
  /\ diskOk \in BOOLEAN /\ torn \in BOOLEAN
  /\ issued \subseteq Jobs /\ acked \subseteq issued
  /\ older \in [Jobs -> SUBSET Jobs]
  /\ takes \in [Jobs -> Nat] /\ idle \in [Jobs -> Seq(Nat)]
  /\ restarts \in Nat

(* The list enumerates exactly the jobs whose status is queued, each once,  *)
(* in memory and in the file: no job is queued twice, none is queued and    *)
(* forgotten, none is in the list while it runs or after it has settled.    *)
(* The two are kept together only by enqueue, the scan, the retry path and  *)
(* the repair in _load_state.                                               *)
QueueExact ==
  /\ Lists(queue, Having(jobs, "queued"))
  /\ Lists(diskQueue, Having(diskJobs, "queued"))

(* attempts against max_retries, in memory and in the file: a job that may  *)
(* still run or has completed has a failed attempt less than its budget of  *)
(* max_retries + 1, and it fails exactly when the budget is spent.          *)
Budgeted(js) ==
  \A j \in Jobs :
    IF js[j].status = "failed" THEN js[j].attempts = js[j].max + 1
                               ELSE js[j].attempts <= js[j].max

AttemptsWithinBudget == Budgeted(jobs) /\ Budgeted(diskJobs)

(* A job whose enqueue returned is in the vault from then on, whatever is   *)
(* killed or raises later ("Job queue persists job payload",                *)
(* docs/architecture.md), as long as no write of the file was cut short.    *)
AckedInVault == \A j \in acked : diskJobs[j].status # "none"

AckedIsDurable == ~torn => AckedInVault

(* A job the vault holds as completed or failed keeps its record, through   *)
(* later jobs, crashes and the repair in _load_state, up to the first write *)
(* that is cut short.                                                       *)
SettledStaysSettled ==
  [][~torn' =>
       \A j \in Jobs : diskJobs[j].status \in Settled => diskJobs'[j] = diskJobs[j]]_vars

(* No job is taken for the first time before a job enqueued earlier that    *)
(* is queued and was never taken: the rotation of waiting jobs, the appends *)
(* of retries and the reload keep the order of arrival.                     *)
FirstComeFirstServed ==
  [][\A j \in Jobs : takes[j] = 0 /\ takes'[j] = 1 =>
        \A k \in older[j] : ~(takes[k] = 0 /\ jobs[k].status = "queued")]_vars

(* A job with n recorded failures is not taken before n times the retry     *)
(* base has passed since it was sent back with n failures, also when the    *)
(* process was restarted in between or a later failure was lost ("delay =   *)
(* JOB_RETRY_BASE_SECONDS * attempt_number", docs/ai-configuration.md).     *)
BackoffHonoured ==
  [][\A j \in Jobs :
       takes'[j] # takes[j] /\ jobs[j].attempts > 0 =>
         idle[j][jobs[j].attempts] >= RetryDelay(jobs[j].attempts)]_vars

(* How often a job may run: its budget, and once more for every kill or     *)
(* shutdown, because an interrupted attempt is not counted.                 *)
TakesBounded ==
  \A j \in Jobs :
    jobs[j].status # "none" => takes[j] <= jobs[j].max + 1 + restarts

(* While the worker lives, a job GET /api/jobs reports as running is the    *)
(* one it is working on.                                                    *)
RunningIsHeld ==
  \A j \in Having(jobs, "running") :
    \/ worker \in Busy /\ cur = j
    \/ worker \in {"stopped", "dead"}

(* Every accepted job is completed or failed in the end ("Worker processes  *)
(* job and retries failures with backoff", docs/architecture.md).           *)
JobsSettle == \A j \in Jobs : (j \in acked) ~> (diskJobs[j].status \in Settled)

-----------------------------------------------------------------------------
(* The abstract specification, read off the vault: what survives a crash is *)
(* what a client has been promised.                                         *)

Ledger == INSTANCE JobLedger WITH
  Budgets <- {AtLeast(0, m) : m \in Retries},
  ledger <- [j \in Jobs |-> [status |-> diskJobs[j].status,
                             attempts |-> diskJobs[j].attempts,
                             max |-> diskJobs[j].max]]

(* The queue as the vault shows it moves jobs only the way JobLedger does:  *)
(* one job runs at a time, each failure is counted once, interrupted jobs   *)
(* go back to queued and settled ones stay.                                 *)
KeepsLedger == Ledger!Spec

=============================================================================
