----------------------------- MODULE JobLedger ------------------------------
(***************************************************************************)
(* What the job queue promises a client that polls GET /api/jobs/{id}: one *)
(* entry per job, one job running at a time, failures counted against a    *)
(* budget, and no way back from completed or failed.  No queue, no worker, *)
(* no file and no clock: JobQueue shows how the code keeps this promise.   *)
(***************************************************************************)
EXTENDS Naturals

CONSTANTS Jobs,     \* job ids
          Budgets   \* the values max_retries may have

VARIABLE ledger  \* status, failed attempts and max_retries of each job

Absent == [status |-> "none", attempts |-> 0, max |-> 0]

Init == ledger = [j \in Jobs |-> Absent]

Move(j, from, to, failures) ==
  /\ ledger[j].status = from
  /\ ledger' = [ledger EXCEPT ![j].status = to, ![j].attempts = @ + failures]

Accept(j) ==
  /\ ledger[j] = Absent
  /\ \E m \in Budgets :
       ledger' = [ledger EXCEPT ![j] = [status |-> "queued", attempts |-> 0, max |-> m]]

Begin(j) ==
  /\ \A k \in Jobs : ledger[k].status # "running"
  /\ Move(j, "queued", "running", 0)

Succeed(j) == Move(j, "running", "completed", 0)

Retry(j) == ledger[j].attempts < ledger[j].max /\ Move(j, "running", "queued", 1)

GiveUp(j) == ledger[j].attempts = ledger[j].max /\ Move(j, "running", "failed", 1)

(* The process ended while the job ran; the attempt does not count. *)
Interrupt(j) == Move(j, "running", "queued", 0)

Next == \E j \in Jobs : Accept(j) \/ Begin(j) \/ Succeed(j) \/ Retry(j) \/ GiveUp(j) \/ Interrupt(j)

Spec == Init /\ [][Next]_ledger

=============================================================================
