-------------------------------- MODULE Review --------------------------------
(***************************************************************************)
(* An AI review from the button to the screen: the PR screen of the        *)
(* Flutter client posts a job and polls it every 800 ms; the backend runs  *)
(* the job's handler, which reads the pull request from GitHub in two      *)
(* calls and asks a model.  The queue is here what JobQueue implements:    *)
(* JobLedger.                                                              *)
(***************************************************************************)
EXTENDS Naturals, Bags

CONSTANTS
  Jobs,         \* requests for a review, numbered as they are made
  Pulls,        \* pull requests, numbered as reviews of them are asked for
  Budgets,      \* values of max_retries
  None,         \* no job
  MaxEdits,     \* bound on changes of the pull requests
  MaxPolls,     \* bound on polls under way at one time
  MaxRestarts   \* bound on restarts of the backend

ASSUME ReviewAssumption ==
  /\ Jobs \subseteq Nat /\ Pulls \subseteq Nat /\ None \notin Jobs \cup Pulls
  /\ Budgets \subseteq Nat /\ {MaxEdits, MaxPolls, MaxRestarts} \subseteq Nat

VARIABLES
  demo,      \* DEMO_MODE
  head,      \* how often each pull request was changed
  ledger,    \* the jobs of the queue
  asked,     \* the payload of each job, and the pull request's age when it was sent
  work,      \* the handler that runs: its job and what it has read
  result,    \* what the review of a job was made of
  post,      \* the POST of each job
  screen,    \* the PR screen: its pull request, the job it shows and the one it polls
  polls,     \* bag: polls of the screen under way, which come back in any order
  restarts,  \* history: number of restarts
  stale      \* history: after the last timer was cancelled, an answer of before came

backend == <<ledger, work, result>>
vars == <<demo, head, backend, asked, post, screen, polls, restarts, stale>>

Ledger == INSTANCE JobLedger

Settled == {"completed", "failed"}
NoWork == [at |-> "idle", job |-> None, title |-> 0, diff |-> 0]
NoResult == [pull |-> None, title |-> 0, diff |-> 0]
Nothing == [job |-> None, status |-> "none", guess |-> FALSE]
Closed == [pull |-> None, loading |-> None, shown |-> Nothing, timer |-> None]

Init ==
  /\ demo \in BOOLEAN
  /\ head = [p \in Pulls |-> 0]
  /\ Ledger!Init
  /\ asked = [j \in Jobs |-> [pull |-> None, rev |-> 0]]
  /\ work = NoWork
  /\ result = [j \in Jobs |-> NoResult]
  /\ post = [j \in Jobs |-> "none"]
  /\ screen = Closed /\ polls = EmptyBag
  /\ restarts = 0 /\ stale = FALSE

(* Somebody pushes to a pull request or edits its text; the demo data has   *)
(* no operation that does.                                                  *)
Edit(p) ==
  /\ ~demo /\ \A q \in Pulls : head[q] < MaxEdits
  /\ head' = [head EXCEPT ![p] = @ + 1]
  /\ UNCHANGED <<demo, backend, asked, post, screen, polls, restarts, stale>>

-----------------------------------------------------------------------------
(* The handler, run_ai_review_job.                                          *)

Begin(j) ==
  /\ work.at = "idle"
  /\ Ledger!Begin(j)
  /\ work' = [NoWork EXCEPT !.at = "pull", !.job = j]
  /\ UNCHANGED <<demo, head, result, asked, post, screen, polls, restarts, stale>>

Revision == head[asked[work.job].pull]

(* Mutated form: the diff is read first. *)
ReadContextSwapped ==
  /\ \/ /\ work.at = "pull"
        /\ work' = [work EXCEPT !.at = "diff", !.diff = Revision]
     \/ /\ work.at = "diff"
        /\ work' = [work EXCEPT !.at = "model", !.title = Revision]
  /\ UNCHANGED <<demo, head, ledger, result, asked, post, screen, polls, restarts, stale>>

(* build_review_context and get_pull_review_context: title and text by one  *)
(* call, the diff by the next; the demo data gives all at once.             *)
ReadContext ==
  /\ \/ /\ work.at = "pull" /\ ~demo
        /\ work' = [work EXCEPT !.at = "diff", !.title = Revision]
     \/ /\ work.at = "pull" /\ demo
        /\ work' = [work EXCEPT !.at = "model", !.title = Revision, !.diff = Revision]
     \/ /\ work.at = "diff"
        /\ work' = [work EXCEPT !.at = "model", !.diff = Revision]
  /\ UNCHANGED <<demo, head, ledger, result, asked, post, screen, polls, restarts, stale>>

(* The provider returns a text. *)
Complete ==
  /\ work.at = "model"
  /\ Ledger!Succeed(work.job)
  /\ result' = [result EXCEPT ![work.job] =
                  [pull |-> asked[work.job].pull, title |-> work.title, diff |-> work.diff]]
  /\ work' = NoWork
  /\ UNCHANGED <<demo, head, asked, post, screen, polls, restarts, stale>>

(* GitHub refuses a call, or the provider raises AIProviderError: every     *)
(* exception is the same to the queue.                                      *)
Raise ==
  /\ work.at # "idle"
  /\ Ledger!Retry(work.job) \/ Ledger!GiveUp(work.job)
  /\ work' = NoWork
  /\ UNCHANGED <<demo, head, result, asked, post, screen, polls, restarts, stale>>

(* The backend is restarted while the handler runs. *)
Interrupt ==
  /\ work.at # "idle" /\ restarts < MaxRestarts
  /\ Ledger!Interrupt(work.job)
  /\ work' = NoWork /\ restarts' = restarts + 1
  /\ UNCHANGED <<demo, head, result, asked, post, screen, polls, stale>>

-----------------------------------------------------------------------------
(* The screen.  One state object lives from Open to Leave; what was under   *)
(* way for it then is dropped (mounted), a POST is served all the same.     *)

Visit(p) ==
  /\ screen = Closed
  /\ \A q \in Pulls : q < p => \E j \in Jobs : asked[j].pull = q
  /\ screen' = [Closed EXCEPT !.pull = p]
  /\ UNCHANGED <<demo, head, backend, asked, post, polls, restarts, stale>>

(* Mutated form: an answer to the screen that was left reaches the next. *)
LeaveListening ==
  /\ screen.pull # None
  /\ screen' = Closed
  /\ UNCHANGED <<demo, head, backend, asked, post, polls, restarts, stale>>

Leave ==
  /\ screen.pull # None
  /\ screen' = Closed /\ polls' = EmptyBag
  /\ UNCHANGED <<demo, head, backend, asked, post, restarts, stale>>

(* _startAiReview; the button is dead while an answer is awaited. *)
Press(j) ==
  /\ screen.pull # None /\ screen.loading = None
  /\ post[j] = "none" /\ \A k \in Jobs : k < j => post[k] # "none"
  /\ asked' = [asked EXCEPT ![j] = [pull |-> screen.pull, rev |-> head[screen.pull]]]
  /\ post' = [post EXCEPT ![j] = "sent"]
  /\ screen' = [screen EXCEPT !.loading = j]
  /\ UNCHANGED <<demo, head, backend, polls, restarts, stale>>

(* POST /api/ai/review/jobs. *)
Accept(j) ==
  /\ post[j] = "sent"
  /\ Ledger!Accept(j)
  /\ post' = [post EXCEPT ![j] = "accepted"]
  /\ UNCHANGED <<demo, head, work, result, asked, screen, polls, restarts, stale>>

(* The job that was created is shown and polled from now on, in place of    *)
(* the one before.                                                          *)
Created(j) ==
  /\ post[j] = "accepted"
  /\ post' = [post EXCEPT ![j] = "done"]
  /\ screen' = IF screen.loading # j THEN screen
               ELSE [screen EXCEPT !.loading = None, !.timer = j,
                                   !.shown = [Nothing EXCEPT !.job = j, !.status = "queued"]]
  /\ UNCHANGED <<demo, head, backend, asked, polls, restarts, stale>>

(* The request or its answer is lost: the job may exist all the same. *)
PostFails(j) ==
  /\ post[j] \in {"sent", "accepted"}
  /\ post' = [post EXCEPT ![j] = "done"]
  /\ screen' = IF screen.loading # j THEN screen ELSE [screen EXCEPT !.loading = None]
  /\ UNCHANGED <<demo, head, backend, asked, polls, restarts, stale>>

(* Timer.periodic does not wait for the poll before. *)
TimerFires ==
  /\ screen.timer # None /\ BagCardinality(polls) < MaxPolls
  /\ polls' = polls (+) SetToBag({[job |-> screen.timer, at |-> "sent", status |-> "none"]})
  /\ UNCHANGED <<demo, head, backend, asked, post, screen, restarts, stale>>

(* GET /api/jobs/{id}. *)
Served(m) ==
  /\ m.at = "sent"
  /\ polls' = (polls (-) SetToBag({m}))
                (+) SetToBag({[m EXCEPT !.at = "back", !.status = ledger[m.job].status]})
  /\ UNCHANGED <<demo, head, backend, asked, post, screen, restarts, stale>>

(* timer is the one that sent the poll, not the latest. *)
Stopped(j) == IF screen.timer = j THEN None ELSE screen.timer

Arrives(m, shown, stops) ==
  /\ screen' = [screen EXCEPT !.shown = shown, !.timer = IF stops THEN Stopped(m.job) ELSE @]
  /\ polls' = polls (-) SetToBag({m})
  /\ stale' = (stale \/ (screen.timer = None /\ shown.status \notin Settled))
  /\ UNCHANGED <<demo, head, backend, asked, post, restarts>>

(* Mutated form: the timer is not periodic, any answer is the last. *)
AnsweredOnce(m) ==
  /\ m.at = "back"
  /\ Arrives(m, [job |-> m.job, status |-> m.status, guess |-> FALSE], TRUE)

Answered(m) ==
  /\ m.at = "back"
  /\ Arrives(m, [job |-> m.job, status |-> m.status, guess |-> FALSE], m.status \in Settled)

(* A poll that fails marks the job that is shown, whichever it is. *)
PollFails(m) ==
  Arrives(m, [screen.shown EXCEPT !.status = "failed", !.guess = TRUE], TRUE)

-----------------------------------------------------------------------------
Worker == (\E j \in Jobs : Begin(j)) \/ ReadContext \/ Complete \/ Raise

Deliver == \E m \in BagToSet(polls) : Answered(m) \/ PollFails(m)

Next ==
  \/ Worker \/ Interrupt \/ TimerFires \/ Leave \/ Deliver
  \/ \E p \in Pulls : Edit(p) \/ Visit(p)
  \/ \E j \in Jobs : Press(j) \/ Accept(j) \/ Created(j) \/ PostFails(j)
  \/ \E m \in BagToSet(polls) : Served(m)

Spec == Init /\ [][Next]_vars

(* The worker task goes on, the timer fires, and every poll is answered or  *)
(* fails.  Nobody has to press, leave or edit.                              *)
FairSpec ==
  /\ Spec
  /\ WF_vars(Worker) /\ WF_vars(TimerFires)
  /\ WF_vars(\E m \in BagToSet(polls) : Served(m)) /\ WF_vars(Deliver)

-----------------------------------------------------------------------------
(* Properties.                                                              *)

(* A review is of the pull request it was asked for, made of texts no older *)
(* than the request whatever the number of retries and restarts, with a     *)
(* diff at least as new as the title (github_service.py:556).               *)
ReviewsAreFresh ==
  \A j \in Jobs : ledger[j].status = "completed" =>
    /\ result[j].pull = asked[j].pull
    /\ asked[j].rev <= result[j].title /\ result[j].title <= result[j].diff

(* The screen shows no job of another pull request, and an end of the job   *)
(* only when it has come, except that a failed poll is shown as a failed    *)
(* job (generated_screen.dart:646).                                         *)
ScreenIsTrue ==
  LET s == screen.shown
  IN s.job # None =>
       /\ asked[s.job].pull = screen.pull
       /\ s.status \in Settled /\ ~s.guess => ledger[s.job].status = s.status

(* A job that is shown is followed to its end, or the next one is, or the   *)
(* screen is left, although polls of an earlier job still arrive - unless   *)
(* polls overlap and an answer that says "queued" or "running" comes when   *)
(* no timer is left to correct it (generated_screen.dart:652).              *)
ScreenCatchesUp ==
  screen.shown.job # None ~> stale \/ screen.shown.job = None \/ screen.shown.status \in Settled

=============================================================================
