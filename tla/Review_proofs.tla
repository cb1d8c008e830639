----------------------------- MODULE Review_proofs -----------------------------
(***************************************************************************)
(* Theorems about Review, for every set of jobs and pull requests, all     *)
(* retry budgets, and any number of edits, polls and restarts.             *)
(***************************************************************************)
EXTENDS Review, TLAPS

-----------------------------------------------------------------------------
(* The inductive invariant.                                                 *)

Statuses == {"none", "queued", "running", "completed", "failed"}
Entry == [status : Statuses, attempts : Nat, max : Nat]
Handler == [at : {"idle", "pull", "diff", "model"}, job : Jobs \cup {None},
            title : Nat, diff : Nat]
View == [job : Jobs \cup {None}, status : Statuses, guess : BOOLEAN]
Page == [pull : Pulls \cup {None}, loading : Jobs \cup {None}, shown : View,
         timer : Jobs \cup {None}]
Poll == [job : Jobs, at : {"sent", "back"}, status : Statuses]

Typed ==
  /\ demo \in BOOLEAN
  /\ head \in [Pulls -> Nat]
  /\ ledger \in [Jobs -> Entry]
  /\ asked \in [Jobs -> [pull : Pulls \cup {None}, rev : Nat]]
  /\ work \in Handler
  /\ result \in [Jobs -> [pull : Pulls \cup {None}, title : Nat, diff : Nat]]
  /\ post \in [Jobs -> {"none", "sent", "accepted", "done"}]
  /\ screen \in Page
  /\ BagToSet(polls) \subseteq Poll

(* The job that runs is the one the handler works for, and only jobs that   *)
(* were posted are known to the queue.                                      *)
WorkIsRunning ==
  /\ work.at # "idle" => work.job \in Jobs
  /\ \A j \in Jobs :
       /\ ledger[j].status = "running" <=> work.at # "idle" /\ work.job = j
       /\ ledger[j].status # "none" => post[j] # "none"

(* A job that was posted is about a pull request as old as its request.     *)
AskedSound ==
  \A j \in Jobs : post[j] # "none" =>
    asked[j].pull \in Pulls /\ asked[j].rev <= head[asked[j].pull]

(* What the handler has read is no older than the request, and in order.    *)
ReadInOrder ==
  /\ work.at = "diff" =>
       /\ ~demo
       /\ asked[work.job].rev <= work.title
       /\ work.title <= head[asked[work.job].pull]
  /\ work.at = "model" =>
       /\ asked[work.job].rev <= work.title /\ work.title <= work.diff

FreshInv == Typed /\ WorkIsRunning /\ AskedSound /\ ReadInOrder /\ ReviewsAreFresh

(* Whatever the screen shows, polls, waits for or hears of is about its     *)
(* pull request, and no answer tells of an end that has not come.           *)
About(j) == post[j] # "none" /\ asked[j].pull = screen.pull

ScreenSound ==
  /\ screen.loading # None => About(screen.loading)
  /\ screen.timer # None => About(screen.timer)
  /\ screen.shown.job # None => About(screen.shown.job)
  /\ \A m \in BagToSet(polls) :
       About(m.job) /\ (m.status \in Settled => ledger[m.job].status = m.status)

ScreenInv == FreshInv /\ ScreenSound /\ ScreenIsTrue

-----------------------------------------------------------------------------
(* The operators of the ledger and of bags.                                 *)

LEMMA BagAdds ==
  ASSUME NEW B, NEW x
  PROVE  BagToSet(B (+) SetToBag({x})) = BagToSet(B) \cup {x}
BY DEF BagToSet, SetToBag, (+)

LEMMA BagTakes ==
  ASSUME NEW B, NEW x
  PROVE  BagToSet(B (-) SetToBag({x})) \subseteq BagToSet(B)
BY DEF BagToSet, SetToBag, (-)

LEMMA BagIsEmpty == BagToSet(EmptyBag) = {}
BY DEF BagToSet, EmptyBag, SetToBag

LEMMA MoveDoes ==
  ASSUME ledger \in [Jobs -> Entry], NEW j \in Jobs, NEW from \in Statuses,
         NEW to \in Statuses, NEW failures \in Nat, Ledger!Move(j, from, to, failures)
  PROVE  /\ ledger' \in [Jobs -> Entry]
         /\ ledger[j].status = from /\ ledger'[j].status = to
         /\ \A k \in Jobs \ {j} : ledger'[k] = ledger[k]
<1> DEFINE new == [ledger[j] EXCEPT !.status = to, !.attempts = @ + failures]
<1>1. /\ ledger[j].status = from
      /\ ledger' = [ledger EXCEPT ![j].status = to, ![j].attempts = @ + failures]
  BY DEF Ledger!Move
<1>2. new \in Entry /\ new.status = to
  <2>1. ASSUME NEW q \in Entry, NEW n \in Nat
        PROVE  /\ [q EXCEPT !.status = to, !.attempts = n] \in Entry
               /\ [q EXCEPT !.status = to, !.attempts = n].status = to
    BY DEF Entry
  <2>2. ledger[j] \in Entry /\ ledger[j].attempts + failures \in Nat
    BY DEF Entry
  <2> QED BY <2>1, <2>2
<1>3. ledger' = [ledger EXCEPT ![j] = new]
  BY <1>1
<1> HIDE DEF new
<1> QED BY <1>1, <1>2, <1>3

LEMMA AcceptDoes ==
  ASSUME ledger \in [Jobs -> Entry], NEW j \in Jobs, Ledger!Accept(j)
  PROVE  /\ ledger' \in [Jobs -> Entry]
         /\ ledger[j].status = "none" /\ ledger'[j].status = "queued"
         /\ \A k \in Jobs \ {j} : ledger'[k] = ledger[k]
<1>1. PICK m \in Budgets :
        ledger' = [ledger EXCEPT ![j] = [status |-> "queued", attempts |-> 0, max |-> m]]
  BY DEF Ledger!Accept
<1>2. m \in Nat
  BY ReviewAssumption
<1>3. [status |-> "queued", attempts |-> 0, max |-> m] \in Entry
  BY <1>2 DEF Entry, Statuses
<1>4. ledger[j].status = "none"
  BY DEF Ledger!Accept, Ledger!Absent
<1> QED BY <1>1, <1>3, <1>4

(* The two ways in which a job stops running.                               *)
LEMMA StopsDoes ==
  ASSUME ledger \in [Jobs -> Entry], NEW j \in Jobs,
         Ledger!Retry(j) \/ Ledger!GiveUp(j) \/ Ledger!Interrupt(j)
  PROVE  /\ ledger' \in [Jobs -> Entry]
         /\ ledger[j].status = "running" /\ ledger'[j].status \in {"queued", "failed"}
         /\ \A k \in Jobs \ {j} : ledger'[k] = ledger[k]
<1>1. /\ {"running", "queued", "failed"} \subseteq Statuses
      /\ 0 \in Nat /\ 1 \in Nat
  BY DEF Statuses
<1>2. CASE Ledger!Retry(j)
  BY <1>1, <1>2, MoveDoes DEF Ledger!Retry
<1>3. CASE Ledger!GiveUp(j)
  BY <1>1, <1>3, MoveDoes DEF Ledger!GiveUp
<1>4. CASE Ledger!Interrupt(j)
  BY <1>1, <1>4, MoveDoes DEF Ledger!Interrupt
<1> QED BY <1>2, <1>3, <1>4

(* What the handler works for, and what it reads now.                       *)
LEMMA WorkKnown ==
  ASSUME FreshInv, work.at # "idle"
  PROVE  /\ work.job \in Jobs /\ ledger[work.job].status = "running"
         /\ asked[work.job].pull \in Pulls /\ asked[work.job].rev \in Nat
         /\ Revision \in Nat /\ asked[work.job].rev <= Revision
         /\ Revision = head[asked[work.job].pull]
<1>1. work.job \in Jobs /\ ledger[work.job].status = "running"
  BY DEF FreshInv, WorkIsRunning
<1>2. post[work.job] # "none"
  BY <1>1 DEF FreshInv, WorkIsRunning
<1>3. asked[work.job].pull \in Pulls /\ asked[work.job].rev <= head[asked[work.job].pull]
  BY <1>1, <1>2 DEF FreshInv, AskedSound
<1> QED BY <1>1, <1>3 DEF FreshInv, Typed, Revision

LEMMA ClosedTyped ==
  /\ Closed \in Page /\ NoWork \in Handler /\ None \notin Jobs /\ None \notin Pulls
  /\ Closed.pull = None /\ Closed.loading = None /\ Closed.timer = None
  /\ Closed.shown.job = None /\ NoWork.at = "idle" /\ NoWork.job = None
BY ReviewAssumption DEF Closed, NoWork, Page, Handler, View, Nothing, Statuses

LEMMA InitFresh == Init => FreshInv
<1> SUFFICES ASSUME Init PROVE FreshInv
  OBVIOUS
<1>1. ledger = [j \in Jobs |-> Ledger!Absent]
  BY DEF Init, Ledger!Init
<1>2. /\ \A j \in Jobs : ledger[j].status = "none"
      /\ ledger \in [Jobs -> Entry]
  BY <1>1 DEF Ledger!Absent, Entry, Statuses
<1>3. Typed
  <2>1. demo \in BOOLEAN /\ head \in [Pulls -> Nat] /\ BagToSet(polls) = {}
    BY BagIsEmpty DEF Init
  <2>2. asked \in [Jobs -> [pull : Pulls \cup {None}, rev : Nat]]
    BY DEF Init
  <2>3. result \in [Jobs -> [pull : Pulls \cup {None}, title : Nat, diff : Nat]]
    BY DEF Init, NoResult
  <2>4. work \in Handler /\ screen \in Page
    BY ClosedTyped DEF Init
  <2>5. post \in [Jobs -> {"none", "sent", "accepted", "done"}]
    BY DEF Init
  <2> QED BY <1>2, <2>1, <2>2, <2>3, <2>4, <2>5 DEF Typed
<1>4. WorkIsRunning /\ ReadInOrder
  BY <1>2, ClosedTyped DEF Init, WorkIsRunning, ReadInOrder
<1>5. AskedSound
  BY DEF Init, AskedSound
<1>6. ReviewsAreFresh
  BY <1>2 DEF ReviewsAreFresh
<1> QED BY <1>3, <1>4, <1>5, <1>6 DEF FreshInv

-----------------------------------------------------------------------------
(* The steps of the handler.                                                *)

LEMMA BeginFresh ==
  ASSUME FreshInv, NEW j \in Jobs, Begin(j)
  PROVE  FreshInv'
<1>1. /\ work.at = "idle" /\ work' = [NoWork EXCEPT !.at = "pull", !.job = j]
      /\ \A k \in Jobs : ledger[k].status # "running"
      /\ Ledger!Move(j, "queued", "running", 0)
      /\ UNCHANGED <<demo, head, result, asked, post, screen, polls>>
  BY DEF Begin, Ledger!Begin
<1>2. /\ ledger' \in [Jobs -> Entry]
      /\ ledger[j].status = "queued" /\ ledger'[j].status = "running"
      /\ \A k \in Jobs \ {j} : ledger'[k] = ledger[k]
  <2>1. {"queued", "running"} \subseteq Statuses /\ 0 \in Nat
    BY DEF Statuses
  <2> QED BY <1>1, <2>1, MoveDoes DEF FreshInv, Typed
<1>3. work' = [at |-> "pull", job |-> j, title |-> 0, diff |-> 0]
  BY <1>1 DEF NoWork
<1>4. work' \in Handler /\ work'.at = "pull" /\ work'.job = j
  BY <1>3 DEF Handler
<1>5. Typed'
  BY <1>1, <1>2, <1>4 DEF FreshInv, Typed
<1>6. WorkIsRunning'
  BY <1>1, <1>2, <1>4 DEF FreshInv, WorkIsRunning
<1>7. AskedSound' /\ ReadInOrder'
  BY <1>1, <1>4 DEF FreshInv, AskedSound, ReadInOrder
<1>8. ReviewsAreFresh'
  BY <1>1, <1>2 DEF FreshInv, ReviewsAreFresh
<1> QED BY <1>5, <1>6, <1>7, <1>8 DEF FreshInv

LEMMA ReadContextFresh ==
  ASSUME FreshInv, ReadContext
  PROVE  FreshInv'
<1>1. /\ work.at \in {"pull", "diff"}
      /\ UNCHANGED <<demo, head, ledger, result, asked, post, screen, polls>>
  BY DEF ReadContext
<1>2. /\ work.job \in Jobs /\ Revision \in Nat
      /\ asked[work.job].rev <= Revision /\ asked[work.job].rev \in Nat
      /\ Revision = head[asked[work.job].pull] /\ work \in Handler
  BY <1>1, WorkKnown DEF FreshInv, Typed
<1>3. /\ work' \in Handler /\ work'.at \in {"diff", "model"} /\ work'.job = work.job
      /\ work'.at = "diff" => ~demo /\ work'.title = Revision
      /\ work'.at = "model" =>
           \/ demo /\ work'.title = Revision /\ work'.diff = Revision
           \/ work.at = "diff" /\ work'.title = work.title /\ work'.diff = Revision
  <2> DEFINE rev == Revision
  <2>1. rev \in Nat
    BY <1>2
  <2>2. \/ work.at = "pull" /\ ~demo /\ work' = [work EXCEPT !.at = "diff", !.title = rev]
        \/ /\ work.at = "pull" /\ demo
           /\ work' = [work EXCEPT !.at = "model", !.title = rev, !.diff = rev]
        \/ work.at = "diff" /\ work' = [work EXCEPT !.at = "model", !.diff = rev]
    BY DEF ReadContext
  <2> HIDE DEF rev
  <2>3. CASE work.at = "pull" /\ ~demo /\ work' = [work EXCEPT !.at = "diff", !.title = rev]
    BY <2>1, <2>3, <1>2 DEF Handler, rev
  <2>4. CASE /\ work.at = "pull" /\ demo
             /\ work' = [work EXCEPT !.at = "model", !.title = rev, !.diff = rev]
    <3> DEFINE one == [work EXCEPT !.at = "model", !.title = rev]
    <3>1. /\ one \in Handler /\ one.at = "model" /\ one.job = work.job /\ one.title = rev
      BY <2>1, <1>2 DEF Handler
    <3>2. work' = [one EXCEPT !.diff = rev]
      BY <2>4
    <3> HIDE DEF one
    <3> QED BY <3>1, <3>2, <2>1, <2>4 DEF Handler, rev
  <2>5. CASE work.at = "diff" /\ work' = [work EXCEPT !.at = "model", !.diff = rev]
    BY <2>1, <2>5, <1>2 DEF Handler, rev
  <2> QED BY <2>2, <2>3, <2>4, <2>5
<1>4. Typed'
  BY <1>1, <1>3 DEF FreshInv, Typed
<1>5. WorkIsRunning'
  BY <1>1, <1>2, <1>3 DEF FreshInv, WorkIsRunning
<1>6. ReadInOrder'
  <2>1. work'.title \in Nat /\ work'.diff \in Nat /\ work.title \in Nat
    BY <1>2, <1>3 DEF Handler
  <2>2. CASE work'.at = "diff"
    BY <2>1, <2>2, <1>1, <1>2, <1>3 DEF ReadInOrder
  <2>3. CASE work'.at = "model"
    BY <2>1, <2>3, <1>1, <1>2, <1>3 DEF FreshInv, ReadInOrder
  <2> QED BY <2>2, <2>3, <1>3
<1>7. AskedSound' /\ ReviewsAreFresh'
  BY <1>1 DEF FreshInv, AskedSound, ReviewsAreFresh
<1> QED BY <1>4, <1>5, <1>6, <1>7 DEF FreshInv

LEMMA CompleteFresh ==
  ASSUME FreshInv, Complete
  PROVE  FreshInv'
<1> DEFINE j == work.job
           r == [pull |-> asked[j].pull, title |-> work.title, diff |-> work.diff]
<1>1. /\ work.at = "model" /\ Ledger!Move(j, "running", "completed", 0) /\ work' = NoWork
      /\ result' = [result EXCEPT ![j] = r]
      /\ UNCHANGED <<demo, head, asked, post, screen, polls>>
  BY DEF Complete, Ledger!Succeed
<1>2. /\ j \in Jobs /\ asked[j].pull \in Pulls /\ work \in Handler
      /\ asked[j].rev <= work.title /\ work.title <= work.diff
  BY <1>1, WorkKnown DEF FreshInv, Typed, ReadInOrder
<1>3. /\ r \in [pull : Pulls \cup {None}, title : Nat, diff : Nat]
      /\ r.pull = asked[j].pull /\ r.title = work.title /\ r.diff = work.diff
  BY <1>2 DEF Handler
<1> HIDE DEF j, r
<1>4. /\ ledger' \in [Jobs -> Entry]
      /\ ledger[j].status = "running" /\ ledger'[j].status = "completed"
      /\ \A k \in Jobs \ {j} : ledger'[k] = ledger[k]
  <2>1. {"running", "completed"} \subseteq Statuses /\ 0 \in Nat
    BY DEF Statuses
  <2> QED BY <1>1, <1>2, <2>1, MoveDoes DEF FreshInv, Typed
<1>5. /\ result' \in [Jobs -> [pull : Pulls \cup {None}, title : Nat, diff : Nat]]
      /\ result'[j] = r /\ \A k \in Jobs \ {j} : result'[k] = result[k]
  BY <1>1, <1>2, <1>3 DEF FreshInv, Typed
<1>6. Typed'
  BY <1>1, <1>4, <1>5, ClosedTyped DEF FreshInv, Typed
<1>7. WorkIsRunning'
  BY <1>1, <1>4, ClosedTyped DEF FreshInv, WorkIsRunning, j
<1>8. AskedSound' /\ ReadInOrder'
  BY <1>1, ClosedTyped DEF FreshInv, AskedSound, ReadInOrder
<1>9. ReviewsAreFresh'
  <2> SUFFICES ASSUME NEW k \in Jobs, ledger'[k].status = "completed"
               PROVE  /\ result'[k].pull = asked[k].pull
                      /\ asked[k].rev <= result'[k].title
                      /\ result'[k].title <= result'[k].diff
    BY <1>1 DEF ReviewsAreFresh
  <2>1. CASE k = j
    BY <2>1, <1>2, <1>3, <1>5
  <2>2. CASE k # j
    BY <2>2, <1>4, <1>5 DEF FreshInv, ReviewsAreFresh
  <2> QED BY <2>1, <2>2
<1> QED BY <1>6, <1>7, <1>8, <1>9 DEF FreshInv

LEMMA StopsFresh ==
  ASSUME FreshInv, Raise \/ Interrupt
  PROVE  FreshInv'
<1> DEFINE j == work.job
<1>1. /\ work.at # "idle" /\ work' = NoWork
      /\ Ledger!Retry(j) \/ Ledger!GiveUp(j) \/ Ledger!Interrupt(j)
      /\ UNCHANGED <<demo, head, result, asked, post, screen, polls>>
  BY DEF Raise, Interrupt
<1>2. j \in Jobs
  BY <1>1, WorkKnown
<1> HIDE DEF j
<1>3. /\ ledger' \in [Jobs -> Entry]
      /\ ledger[j].status = "running" /\ ledger'[j].status \in {"queued", "failed"}
      /\ \A k \in Jobs \ {j} : ledger'[k] = ledger[k]
  BY <1>1, <1>2, StopsDoes DEF FreshInv, Typed
<1>4. Typed'
  BY <1>1, <1>3, ClosedTyped DEF FreshInv, Typed
<1>5. WorkIsRunning'
  BY <1>1, <1>3, ClosedTyped DEF FreshInv, WorkIsRunning, j
<1>6. AskedSound' /\ ReadInOrder'
  BY <1>1, ClosedTyped DEF FreshInv, AskedSound, ReadInOrder
<1>7. ReviewsAreFresh'
  BY <1>1, <1>3 DEF FreshInv, ReviewsAreFresh
<1> QED BY <1>4, <1>5, <1>6, <1>7 DEF FreshInv

-----------------------------------------------------------------------------
(* The steps of everybody else.                                             *)

LEMMA EditFresh ==
  ASSUME FreshInv, NEW p \in Pulls, Edit(p)
  PROVE  FreshInv'
<1>1. /\ ~demo /\ head' = [head EXCEPT ![p] = @ + 1]
      /\ UNCHANGED <<demo, ledger, work, result, asked, post, screen, polls>>
  BY DEF Edit, backend
<1>2. head' \in [Pulls -> Nat] /\ \A q \in Pulls : head[q] <= head'[q]
  BY <1>1 DEF FreshInv, Typed
<1>3. Typed'
  BY <1>1, <1>2 DEF FreshInv, Typed
<1>4. AskedSound'
  <2> SUFFICES ASSUME NEW j \in Jobs, post[j] # "none"
               PROVE  asked[j].pull \in Pulls /\ asked[j].rev <= head'[asked[j].pull]
    BY <1>1 DEF AskedSound
  <2>1. asked[j].pull \in Pulls /\ asked[j].rev <= head[asked[j].pull] /\ asked[j].rev \in Nat
    BY DEF FreshInv, AskedSound, Typed
  <2> QED BY <2>1, <1>2 DEF FreshInv, Typed
<1>5. ReadInOrder'
  <2>1. CASE work.at = "diff"
    <3>1. work.job \in Jobs /\ asked[work.job].pull \in Pulls
      BY <2>1, WorkKnown
    <3>2. asked[work.job].rev <= work.title /\ work.title <= head[asked[work.job].pull]
      BY <2>1 DEF FreshInv, ReadInOrder
    <3>3. work.title \in Nat
      BY DEF FreshInv, Typed, Handler
    <3>4. work.title <= head'[asked[work.job].pull]
      BY <3>1, <3>2, <3>3, <1>2 DEF FreshInv, Typed
    <3> QED BY <2>1, <3>2, <3>4, <1>1 DEF ReadInOrder
  <2>2. CASE work.at # "diff"
    BY <2>2, <1>1 DEF FreshInv, ReadInOrder
  <2> QED BY <2>1, <2>2
<1>6. WorkIsRunning' /\ ReviewsAreFresh'
  BY <1>1 DEF FreshInv, WorkIsRunning, ReviewsAreFresh
<1> QED BY <1>3, <1>4, <1>5, <1>6 DEF FreshInv

LEMMA PressFresh ==
  ASSUME FreshInv, NEW j \in Jobs, Press(j)
  PROVE  FreshInv'
<1> DEFINE new == [pull |-> screen.pull, rev |-> head[screen.pull]]
<1>1. /\ screen.pull # None /\ post[j] = "none"
      /\ asked' = [asked EXCEPT ![j] = new]
      /\ post' = [post EXCEPT ![j] = "sent"]
      /\ screen' = [screen EXCEPT !.loading = j]
      /\ UNCHANGED <<demo, head, ledger, work, result, polls>>
  BY DEF Press, backend
<1>2. screen.pull \in Pulls /\ head[screen.pull] \in Nat
  BY <1>1 DEF FreshInv, Typed, Page
<1>3. /\ new \in [pull : Pulls \cup {None}, rev : Nat]
      /\ new.pull = screen.pull /\ new.rev = head[screen.pull]
  BY <1>2
<1> HIDE DEF new
<1>4. /\ asked' \in [Jobs -> [pull : Pulls \cup {None}, rev : Nat]]
      /\ asked'[j] = new /\ \A k \in Jobs \ {j} : asked'[k] = asked[k]
      /\ post' \in [Jobs -> {"none", "sent", "accepted", "done"}]
      /\ post'[j] = "sent" /\ \A k \in Jobs \ {j} : post'[k] = post[k]
  BY <1>1, <1>3 DEF FreshInv, Typed
<1>5. screen' \in Page
  BY <1>1 DEF FreshInv, Typed, Page
<1>6. ledger[j].status = "none"
  BY <1>1 DEF FreshInv, WorkIsRunning
<1>7. Typed'
  BY <1>1, <1>4, <1>5 DEF FreshInv, Typed
<1>8. WorkIsRunning'
  BY <1>1, <1>4 DEF FreshInv, WorkIsRunning
<1>9. AskedSound'
  BY <1>1, <1>2, <1>3, <1>4 DEF FreshInv, AskedSound, Typed
<1>10. ReadInOrder'
  <2>1. work.at # "idle" => work.job \in Jobs /\ work.job # j
    BY <1>6, WorkKnown
  <2> QED BY <2>1, <1>1, <1>4 DEF FreshInv, ReadInOrder
<1>11. ReviewsAreFresh'
  BY <1>1, <1>4, <1>6 DEF FreshInv, ReviewsAreFresh
<1> QED BY <1>7, <1>8, <1>9, <1>10, <1>11 DEF FreshInv

LEMMA AcceptFresh ==
  ASSUME FreshInv, NEW j \in Jobs, Accept(j)
  PROVE  FreshInv'
<1>1. /\ post[j] = "sent" /\ Ledger!Accept(j) /\ post' = [post EXCEPT ![j] = "accepted"]
      /\ UNCHANGED <<demo, head, work, result, asked, screen, polls>>
  BY DEF Accept
<1>2. /\ ledger' \in [Jobs -> Entry]
      /\ ledger[j].status = "none" /\ ledger'[j].status = "queued"
      /\ \A k \in Jobs \ {j} : ledger'[k] = ledger[k]
  BY <1>1, AcceptDoes DEF FreshInv, Typed
<1>3. /\ post' \in [Jobs -> {"none", "sent", "accepted", "done"}]
      /\ \A k \in Jobs : post'[k] # "none" <=> post[k] # "none"
  BY <1>1 DEF FreshInv, Typed
<1>4. Typed'
  BY <1>1, <1>2, <1>3 DEF FreshInv, Typed
<1>5. WorkIsRunning'
  BY <1>1, <1>2, <1>3 DEF FreshInv, WorkIsRunning
<1>6. AskedSound' /\ ReadInOrder'
  BY <1>1, <1>3 DEF FreshInv, AskedSound, ReadInOrder
<1>7. ReviewsAreFresh'
  BY <1>1, <1>2 DEF FreshInv, ReviewsAreFresh
<1> QED BY <1>4, <1>5, <1>6, <1>7 DEF FreshInv

(* A step of the screen alone: only what it shows, polls and awaits.        *)
LEMMA ScreenStepFresh ==
  ASSUME FreshInv, UNCHANGED <<demo, head, ledger, work, result, asked>>,
         post' \in [Jobs -> {"none", "sent", "accepted", "done"}],
         \A j \in Jobs : post'[j] # "none" <=> post[j] # "none",
         screen' \in Page, BagToSet(polls)' \subseteq Poll
  PROVE  FreshInv'
<1>1. Typed'
  BY DEF FreshInv, Typed
<1>2. WorkIsRunning' /\ AskedSound' /\ ReadInOrder'
  BY DEF FreshInv, WorkIsRunning, AskedSound, ReadInOrder
<1>3. ReviewsAreFresh'
  BY DEF FreshInv, ReviewsAreFresh
<1> QED BY <1>1, <1>2, <1>3 DEF FreshInv

-----------------------------------------------------------------------------
(* The steps of the screen.  Each one is told by what becomes of the page   *)
(* and of the polls.                                                        *)

LEMMA PageParts ==
  ASSUME FreshInv
  PROVE  /\ screen \in Page /\ screen.shown \in View
         /\ screen.pull \in Pulls \cup {None}
         /\ screen.loading \in Jobs \cup {None} /\ screen.timer \in Jobs \cup {None}
         /\ BagToSet(polls) \subseteq Poll
         /\ \A m \in BagToSet(polls) : m.job \in Jobs /\ m.status \in Statuses
BY DEF FreshInv, Typed, Page, Poll

LEMMA VisitFresh ==
  ASSUME FreshInv, NEW p \in Pulls, Visit(p)
  PROVE  FreshInv' /\ screen = Closed /\ screen'.pull = p /\ screen'.loading = None
         /\ screen'.timer = None /\ screen'.shown = Nothing /\ screen'.shown.job = None
<1>1. /\ screen = Closed /\ screen' = [Closed EXCEPT !.pull = p]
      /\ UNCHANGED <<demo, head, ledger, work, result, asked, post, polls>>
  BY DEF Visit, backend
<1>2. screen' = [pull |-> p, loading |-> None, shown |-> Nothing, timer |-> None]
  BY <1>1 DEF Closed
<1>3. Nothing \in View /\ Nothing.job = None
  BY DEF Nothing, View, Statuses
<1>4. /\ screen' \in Page /\ screen'.pull = p /\ screen'.loading = None
      /\ screen'.timer = None /\ screen'.shown = Nothing
  BY <1>2, <1>3 DEF Page
<1>5. FreshInv'
  BY <1>1, <1>4, ScreenStepFresh DEF FreshInv, Typed
<1> QED BY <1>1, <1>3, <1>4, <1>5

LEMMA LeaveFresh ==
  ASSUME FreshInv, Leave
  PROVE  FreshInv' /\ screen' = Closed /\ BagToSet(polls)' = {}
<1>1. /\ screen' = Closed /\ polls' = EmptyBag
      /\ UNCHANGED <<demo, head, ledger, work, result, asked, post>>
  BY DEF Leave, backend
<1>2. BagToSet(polls)' = {}
  BY <1>1, BagIsEmpty
<1>3. FreshInv'
  BY <1>1, <1>2, ClosedTyped, ScreenStepFresh DEF FreshInv, Typed
<1> QED BY <1>1, <1>2, <1>3

LEMMA CreatedFresh ==
  ASSUME FreshInv, NEW j \in Jobs, Created(j)
  PROVE  /\ FreshInv' /\ screen'.pull = screen.pull
         /\ \/ screen' = screen
            \/ /\ screen.loading = j /\ screen'.loading = None /\ screen'.timer = j
               /\ screen'.shown.job = j /\ screen'.shown.status = "queued"
         /\ \A k \in Jobs : post'[k] # "none" <=> post[k] # "none"
         /\ UNCHANGED <<ledger, asked, polls>>
<1> DEFINE view == [Nothing EXCEPT !.job = j, !.status = "queued"]
<1>1. /\ post[j] = "accepted" /\ post' = [post EXCEPT ![j] = "done"]
      /\ screen' = IF screen.loading # j THEN screen
                   ELSE [screen EXCEPT !.loading = None, !.timer = j, !.shown = view]
      /\ UNCHANGED <<demo, head, ledger, work, result, asked, polls>>
  BY DEF Created, backend
<1>2. Nothing \in View /\ "queued" \in Statuses
  BY DEF Nothing, View, Statuses
<1>3. view \in View /\ view.job = j /\ view.status = "queued"
  BY <1>2 DEF View
<1> HIDE DEF view
<1>4. /\ post' \in [Jobs -> {"none", "sent", "accepted", "done"}]
      /\ \A k \in Jobs : post'[k] # "none" <=> post[k] # "none"
  BY <1>1 DEF FreshInv, Typed
<1>5. screen \in Page
  BY PageParts
<1>6. CASE screen.loading # j
  BY <1>1, <1>4, <1>5, <1>6, ScreenStepFresh DEF FreshInv, Typed
<1>7. CASE screen.loading = j
  <2>1. screen' = [pull |-> screen.pull, loading |-> None, shown |-> view, timer |-> j]
    BY <1>1, <1>5, <1>7 DEF Page
  <2>2. screen' \in Page
    BY <2>1, <1>3, PageParts DEF Page
  <2>3. FreshInv'
    BY <1>1, <1>4, <2>2, ScreenStepFresh DEF FreshInv, Typed
  <2> QED BY <2>1, <2>3, <1>1, <1>3, <1>4, <1>7
<1> QED BY <1>6, <1>7

LEMMA PostFailsFresh ==
  ASSUME FreshInv, NEW j \in Jobs, PostFails(j)
  PROVE  /\ FreshInv' /\ screen'.pull = screen.pull /\ screen'.timer = screen.timer
         /\ screen'.shown = screen.shown /\ screen'.loading \in {screen.loading, None}
         /\ \A k \in Jobs : post'[k] # "none" <=> post[k] # "none"
         /\ UNCHANGED <<ledger, asked, polls>>
<1>1. /\ post[j] \in {"sent", "accepted"} /\ post' = [post EXCEPT ![j] = "done"]
      /\ screen' = IF screen.loading # j THEN screen ELSE [screen EXCEPT !.loading = None]
      /\ UNCHANGED <<demo, head, ledger, work, result, asked, polls>>
  BY DEF PostFails, backend
<1>2. /\ post' \in [Jobs -> {"none", "sent", "accepted", "done"}]
      /\ \A k \in Jobs : post'[k] # "none" <=> post[k] # "none"
  BY <1>1 DEF FreshInv, Typed
<1>3. screen \in Page
  BY PageParts
<1>4. /\ screen' \in Page /\ screen'.pull = screen.pull /\ screen'.timer = screen.timer
      /\ screen'.shown = screen.shown /\ screen'.loading \in {screen.loading, None}
  BY <1>1, <1>3 DEF Page
<1>5. FreshInv'
  BY <1>1, <1>2, <1>4, ScreenStepFresh DEF FreshInv, Typed
<1> QED BY <1>1, <1>2, <1>4, <1>5

LEMMA TimerFiresFresh ==
  ASSUME FreshInv, TimerFires
  PROVE  /\ FreshInv' /\ screen.timer \in Jobs
         /\ BagToSet(polls)' = BagToSet(polls) \cup
              {[job |-> screen.timer, at |-> "sent", status |-> "none"]}
         /\ UNCHANGED <<ledger, asked, post, screen>>
<1> DEFINE m == [job |-> screen.timer, at |-> "sent", status |-> "none"]
<1>1. /\ screen.timer # None /\ polls' = polls (+) SetToBag({m})
      /\ UNCHANGED <<demo, head, ledger, work, result, asked, post, screen>>
  BY DEF TimerFires, backend
<1>2. screen.timer \in Jobs
  BY <1>1, PageParts
<1>3. m \in Poll
  BY <1>2 DEF Poll, Statuses
<1> HIDE DEF m
<1>4. BagToSet(polls)' = BagToSet(polls) \cup {m}
  BY <1>1, BagAdds
<1>5. FreshInv'
  BY <1>1, <1>3, <1>4, ScreenStepFresh DEF FreshInv, Typed
<1> QED BY <1>1, <1>2, <1>4, <1>5 DEF m

LEMMA ServedFresh ==
  ASSUME FreshInv, NEW m \in BagToSet(polls), Served(m)
  PROVE  /\ FreshInv'
         /\ \A x \in BagToSet(polls)' :
              \/ x \in BagToSet(polls)
              \/ x.job = m.job /\ x.status = ledger[m.job].status
         /\ UNCHANGED <<ledger, asked, post, screen>>
<1> DEFINE status == ledger[m.job].status
           back == [m EXCEPT !.at = "back", !.status = status]
           left == polls (-) SetToBag({m})
<1>1. /\ polls' = left (+) SetToBag({back})
      /\ UNCHANGED <<demo, head, ledger, work, result, asked, post, screen>>
  BY DEF Served, backend
<1>2. m \in Poll /\ m.job \in Jobs
  BY PageParts
<1>3. status \in Statuses
  BY <1>2 DEF FreshInv, Typed, Entry
<1> HIDE DEF status
<1>4. back \in Poll /\ back.job = m.job /\ back.status = status
  BY <1>2, <1>3 DEF Poll
<1>5. BagToSet(left) \subseteq BagToSet(polls)
  BY BagTakes
<1> HIDE DEF back, left
<1>6. BagToSet(polls)' = BagToSet(left) \cup {back}
  BY <1>1, BagAdds
<1>7. FreshInv'
  BY <1>1, <1>4, <1>5, <1>6, ScreenStepFresh DEF FreshInv, Typed
<1> QED BY <1>1, <1>4, <1>5, <1>6, <1>7 DEF status

(* An answer, or its failure: the page shows view, the polls lose m.        *)
LEMMA ArrivesFresh ==
  ASSUME FreshInv, NEW m \in BagToSet(polls), NEW view \in View, NEW stops \in BOOLEAN,
         UNCHANGED <<ledger, work, result>>, Arrives(m, view, stops)
  PROVE  /\ FreshInv' /\ BagToSet(polls)' \subseteq BagToSet(polls)
         /\ screen'.pull = screen.pull /\ screen'.loading = screen.loading
         /\ screen'.timer \in {screen.timer, None} /\ screen'.shown = view
         /\ UNCHANGED <<ledger, asked, post>>
<1> DEFINE timer == IF stops THEN Stopped(m.job) ELSE screen.timer
<1>1. /\ screen' = [screen EXCEPT !.shown = view, !.timer = timer]
      /\ polls' = polls (-) SetToBag({m})
      /\ UNCHANGED <<demo, head, ledger, work, result, asked, post>>
  BY DEF Arrives
<1>2. timer \in {screen.timer, None} /\ timer \in Jobs \cup {None}
  BY PageParts DEF Stopped
<1> HIDE DEF timer
<1>3. screen' = [pull |-> screen.pull, loading |-> screen.loading, shown |-> view,
                 timer |-> timer]
  BY <1>1, PageParts DEF Page
<1>4. screen' \in Page
  BY <1>2, <1>3, PageParts DEF Page
<1>5. BagToSet(polls)' \subseteq BagToSet(polls)
  BY <1>1, BagTakes
<1>6. FreshInv'
  BY <1>1, <1>4, <1>5, ScreenStepFresh DEF FreshInv, Typed
<1> QED BY <1>1, <1>2, <1>3, <1>5, <1>6

(* What is shown then: the answer, or the guess that the job has failed.    *)
LEMMA DeliverShows ==
  ASSUME FreshInv, NEW m \in BagToSet(polls), Answered(m) \/ PollFails(m)
  PROVE  /\ UNCHANGED <<ledger, work, result>>
         /\ \E view \in View, stops \in BOOLEAN :
              /\ Arrives(m, view, stops)
              /\ \/ view.job = m.job /\ view.status = m.status
                 \/ view.job = screen.shown.job /\ view.guess
<1>1. UNCHANGED <<ledger, work, result>>
  BY DEF Answered, PollFails, Arrives, backend
<1>2. CASE Answered(m)
  <2> DEFINE view == [job |-> m.job, status |-> m.status, guess |-> FALSE]
             ends == m.status \in Settled
  <2>1. view \in View /\ view.job = m.job /\ view.status = m.status
    BY PageParts DEF View
  <2>2. Arrives(m, view, ends) /\ ends \in BOOLEAN
    BY <1>2 DEF Answered
  <2> HIDE DEF view, ends
  <2> QED BY <2>1, <2>2, <1>1
<1>3. CASE PollFails(m)
  <2> DEFINE view == [screen.shown EXCEPT !.status = "failed", !.guess = TRUE]
  <2>1. screen.shown \in View /\ "failed" \in Statuses
    BY PageParts DEF Statuses
  <2>2. view \in View /\ view.job = screen.shown.job /\ view.guess
    BY <2>1 DEF View
  <2>3. Arrives(m, view, TRUE)
    BY <1>3 DEF PollFails
  <2> HIDE DEF view
  <2> QED BY <2>2, <2>3, <1>1
<1> QED BY <1>2, <1>3

-----------------------------------------------------------------------------
(* The screen tells the truth.  An end that has come stays, so that the     *)
(* backend can make no answer false.                                        *)

LEMMA Alike ==
  ASSUME UNCHANGED vars
  PROVE  UNCHANGED <<demo, head, ledger, work, result, asked, post, screen, polls>>
BY DEF vars, backend

LEMMA BackendSound ==
  ASSUME ScreenInv, UNCHANGED <<asked, screen, polls>>,
         \A j \in Jobs : post[j] # "none" => post'[j] # "none",
         \A j \in Jobs : ledger[j].status \in Settled => ledger'[j].status = ledger[j].status
  PROVE  ScreenSound' /\ ScreenIsTrue'
<1>1. /\ FreshInv /\ ScreenSound /\ ScreenIsTrue
      /\ screen.loading \in Jobs \cup {None} /\ screen.timer \in Jobs \cup {None}
      /\ screen.shown.job \in Jobs \cup {None}
      /\ \A m \in BagToSet(polls) : m.job \in Jobs
  BY PageParts DEF ScreenInv, View
<1>2. ASSUME NEW j \in Jobs, About(j) PROVE About(j)'
  BY <1>2 DEF About
<1>3. ScreenSound'
  <2>1. /\ screen.loading # None => About(screen.loading)'
        /\ screen.timer # None => About(screen.timer)'
        /\ screen.shown.job # None => About(screen.shown.job)'
    BY <1>1, <1>2 DEF ScreenSound
  <2>2. \A m \in BagToSet(polls) :
          About(m.job)' /\ (m.status \in Settled => ledger'[m.job].status = m.status)
    BY <1>1, <1>2 DEF ScreenSound
  <2>3. BagToSet(polls)' = BagToSet(polls) /\ Settled' = Settled
    BY DEF Settled
  <2> QED BY <2>1, <2>2, <2>3 DEF ScreenSound, About
<1>4. ScreenIsTrue'
  BY <1>1 DEF ScreenIsTrue
<1> QED BY <1>3, <1>4

LEMMA HandlerSound ==
  ASSUME ScreenInv, Worker \/ Interrupt
  PROVE  ScreenSound' /\ ScreenIsTrue'
<1>1. FreshInv /\ ledger \in [Jobs -> Entry]
  BY DEF ScreenInv, FreshInv, Typed
<1>2. UNCHANGED <<asked, screen, polls, post>>
  BY DEF Worker, Begin, ReadContext, Complete, Raise, Interrupt
<1>3. {"queued", "running", "completed"} \subseteq Statuses /\ 0 \in Nat
  BY DEF Statuses
<1>4. ASSUME NEW j \in Jobs, ledger[j].status \in Settled
      PROVE  ledger'[j].status = ledger[j].status
  <2>1. ASSUME NEW k \in Jobs, Begin(k) PROVE ledger'[j].status = ledger[j].status
    <3>1. ledger[k].status = "queued" /\ \A i \in Jobs \ {k} : ledger'[i] = ledger[i]
      BY <1>1, <1>3, <2>1, MoveDoes DEF Begin, Ledger!Begin
    <3> QED BY <3>1, <1>4 DEF Settled
  <2>2. CASE ReadContext
    BY <2>2 DEF ReadContext
  <2>3. CASE Complete
    <3>1. work.job \in Jobs
      BY <1>1, <2>3, WorkKnown DEF Complete
    <3>2. /\ ledger[work.job].status = "running"
          /\ \A i \in Jobs \ {work.job} : ledger'[i] = ledger[i]
      BY <1>1, <1>3, <2>3, <3>1, MoveDoes DEF Complete, Ledger!Succeed
    <3> QED BY <3>2, <1>4 DEF Settled
  <2>4. CASE Raise \/ Interrupt
    <3>1. work.job \in Jobs
      BY <1>1, <2>4, WorkKnown DEF Raise, Interrupt
    <3>2. /\ ledger[work.job].status = "running"
          /\ \A i \in Jobs \ {work.job} : ledger'[i] = ledger[i]
      BY <1>1, <2>4, <3>1, StopsDoes DEF Raise, Interrupt
    <3> QED BY <3>2, <1>4 DEF Settled
  <2> QED BY <2>1, <2>2, <2>3, <2>4 DEF Worker
<1> QED BY <1>2, <1>4, BackendSound

LEMMA AcceptSound ==
  ASSUME ScreenInv, NEW j \in Jobs, Accept(j)
  PROVE  ScreenSound' /\ ScreenIsTrue'
<1>1. /\ post[j] = "sent" /\ Ledger!Accept(j) /\ post' = [post EXCEPT ![j] = "accepted"]
      /\ UNCHANGED <<asked, screen, polls>>
  BY DEF Accept
<1>2. ledger[j].status = "none" /\ \A k \in Jobs \ {j} : ledger'[k] = ledger[k]
  BY <1>1, AcceptDoes DEF ScreenInv, FreshInv, Typed
<1>3. \A k \in Jobs : post[k] # "none" => post'[k] # "none"
  BY <1>1 DEF ScreenInv, FreshInv, Typed
<1> QED BY <1>1, <1>2, <1>3, BackendSound DEF Settled

(* A screen that opens was closed: nothing is polled for it yet.            *)
LEMMA VisitSound ==
  ASSUME ScreenInv, NEW p \in Pulls, Visit(p)
  PROVE  ScreenSound' /\ ScreenIsTrue'
<1>1. /\ screen = Closed /\ screen'.loading = None /\ screen'.timer = None
      /\ screen'.shown.job = None
      /\ UNCHANGED <<asked, post, polls>>
  BY VisitFresh DEF ScreenInv, Visit
<1>2. BagToSet(polls) = {}
  <2> SUFFICES ASSUME NEW m \in BagToSet(polls) PROVE FALSE
    OBVIOUS
  <2>1. m.job \in Jobs /\ post[m.job] # "none" /\ asked[m.job].pull = None
    BY <1>1, PageParts, ClosedTyped DEF ScreenInv, ScreenSound, About
  <2> QED BY <2>1, ClosedTyped DEF ScreenInv, FreshInv, AskedSound
<1>3. BagToSet(polls)' = {}
  BY <1>1, <1>2
<1> QED BY <1>1, <1>3 DEF ScreenSound, ScreenIsTrue

(* A request is numbered anew: nothing on the screen is about it yet.       *)
LEMMA PressSound ==
  ASSUME ScreenInv, NEW j \in Jobs, Press(j)
  PROVE  ScreenSound' /\ ScreenIsTrue'
<1> DEFINE new == [pull |-> screen.pull, rev |-> head[screen.pull]]
<1>1. /\ post[j] = "none"
      /\ asked' = [asked EXCEPT ![j] = new]
      /\ post' = [post EXCEPT ![j] = "sent"]
      /\ screen' = [screen EXCEPT !.loading = j]
      /\ UNCHANGED <<ledger, polls>>
  BY DEF Press, backend
<1>2. new.pull = screen.pull
  OBVIOUS
<1> HIDE DEF new
<1>3. /\ asked'[j] = new /\ \A k \in Jobs \ {j} : asked'[k] = asked[k]
      /\ post'[j] = "sent" /\ \A k \in Jobs \ {j} : post'[k] = post[k]
  BY <1>1 DEF ScreenInv, FreshInv, Typed
<1>4. /\ screen'.loading = j /\ screen'.pull = screen.pull /\ screen'.timer = screen.timer
      /\ screen'.shown = screen.shown
  BY <1>1, PageParts DEF ScreenInv, Page
<1>5. About(j)'
  BY <1>2, <1>3, <1>4 DEF About
<1>6. ASSUME NEW k \in Jobs, About(k) PROVE About(k)' /\ k # j
  BY <1>1, <1>3, <1>4, <1>6 DEF About
<1>7. /\ screen.timer \in Jobs \cup {None} /\ screen.shown.job \in Jobs \cup {None}
      /\ \A m \in BagToSet(polls) : m.job \in Jobs
      /\ BagToSet(polls)' = BagToSet(polls)
  BY <1>1, PageParts DEF ScreenInv, View
<1>8. /\ (screen.timer # None => About(screen.timer))'
      /\ (screen.shown.job # None => About(screen.shown.job))' /\ screen.shown.job # j
  <2>1. screen.timer # None => About(screen.timer)'
    BY <1>4, <1>6, <1>7 DEF ScreenInv, ScreenSound, About
  <2>2. screen.shown.job # None => About(screen.shown.job)'
    BY <1>4, <1>6, <1>7 DEF ScreenInv, ScreenSound, About
  <2>3. screen.shown.job # j
    BY <1>6, ClosedTyped DEF ScreenInv, ScreenSound
  <2> QED BY <2>1, <2>2, <2>3, <1>4 DEF About
<1>9. \A m \in BagToSet(polls) :
        About(m.job)' /\ (m.status \in Settled => ledger[m.job].status = m.status)
  BY <1>6, <1>7 DEF ScreenInv, ScreenSound
<1>10. ScreenSound'
  BY <1>1, <1>4, <1>5, <1>7, <1>8, <1>9 DEF ScreenSound, About, Settled
<1>11. ScreenIsTrue'
  BY <1>1, <1>3, <1>4, <1>7, <1>8 DEF ScreenInv, ScreenIsTrue, Settled
<1> QED BY <1>10, <1>11

LEMMA LeaveSound ==
  ASSUME ScreenInv, Leave
  PROVE  ScreenSound' /\ ScreenIsTrue'
<1>1. screen' = Closed /\ BagToSet(polls)' = {}
  BY LeaveFresh DEF ScreenInv
<1> QED BY <1>1, ClosedTyped DEF ScreenSound, ScreenIsTrue

(* While the page is the same, what it is about stays.                      *)
LEMMA StaysAbout ==
  ASSUME ScreenInv, UNCHANGED asked, screen'.pull = screen.pull,
         \A k \in Jobs : post'[k] # "none" <=> post[k] # "none"
  PROVE  /\ \A k \in Jobs : About(k) => About(k)'
         /\ screen.loading # None => screen.loading \in Jobs /\ About(screen.loading)
         /\ screen.timer # None => screen.timer \in Jobs /\ About(screen.timer)
         /\ screen.shown.job # None => screen.shown.job \in Jobs /\ About(screen.shown.job)
         /\ \A m \in BagToSet(polls) : m.job \in Jobs /\ About(m.job)
                /\ (m.status \in Settled => ledger[m.job].status = m.status)
BY PageParts DEF ScreenInv, ScreenSound, About, View

LEMMA CreatedSound ==
  ASSUME ScreenInv, NEW j \in Jobs, Created(j)
  PROVE  ScreenSound' /\ ScreenIsTrue'
<1>1. /\ screen'.pull = screen.pull
      /\ \/ screen' = screen
         \/ /\ screen.loading = j /\ screen'.loading = None /\ screen'.timer = j
            /\ screen'.shown.job = j /\ screen'.shown.status = "queued"
      /\ \A k \in Jobs : post'[k] # "none" <=> post[k] # "none"
      /\ UNCHANGED <<ledger, asked, polls>>
  BY CreatedFresh DEF ScreenInv
<1>2. /\ \A k \in Jobs : About(k) => About(k)'
      /\ screen.loading # None => screen.loading \in Jobs /\ About(screen.loading)
      /\ screen.timer # None => screen.timer \in Jobs /\ About(screen.timer)
      /\ screen.shown.job # None => screen.shown.job \in Jobs /\ About(screen.shown.job)
      /\ \A m \in BagToSet(polls) : m.job \in Jobs /\ About(m.job)
             /\ (m.status \in Settled => ledger[m.job].status = m.status)
  BY <1>1, StaysAbout
<1>3. BagToSet(polls)' = BagToSet(polls)
  BY <1>1
<1>4. \A m \in BagToSet(polls)' :
        About(m.job)' /\ (m.status \in Settled => ledger'[m.job].status = m.status)
  BY <1>1, <1>2, <1>3
<1>5. CASE screen' = screen
  <2>1. /\ screen.loading # None => About(screen.loading)'
        /\ screen.timer # None => About(screen.timer)'
        /\ screen.shown.job # None => About(screen.shown.job)'
    BY <1>2, <1>5 DEF About
  <2>2. ScreenSound'
    BY <2>1, <1>4, <1>5 DEF ScreenSound, Settled
  <2>3. ScreenIsTrue'
    BY <1>1, <1>5 DEF ScreenInv, ScreenIsTrue, Settled
  <2> QED BY <2>2, <2>3
<1>6. CASE /\ screen.loading = j /\ screen'.loading = None /\ screen'.timer = j
           /\ screen'.shown.job = j /\ screen'.shown.status = "queued"
  <2>1. About(j)'
    BY <1>2, <1>6, ClosedTyped
  <2>2. ScreenSound'
    BY <2>1, <1>4, <1>6 DEF ScreenSound, About, Settled
  <2>3. ScreenIsTrue'
    BY <2>1, <1>6 DEF ScreenIsTrue, About, Settled
  <2> QED BY <2>2, <2>3
<1> QED BY <1>1, <1>5, <1>6

LEMMA PostFailsSound ==
  ASSUME ScreenInv, NEW j \in Jobs, PostFails(j)
  PROVE  ScreenSound' /\ ScreenIsTrue'
<1>1. /\ screen'.pull = screen.pull /\ screen'.timer = screen.timer
      /\ screen'.shown = screen.shown /\ screen'.loading \in {screen.loading, None}
      /\ \A k \in Jobs : post'[k] # "none" <=> post[k] # "none"
      /\ UNCHANGED <<ledger, asked, polls>>
  BY PostFailsFresh DEF ScreenInv
<1>2. /\ \A k \in Jobs : About(k) => About(k)'
      /\ screen.loading # None => screen.loading \in Jobs /\ About(screen.loading)
      /\ screen.timer # None => screen.timer \in Jobs /\ About(screen.timer)
      /\ screen.shown.job # None => screen.shown.job \in Jobs /\ About(screen.shown.job)
      /\ \A m \in BagToSet(polls) : m.job \in Jobs /\ About(m.job)
             /\ (m.status \in Settled => ledger[m.job].status = m.status)
  BY <1>1, StaysAbout
<1>3. BagToSet(polls)' = BagToSet(polls)
  BY <1>1
<1>4. \A m \in BagToSet(polls)' :
        About(m.job)' /\ (m.status \in Settled => ledger'[m.job].status = m.status)
  BY <1>1, <1>2, <1>3
<1>5. /\ screen'.loading # None => About(screen.loading)'
      /\ screen'.timer # None => About(screen.timer)'
      /\ screen'.shown.job # None => About(screen.shown.job)'
  BY <1>1, <1>2 DEF About
<1>6. ScreenSound'
  BY <1>4, <1>5 DEF ScreenSound, Settled
<1>7. ScreenIsTrue'
  BY <1>1 DEF ScreenInv, ScreenIsTrue, Settled
<1> QED BY <1>6, <1>7

(* A poll that is sent, or served, or lost, changes nothing that is shown.  *)
LEMMA PollSound ==
  ASSUME ScreenInv, UNCHANGED <<ledger, asked, post, screen>>,
         \A x \in BagToSet(polls)' :
           \/ x \in BagToSet(polls)
           \/ /\ x.job \in Jobs /\ About(x.job)
              /\ x.status \in Settled => ledger[x.job].status = x.status
  PROVE  ScreenSound' /\ ScreenIsTrue'
<1>1. \A j \in Jobs : About(j)' <=> About(j)
  BY DEF About
<1>2. \A m \in BagToSet(polls) : m.job \in Jobs /\ About(m.job)
        /\ (m.status \in Settled => ledger[m.job].status = m.status)
  BY PageParts DEF ScreenInv, ScreenSound
<1>3. \A m \in BagToSet(polls)' :
        About(m.job)' /\ (m.status \in Settled => ledger'[m.job].status = m.status)
  BY <1>1, <1>2
<1>4. ScreenSound'
  BY <1>3 DEF ScreenInv, ScreenSound, About, Settled
<1>5. ScreenIsTrue'
  BY DEF ScreenInv, ScreenIsTrue
<1> QED BY <1>4, <1>5

LEMMA TimerFiresSound ==
  ASSUME ScreenInv, TimerFires
  PROVE  ScreenSound' /\ ScreenIsTrue'
<1>1. /\ screen.timer \in Jobs
      /\ BagToSet(polls)' = BagToSet(polls) \cup
           {[job |-> screen.timer, at |-> "sent", status |-> "none"]}
      /\ UNCHANGED <<ledger, asked, post, screen>>
  BY TimerFiresFresh DEF ScreenInv
<1>2. About(screen.timer)
  BY <1>1, ClosedTyped DEF ScreenInv, ScreenSound
<1>3. \A x \in BagToSet(polls)' :
        \/ x \in BagToSet(polls)
        \/ /\ x.job \in Jobs /\ About(x.job)
           /\ x.status \in Settled => ledger[x.job].status = x.status
  BY <1>1, <1>2 DEF Settled
<1> QED BY <1>1, <1>3, PollSound

LEMMA ServedSound ==
  ASSUME ScreenInv, NEW m \in BagToSet(polls), Served(m)
  PROVE  ScreenSound' /\ ScreenIsTrue'
<1>1. /\ \A x \in BagToSet(polls)' :
           \/ x \in BagToSet(polls)
           \/ x.job = m.job /\ x.status = ledger[m.job].status
      /\ UNCHANGED <<ledger, asked, post, screen>>
  BY ServedFresh DEF ScreenInv
<1>2. m.job \in Jobs /\ About(m.job)
  BY PageParts DEF ScreenInv, ScreenSound
<1>3. \A x \in BagToSet(polls)' :
        \/ x \in BagToSet(polls)
        \/ /\ x.job \in Jobs /\ About(x.job)
           /\ x.status \in Settled => ledger[x.job].status = x.status
  BY <1>1, <1>2
<1> QED BY <1>1, <1>3, PollSound

(* What arrives is shown if it is about the page and tells of no end that   *)
(* has not come, or is a guess.                                             *)
LEMMA ArrivesSound ==
  ASSUME ScreenInv, NEW m \in BagToSet(polls), NEW view \in View, NEW stops \in BOOLEAN,
         UNCHANGED <<ledger, work, result>>, Arrives(m, view, stops),
         view.job # None => About(view.job),
         view.job # None /\ view.status \in Settled /\ ~view.guess =>
           ledger[view.job].status = view.status
  PROVE  FreshInv' /\ ScreenSound' /\ ScreenIsTrue'
<1>1. /\ FreshInv' /\ BagToSet(polls)' \subseteq BagToSet(polls)
      /\ screen'.pull = screen.pull /\ screen'.loading = screen.loading
      /\ screen'.timer \in {screen.timer, None} /\ screen'.shown = view
      /\ UNCHANGED <<ledger, asked, post>>
  BY ArrivesFresh DEF ScreenInv
<1>2. view.job \in Jobs \cup {None}
  BY DEF View
<1>3. /\ \A k \in Jobs : About(k) => About(k)'
      /\ screen.loading # None => screen.loading \in Jobs /\ About(screen.loading)
      /\ screen.timer # None => screen.timer \in Jobs /\ About(screen.timer)
      /\ \A x \in BagToSet(polls) : x.job \in Jobs /\ About(x.job)
             /\ (x.status \in Settled => ledger[x.job].status = x.status)
  BY <1>1, StaysAbout
<1>4. \A x \in BagToSet(polls)' :
        About(x.job)' /\ (x.status \in Settled => ledger'[x.job].status = x.status)
  BY <1>1, <1>3
<1>5. /\ screen'.loading # None => About(screen.loading)'
      /\ screen'.timer # None => About(screen.timer)'
      /\ view.job # None => About(view.job)'
  BY <1>1, <1>2, <1>3 DEF About
<1>6. ScreenSound'
  BY <1>1, <1>4, <1>5 DEF ScreenSound, About, Settled
<1>7. ScreenIsTrue'
  BY <1>1, <1>2 DEF ScreenIsTrue, About, Settled
<1> QED BY <1>1, <1>6, <1>7

LEMMA DeliverSound ==
  ASSUME ScreenInv, NEW m \in BagToSet(polls), Answered(m) \/ PollFails(m)
  PROVE  FreshInv' /\ ScreenSound' /\ ScreenIsTrue'
<1>1. /\ m.job \in Jobs /\ About(m.job)
      /\ m.status \in Settled => ledger[m.job].status = m.status
      /\ screen.shown.job # None => About(screen.shown.job)
  BY PageParts DEF ScreenInv, ScreenSound
<1>2. PICK view \in View, stops \in BOOLEAN :
        /\ Arrives(m, view, stops)
        /\ \/ view.job = m.job /\ view.status = m.status
           \/ view.job = screen.shown.job /\ view.guess
  BY DeliverShows DEF ScreenInv
<1>3. UNCHANGED <<ledger, work, result>>
  BY DeliverShows DEF ScreenInv
<1>4. view.job # None => About(view.job)
  BY <1>1, <1>2
<1>5. view.job # None /\ view.status \in Settled /\ ~view.guess =>
        ledger[view.job].status = view.status
  BY <1>1, <1>2
<1> QED BY <1>2, <1>3, <1>4, <1>5, ArrivesSound

-----------------------------------------------------------------------------
(* The theorems.                                                            *)

LEMMA NextFresh == FreshInv /\ [Next]_vars => FreshInv'
<1> SUFFICES ASSUME FreshInv, [Next]_vars PROVE FreshInv'
  OBVIOUS
<1>1. ASSUME NEW j \in Jobs, Begin(j) PROVE FreshInv'
  BY <1>1, BeginFresh
<1>2. CASE ReadContext
  BY <1>2, ReadContextFresh
<1>3. CASE Complete
  BY <1>3, CompleteFresh
<1>4. CASE Raise \/ Interrupt
  BY <1>4, StopsFresh
<1>5. CASE TimerFires
  BY <1>5, TimerFiresFresh
<1>6. CASE Leave
  BY <1>6, LeaveFresh
<1>7. ASSUME NEW m \in BagToSet(polls), Answered(m) \/ PollFails(m) PROVE FreshInv'
  <2>1. PICK view \in View, stops \in BOOLEAN : Arrives(m, view, stops)
    BY <1>7, DeliverShows
  <2>2. UNCHANGED <<ledger, work, result>>
    BY <1>7, DeliverShows
  <2> QED BY <2>1, <2>2, ArrivesFresh
<1>8. ASSUME NEW p \in Pulls, Edit(p) \/ Visit(p) PROVE FreshInv'
  BY <1>8, EditFresh, VisitFresh
<1>9. ASSUME NEW j \in Jobs, Press(j) \/ Accept(j) \/ Created(j) \/ PostFails(j)
      PROVE  FreshInv'
  BY <1>9, PressFresh, AcceptFresh, CreatedFresh, PostFailsFresh
<1>10. ASSUME NEW m \in BagToSet(polls), Served(m) PROVE FreshInv'
  BY <1>10, ServedFresh
<1>11. CASE UNCHANGED vars
  BY <1>11, Alike DEF FreshInv, Typed, WorkIsRunning, AskedSound, ReadInOrder, ReviewsAreFresh
<1> QED BY <1>1, <1>2, <1>3, <1>4, <1>5, <1>6, <1>7, <1>8, <1>9, <1>10, <1>11
        DEF Next, Worker, Deliver

(* A review is of the pull request it was asked for, made of texts no older *)
(* than the request, the diff at least as new as the title: whatever the    *)
(* retries and restarts, and for any number of edits                        *)
(* (github_service.py:556).                                                 *)
THEOREM ReviewsStayFresh == Spec => []ReviewsAreFresh
<1>1. FreshInv => ReviewsAreFresh
  BY DEF FreshInv
<1> QED BY <1>1, InitFresh, NextFresh, PTL DEF Spec

LEMMA NextSound == ScreenInv /\ [Next]_vars => ScreenInv'
<1> SUFFICES ASSUME ScreenInv, [Next]_vars PROVE ScreenInv'
  OBVIOUS
<1>1. FreshInv'
  BY NextFresh DEF ScreenInv
<1>2. CASE Worker \/ Interrupt
  BY <1>1, <1>2, HandlerSound DEF ScreenInv
<1>3. CASE TimerFires
  BY <1>1, <1>3, TimerFiresSound DEF ScreenInv
<1>4. CASE Leave
  BY <1>1, <1>4, LeaveSound DEF ScreenInv
<1>5. CASE Deliver
  BY <1>5, DeliverSound DEF ScreenInv, Deliver
<1>6. ASSUME NEW p \in Pulls, Edit(p) PROVE ScreenInv'
  <2>1. UNCHANGED <<ledger, asked, post, screen, polls>>
    BY <1>6 DEF Edit, backend
  <2> QED BY <1>1, <2>1, BackendSound DEF ScreenInv
<1>7. ASSUME NEW p \in Pulls, Visit(p) PROVE ScreenInv'
  BY <1>1, <1>7, VisitSound DEF ScreenInv
<1>8. ASSUME NEW j \in Jobs, Press(j) \/ Accept(j) \/ Created(j) \/ PostFails(j)
      PROVE  ScreenInv'
  BY <1>1, <1>8, PressSound, AcceptSound, CreatedSound, PostFailsSound DEF ScreenInv
<1>9. ASSUME NEW m \in BagToSet(polls), Served(m) PROVE ScreenInv'
  BY <1>1, <1>9, ServedSound DEF ScreenInv
<1>10. CASE UNCHANGED vars
  <2>1. UNCHANGED <<ledger, asked, post, screen, polls>>
    BY <1>10, Alike
  <2> QED BY <1>1, <2>1, BackendSound DEF ScreenInv
<1> QED BY <1>2, <1>3, <1>4, <1>5, <1>6, <1>7, <1>8, <1>9, <1>10 DEF Next

(* The screen shows no job of another pull request, and an end of the job   *)
(* only when it has come, unless the end is the guess of a poll that failed *)
(* (generated_screen.dart:646), however many polls overlap and in whatever  *)
(* order they come back.                                                    *)
THEOREM ScreenTellsTruth == Spec => []ScreenIsTrue
<1>1. Init => ScreenInv
  <2> SUFFICES ASSUME Init PROVE ScreenSound /\ ScreenIsTrue
    BY InitFresh DEF ScreenInv
  <2>1. screen = Closed /\ BagToSet(polls) = {}
    BY BagIsEmpty DEF Init
  <2> QED BY <2>1, ClosedTyped DEF ScreenSound, ScreenIsTrue
<1>2. ScreenInv => ScreenIsTrue
  BY DEF ScreenInv
<1> QED BY <1>1, <1>2, NextSound, PTL DEF Spec

=============================================================================
