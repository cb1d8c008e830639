------------------------------ MODULE RateLimit ------------------------------
(***************************************************************************)
(* backend/app/security.py: RateLimitMiddleware.  dispatch has no await     *)
(* before it calls the next layer, so a request is one step.  Time is       *)
(* counted in ticks, several to a second.                                   *)
(***************************************************************************)
EXTENDS Integers, Sequences

CONSTANTS
  Clients,       \* addresses of clients
  General,       \* rate_limit_per_minute + burst
  Auth,          \* max(10, rate_limit_per_minute // 4), for /api/auth/
  Second,        \* ticks to a second
  Window,        \* the 60 seconds, in ticks
  MaxTime        \* bound on the clock

(* from_env makes the rate at least 20 and the burst at least 0. *)
ASSUME LimitsAssumption ==
  /\ Auth \in Nat \ {0} /\ General \in Nat /\ Auth <= General
  /\ Second \in Nat \ {0} /\ Window \in Nat /\ MaxTime \in Nat

VARIABLES
  now,       \* time.monotonic()
  bucket,    \* self._requests: client -> instants
  admitted,  \* history: client -> instants and paths of its admitted requests
  refusal    \* history: client -> its last refusal, or NoRefusal

vars == <<now, bucket, admitted, refusal>>

Paths == {"auth", "other"}

Limit(path) == IF path = "auth" THEN Auth ELSE General

AtLeast(low, n) == IF n < low THEN low ELSE n

(* NoRefusal, and what a refusal tells: when, how long to wait, how many    *)
(* requests of the client had been admitted, and how full the bucket was.   *)
NoRefusal == [path |-> "none", at |-> 0, retry |-> 0, after |-> 0, full |-> 0]

Init ==
  /\ now = 0
  /\ bucket = [c \in Clients |-> <<>>]
  /\ admitted = [c \in Clients |-> <<>>]
  /\ refusal = [c \in Clients |-> NoRefusal]

Tick ==
  /\ now < MaxTime
  /\ now' = now + 1
  /\ UNCHANGED <<bucket, admitted, refusal>>

(* The instants of b that are left after k have been popped from the left.  *)
Left(b, k) == SubSeq(b, k + 1, Len(b))

(* Mutated form: an instant goes when it is exactly a window old. *)
PrunedEarly(b, k) ==
  /\ k \in 0..Len(b)
  /\ \A i \in 1..k : now - b[i] >= Window
  /\ k < Len(b) => now - b[k + 1] < Window

(* The loop pops as long as the first instant is older than the window. *)
Pruned(b, k) ==
  /\ k \in 0..Len(b)
  /\ \A i \in 1..k : now - b[i] > Window
  /\ k < Len(b) => now - b[k + 1] <= Window

(* Mutated form: the age of the first instant instead of what is left. *)
RetryAfterElapsed(b) == AtLeast(1, (now - b[1]) \div Second)

(* retry_after, in seconds. *)
RetryAfter(b) == AtLeast(1, (Window - (now - b[1])) \div Second)

Refuse(c, path, b) ==
  /\ Len(b) >= Limit(path)
  /\ bucket' = [bucket EXCEPT ![c] = b]
  /\ refusal' = [refusal EXCEPT ![c] =
       [path |-> path, at |-> now, retry |-> RetryAfter(b),
        after |-> Len(admitted[c]), full |-> Len(b)]]
  /\ UNCHANGED <<now, admitted>>

(* Mutated form: one request too many. *)
AdmitOneMore(c, path, b) ==
  /\ Len(b) <= Limit(path)
  /\ bucket' = [bucket EXCEPT ![c] = Append(b, now)]
  /\ admitted' = [admitted EXCEPT ![c] = Append(@, [at |-> now, path |-> path])]
  /\ UNCHANGED <<now, refusal>>

(* Mutated form: all clients fill the bucket of each. *)
AdmitShared(c, path, b) ==
  /\ Len(b) < Limit(path)
  /\ bucket' = [d \in Clients |-> IF d = c THEN Append(b, now) ELSE Append(bucket[d], now)]
  /\ admitted' = [admitted EXCEPT ![c] = Append(@, [at |-> now, path |-> path])]
  /\ UNCHANGED <<now, refusal>>

Admit(c, path, b) ==
  /\ Len(b) < Limit(path)
  /\ bucket' = [bucket EXCEPT ![c] = Append(b, now)]
  /\ admitted' = [admitted EXCEPT ![c] = Append(@, [at |-> now, path |-> path])]
  /\ UNCHANGED <<now, refusal>>

(* RateLimitMiddleware.dispatch *)
Dispatch(c, path) ==
  \E k \in 0..Len(bucket[c]) :
    /\ Pruned(bucket[c], k)
    /\ \/ Refuse(c, path, Left(bucket[c], k))
       \/ Admit(c, path, Left(bucket[c], k))

Next ==
  \/ Tick
  \/ \E c \in Clients, path \in Paths : Dispatch(c, path)

Spec == Init /\ [][Next]_vars

-----------------------------------------------------------------------------
(* Properties.                                                              *)

(* However a client spaces its requests and mixes its paths: in the window  *)
(* that ends with an admitted request no more than the limit of its path    *)
(* was admitted.  The bucket forgets, and holds requests of both kinds.     *)
WindowHolds(c) ==
  \A i \in DOMAIN admitted[c] :
    i > Limit(admitted[c][i].path) =>
      admitted[c][i].at - admitted[c][i - Limit(admitted[c][i].path)].at > Window

WindowBound == \A c \in Clients : WindowHolds(c)

(* A client is refused for its own requests of the last window only, none   *)
(* older and none of another client.                                        *)
RefusalJust(c) ==
  LET r == refusal[c]
  IN r # NoRefusal =>
       /\ r.after >= Limit(r.path)
       /\ r.at - admitted[c][r.after - Limit(r.path) + 1].at <= Window

RefusedOnlyAtLimit == \A c \in Clients : RefusalJust(c)

(* A client that waits a second longer than Retry-After says, and is        *)
(* admitted nowhere meanwhile, finds room, if the bucket was full to the    *)
(* limit of its path exactly.  (The second is needed: the value is rounded  *)
(* down and an instant exactly a window old still counts.  The condition is *)
(* needed on /api/auth/ only, where other paths may have filled the bucket  *)
(* beyond the limit and more than one instant has to go.)                   *)
Waited(c) ==
  /\ refusal[c] # NoRefusal
  /\ Len(admitted[c]) = refusal[c].after
  /\ refusal[c].full = Limit(refusal[c].path)
  /\ now >= refusal[c].at + (refusal[c].retry + 1) * Second

RetryIsEnough ==
  \A c \in Clients : Waited(c) =>
    \E k \in 0..Len(bucket[c]) :
      Pruned(bucket[c], k) /\ Len(Left(bucket[c], k)) < Limit(refusal[c].path)

=============================================================================
