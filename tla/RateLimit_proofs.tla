--------------------------- MODULE RateLimit_proofs ---------------------------
(***************************************************************************)
(* Theorems about RateLimit, for every set of clients, all limits, every   *)
(* length of the second and of the window, and every length of the run.    *)
(***************************************************************************)
EXTENDS RateLimit, SequenceTheorems, WellFoundedInduction, TLAPS

-----------------------------------------------------------------------------
(* The inductive invariant: the bucket of a client holds the latest of its  *)
(* admitted requests, and those that it has forgotten are out of the window. *)

Moment == [at : Nat, path : Paths]

Shaped ==
  /\ now \in Nat
  /\ bucket \in [Clients -> Seq(Nat)]
  /\ admitted \in [Clients -> Seq(Moment)]
  /\ DOMAIN refusal = Clients

Forgotten(c) == Len(admitted[c]) - Len(bucket[c])

InOrder(c) ==
  \A i, k \in 1..Len(admitted[c]) : i <= k =>
    admitted[c][i].at <= admitted[c][k].at /\ admitted[c][k].at <= now

BucketIsLatest(c) ==
  /\ Forgotten(c) >= 0
  /\ \A i \in 1..Len(bucket[c]) : bucket[c][i] = admitted[c][Forgotten(c) + i].at
  /\ \A i \in 1..Forgotten(c) : now - admitted[c][i].at > Window

(* A refusal was just, and until the client is admitted again its bucket is *)
(* the one that the refusal speaks of.                                      *)
RefusalSound(c) ==
  \/ refusal[c] = NoRefusal
  \/ /\ refusal[c].path \in Paths /\ refusal[c].at \in Nat /\ refusal[c].retry \in Nat
     /\ refusal[c].after \in 0..Len(admitted[c])
     /\ refusal[c].after >= Limit(refusal[c].path)
     /\ refusal[c].at
          - admitted[c][refusal[c].after - Limit(refusal[c].path) + 1].at <= Window
     /\ Len(admitted[c]) = refusal[c].after =>
          /\ Len(bucket[c]) = refusal[c].full /\ refusal[c].full > 0
          /\ (refusal[c].retry + 1) * Second > Window - (refusal[c].at - bucket[c][1])

Sound(c) == InOrder(c) /\ BucketIsLatest(c) /\ RefusalSound(c) /\ WindowHolds(c)

IInv == Shaped /\ \A c \in Clients : Sound(c)

-----------------------------------------------------------------------------
(* Limits and times.                                                        *)

LEMMA LimitsPositive ==
  ASSUME NEW path \in Paths
  PROVE  Limit(path) \in Nat \ {0}
BY LimitsAssumption DEF Limit

(* Every non-empty set of natural numbers has a least element.              *)
LEMMA LeastNat ==
  ASSUME NEW S, S \subseteq Nat, S # {}
  PROVE  \E n \in S : \A m \in S : n <= m
<1>1. IsWellFoundedOn(OpToRel(<, Nat), Nat)
  BY NatLessThanWellFounded
<1>2. PICK n \in S : ~ \E y \in S : <<y, n>> \in OpToRel(<, Nat)
  BY <1>1, WFMin
<1>3. \A y \in S : ~ (y < n)
  BY <1>2 DEF OpToRel
<1> QED BY <1>3

(* A whole number of seconds and one more is longer than the time it is of. *)
LEMMA RoundedDown ==
  ASSUME NEW x \in Int
  PROVE  /\ AtLeast(1, x \div Second) \in Nat
         /\ (AtLeast(1, x \div Second) + 1) * Second > x
<1>1. Second \in Nat /\ Second > 0
  BY LimitsAssumption
<1>2. x \div Second \in Int /\ x = Second * (x \div Second) + (x % Second)
      /\ x % Second \in 0..(Second - 1)
  BY <1>1
<1>3. ASSUME NEW q \in Int, NEW m \in 0..(Second - 1), x = Second * q + m
      PROVE  (AtLeast(1, q) + 1) * Second > x /\ AtLeast(1, q) \in Nat
  <2>1. CASE q >= 1
    BY <2>1, <1>1, <1>3 DEF AtLeast
  <2>2. CASE q < 1
    <3>1. Second * q <= 0
      BY <2>2, <1>1
    <3> QED BY <2>2, <3>1, <1>1, <1>3 DEF AtLeast
  <2> QED BY <2>1, <2>2
<1> QED BY <1>2, <1>3

(* What is left of a bucket.                                                *)
LEMMA LeftIs ==
  ASSUME NEW b \in Seq(Nat), NEW k \in 0..Len(b)
  PROVE  /\ Left(b, k) \in Seq(Nat)
         /\ Len(Left(b, k)) = Len(b) - k
         /\ \A i \in 1..(Len(b) - k) : Left(b, k)[i] = b[k + i]
BY SubSeqProperties DEF Left

LEMMA MomentsTyped ==
  ASSUME Shaped, NEW c \in Clients, NEW i \in 1..Len(admitted[c])
  PROVE  /\ Len(admitted[c]) \in Nat /\ Len(bucket[c]) \in Nat
         /\ admitted[c][i] \in Moment /\ admitted[c][i].at \in Nat
         /\ admitted[c][i].path \in Paths
<1>1. admitted[c] \in Seq(Moment) /\ bucket[c] \in Seq(Nat)
  BY DEF Shaped
<1>2. admitted[c][i] \in Moment
  BY <1>1, ElementOfSeq
<1> QED BY <1>1, <1>2 DEF Moment

(* The bucket after the loop has popped what is too old.                    *)
LEMMA PrunedIsLatest ==
  ASSUME IInv, NEW c \in Clients, NEW k \in 0..Len(bucket[c]), Pruned(bucket[c], k),
         NEW b, b = Left(bucket[c], k)
  PROVE  /\ b \in Seq(Nat) /\ Len(b) <= Len(admitted[c])
         /\ \A i \in 1..Len(b) : b[i] = admitted[c][Len(admitted[c]) - Len(b) + i].at
         /\ \A i \in 1..(Len(admitted[c]) - Len(b)) : now - admitted[c][i].at > Window
         /\ Len(b) > 0 => now - b[1] <= Window
<1> DEFINE n == Len(admitted[c])
           m == Len(bucket[c])
<1>0. bucket[c] \in Seq(Nat) /\ admitted[c] \in Seq(Moment)
  BY DEF IInv, Shaped
<1>1. n \in Nat /\ m \in Nat /\ k \in Int /\ 0 <= k /\ k <= m
  BY <1>0
<1>2. /\ n - m >= 0
      /\ \A i \in 1..m : bucket[c][i] = admitted[c][n - m + i].at
      /\ \A i \in 1..(n - m) : now - admitted[c][i].at > Window
  BY DEF IInv, Sound, BucketIsLatest, Forgotten
<1>3. /\ b \in Seq(Nat) /\ Len(b) = m - k
      /\ \A i \in 1..(m - k) : b[i] = bucket[c][k + i]
  BY <1>0, LeftIs
<1>4. /\ \A i \in 1..k : now - bucket[c][i] > Window
      /\ k < m => now - bucket[c][k + 1] <= Window
  BY DEF Pruned
<1> HIDE DEF n, m
<1>5. ASSUME NEW i \in 1..Len(b)
      PROVE  b[i] = admitted[c][n - Len(b) + i].at
  <2>1. b[i] = bucket[c][k + i] /\ k + i \in 1..m
    BY <1>1, <1>3, <1>5
  <2>2. n - Len(b) + i = n - m + (k + i)
    BY <1>1, <1>3
  <2> QED BY <1>2, <2>1, <2>2
<1>6. ASSUME NEW i \in 1..(n - Len(b))
      PROVE  now - admitted[c][i].at > Window
  <2>1. CASE i <= n - m
    BY <2>1, <1>1, <1>2, <1>6
  <2>2. CASE i > n - m
    <3>1. i - (n - m) \in 1..k /\ i - (n - m) \in 1..m /\ n - m + (i - (n - m)) = i
      BY <2>2, <1>1, <1>3, <1>6
    <3> QED BY <3>1, <1>2, <1>4
  <2> QED BY <2>1, <2>2, <1>1, <1>3
<1>7. Len(b) > 0 => now - b[1] <= Window
  BY <1>1, <1>3, <1>4
<1>8. Len(b) <= n
  BY <1>1, <1>2, <1>3
<1> QED BY <1>3, <1>5, <1>6, <1>7, <1>8 DEF n

LEMMA InitHolds == Init => IInv
<1> SUFFICES ASSUME Init PROVE IInv
  OBVIOUS
<1>1. Shaped
  BY EmptySeq DEF Init, Shaped
<1>2. ASSUME NEW c \in Clients PROVE Sound(c)
  BY DEF Init, Sound, InOrder, BucketIsLatest, RefusalSound, WindowHolds, Forgotten
<1> QED BY <1>1, <1>2 DEF IInv

LEMMA TickHolds ==
  ASSUME IInv, Tick
  PROVE  IInv'
<1>1. now \in Nat /\ now' = now + 1 /\ UNCHANGED <<bucket, admitted, refusal>>
  BY DEF IInv, Shaped, Tick
<1>2. Shaped'
  BY <1>1 DEF IInv, Shaped
<1>3. ASSUME NEW c \in Clients PROVE Sound(c)'
  <2>1. Sound(c) /\ \A i \in 1..Len(admitted[c]) : admitted[c][i].at \in Nat
    BY MomentsTyped DEF IInv
  <2>2. InOrder(c)'
    BY <2>1, <1>1 DEF Sound, InOrder
  <2>3. BucketIsLatest(c)'
    <3>1. Forgotten(c) \in 0..Len(admitted[c])
      BY <2>1 DEF IInv, Shaped, Sound, BucketIsLatest, Forgotten
    <3>2. \A i \in 1..Forgotten(c) : now' - admitted[c][i].at > Window
      BY <1>1, <2>1, <3>1, LimitsAssumption DEF Sound, BucketIsLatest
    <3>3. /\ Forgotten(c) >= 0
          /\ \A i \in 1..Len(bucket[c]) : bucket[c][i] = admitted[c][Forgotten(c) + i].at
      BY <2>1 DEF Sound, BucketIsLatest
    <3> QED BY <1>1, <3>2, <3>3 DEF BucketIsLatest, Forgotten
  <2>4. RefusalSound(c)'
    BY <2>1, <1>1 DEF Sound, RefusalSound, Limit
  <2>5. WindowHolds(c)'
    BY <2>1, <1>1 DEF Sound, WindowHolds, Limit
  <2> QED BY <2>2, <2>3, <2>4, <2>5 DEF Sound
<1> QED BY <1>2, <1>3 DEF IInv

LEMMA OtherClientsHold ==
  ASSUME IInv, NEW d \in Clients, now' = now, bucket'[d] = bucket[d],
         admitted'[d] = admitted[d], refusal'[d] = refusal[d]
  PROVE  Sound(d)'
BY DEF IInv, Sound, InOrder, BucketIsLatest, RefusalSound, WindowHolds, Forgotten, Limit

LEMMA RefuseHolds ==
  ASSUME IInv, NEW c \in Clients, NEW path \in Paths, NEW k \in 0..Len(bucket[c]),
         Pruned(bucket[c], k), Refuse(c, path, Left(bucket[c], k))
  PROVE  IInv'
<1> DEFINE b == Left(bucket[c], k)
           n == Len(admitted[c])
<1>1. /\ b \in Seq(Nat) /\ Len(b) <= n
      /\ \A i \in 1..Len(b) : b[i] = admitted[c][n - Len(b) + i].at
      /\ \A i \in 1..(n - Len(b)) : now - admitted[c][i].at > Window
      /\ Len(b) > 0 => now - b[1] <= Window
  BY PrunedIsLatest
<1>2. /\ Len(b) >= Limit(path) /\ Limit(path) \in Nat \ {0}
      /\ bucket' = [bucket EXCEPT ![c] = b]
      /\ refusal' = [refusal EXCEPT ![c] =
           [path |-> path, at |-> now, retry |-> RetryAfter(b), after |-> n, full |-> Len(b)]]
      /\ now' = now /\ admitted' = admitted
  BY LimitsPositive DEF Refuse
<1> HIDE DEF b
<1>3. /\ admitted[c] \in Seq(Moment) /\ bucket \in [Clients -> Seq(Nat)]
      /\ now \in Nat /\ DOMAIN refusal = Clients
  BY DEF IInv, Shaped
<1>4. n \in Nat /\ Len(b) \in Nat /\ Len(b) > 0 /\ b[1] \in Nat /\ now - b[1] <= Window
  BY <1>1, <1>2, <1>3
<1>0. n = Len(admitted[c])
  OBVIOUS
<1> HIDE DEF n
<1>5. bucket'[c] = b /\ bucket' \in [Clients -> Seq(Nat)] /\ admitted'[c] = admitted[c]
  BY <1>1, <1>2, <1>3
<1>6. Shaped'
  BY <1>2, <1>5 DEF IInv, Shaped
<1>7. InOrder(c)'
  BY <1>2 DEF IInv, Sound, InOrder
<1>8. BucketIsLatest(c)'
  <2>1. Forgotten(c)' = n - Len(b)
    BY <1>0, <1>5 DEF Forgotten
  <2>2. n - Len(b) >= 0
    BY <1>1, <1>4
  <2> QED BY <1>1, <1>2, <1>5, <2>1, <2>2 DEF BucketIsLatest
<1>9. RefusalSound(c)'
  <2> DEFINE q == [path |-> path, at |-> now, retry |-> RetryAfter(b),
                   after |-> n, full |-> Len(b)]
  <2>1. refusal'[c] = q
    BY <1>2, <1>3
  <2>2. RetryAfter(b) \in Nat /\ (RetryAfter(b) + 1) * Second > Window - (now - b[1])
    <3>1. Window - (now - b[1]) \in Int
      BY <1>3, <1>4, LimitsAssumption
    <3> QED BY <3>1, RoundedDown DEF RetryAfter
  <2>3. now - admitted[c][n - Limit(path) + 1].at <= Window
    <3>1. /\ n - Len(b) + 1 \in 1..n /\ n - Limit(path) + 1 \in 1..n
          /\ n - Len(b) + 1 <= n - Limit(path) + 1
      BY <1>1, <1>2, <1>4
    <3>2. admitted[c][n - Len(b) + 1].at = b[1]
      BY <1>1, <1>4
    <3>3. /\ admitted[c][n - Len(b) + 1].at <= admitted[c][n - Limit(path) + 1].at
          /\ admitted[c][n - Limit(path) + 1].at \in Nat
      BY <1>0, <3>1, MomentsTyped DEF IInv, Sound, InOrder
    <3> QED BY <3>2, <3>3, <1>3, <1>4, LimitsAssumption
  <2>4. /\ q.path = path /\ q.at = now /\ q.retry = RetryAfter(b)
        /\ q.after = n /\ q.full = Len(b)
    OBVIOUS
  <2>5. n \in 0..n /\ n >= Limit(path)
    BY <1>1, <1>2, <1>4
  <2> HIDE DEF q
  <2> QED BY <1>0, <1>2, <1>3, <1>4, <1>5, <2>1, <2>2, <2>3, <2>4, <2>5 DEF RefusalSound, Limit
<1>10. WindowHolds(c)'
  BY <1>2 DEF IInv, Sound, WindowHolds, Limit
<1>11. ASSUME NEW d \in Clients, d # c PROVE Sound(d)'
  BY <1>2, <1>3, <1>11, OtherClientsHold
<1> QED BY <1>6, <1>7, <1>8, <1>9, <1>10, <1>11 DEF IInv, Sound

LEMMA AdmitHolds ==
  ASSUME IInv, NEW c \in Clients, NEW path \in Paths, NEW k \in 0..Len(bucket[c]),
         Pruned(bucket[c], k), Admit(c, path, Left(bucket[c], k))
  PROVE  IInv'
<1> DEFINE b == Left(bucket[c], k)
           n == Len(admitted[c])
           e == [at |-> now, path |-> path]
<1>1. /\ b \in Seq(Nat) /\ Len(b) <= n
      /\ \A i \in 1..Len(b) : b[i] = admitted[c][n - Len(b) + i].at
      /\ \A i \in 1..(n - Len(b)) : now - admitted[c][i].at > Window
  BY PrunedIsLatest
<1>2. /\ Len(b) < Limit(path) /\ Limit(path) \in Nat \ {0}
      /\ bucket' = [bucket EXCEPT ![c] = Append(b, now)]
      /\ admitted' = [admitted EXCEPT ![c] = Append(admitted[c], e)]
      /\ now' = now /\ refusal' = refusal
  BY LimitsPositive DEF Admit
<1> HIDE DEF b
<1>3. /\ admitted \in [Clients -> Seq(Moment)] /\ admitted[c] \in Seq(Moment)
      /\ bucket \in [Clients -> Seq(Nat)] /\ now \in Nat
      /\ e \in Moment /\ e.at = now /\ e.path = path
  BY DEF IInv, Shaped, Moment
<1> HIDE DEF e
<1>4. n \in Nat /\ Len(b) \in Nat /\ Len(admitted[c]) = n
  BY <1>1, <1>3
<1> HIDE DEF n
<1>5. /\ bucket'[c] \in Seq(Nat) /\ Len(bucket'[c]) = Len(b) + 1
      /\ \A i \in 1..Len(b) : bucket'[c][i] = b[i]
      /\ bucket'[c][Len(b) + 1] = now
  <2>1. bucket'[c] = Append(b, now)
    BY <1>2, <1>3
  <2> QED BY <2>1, <1>1, <1>3, AppendProperties
<1>6. /\ admitted'[c] \in Seq(Moment) /\ Len(admitted'[c]) = n + 1
      /\ \A i \in 1..n : admitted'[c][i] = admitted[c][i]
      /\ admitted'[c][n + 1] = e
  <2>1. admitted'[c] = Append(admitted[c], e)
    BY <1>2, <1>3
  <2> QED BY <2>1, <1>3, <1>4, AppendProperties
<1>7. Shaped'
  BY <1>2, <1>3, <1>5, <1>6 DEF IInv, Shaped
<1>8. \A i \in 1..n : /\ admitted[c][i].at \in Nat /\ admitted[c][i].at <= now
                      /\ admitted[c][i].path \in Paths
  BY <1>4, MomentsTyped DEF IInv, Sound, InOrder
<1>9. InOrder(c)'
  <2> SUFFICES ASSUME NEW i \in 1..(n + 1), NEW j \in 1..(n + 1), i <= j
               PROVE  /\ admitted'[c][i].at <= admitted'[c][j].at
                      /\ admitted'[c][j].at <= now'
    BY <1>6 DEF InOrder
  <2>1. CASE j = n + 1
    BY <2>1, <1>2, <1>3, <1>4, <1>6, <1>8
  <2>2. CASE j # n + 1
    <3>1. i \in 1..n /\ j \in 1..n
      BY <2>2, <1>4
    <3> QED BY <3>1, <1>2, <1>4, <1>6 DEF IInv, Sound, InOrder
  <2> QED BY <2>1, <2>2
<1>10. BucketIsLatest(c)'
  <2>1. Forgotten(c)' = n - Len(b)
    BY <1>4, <1>5, <1>6 DEF Forgotten
  <2>2. n - Len(b) >= 0
    BY <1>1, <1>4
  <2>4. ASSUME NEW i \in 1..(n - Len(b)) PROVE now - admitted'[c][i].at > Window
    <3>1. i \in 1..n
      BY <1>4
    <3> QED BY <3>1, <1>1, <1>6
  <2>3. ASSUME NEW i \in 1..(Len(b) + 1)
        PROVE  bucket'[c][i] = admitted'[c][n - Len(b) + i].at
    <3>1. CASE i = Len(b) + 1
      <4>1. n - Len(b) + i = n + 1
        BY <3>1, <1>4
      <4> QED BY <3>1, <4>1, <1>3, <1>5, <1>6
    <3>2. CASE i # Len(b) + 1
      <4>1. i \in 1..Len(b) /\ n - Len(b) + i \in 1..n
        BY <3>2, <1>1, <1>4
      <4> QED BY <4>1, <1>1, <1>5, <1>6
    <3> QED BY <3>1, <3>2
  <2> QED BY <1>2, <1>5, <2>1, <2>2, <2>3, <2>4 DEF BucketIsLatest
<1>11. RefusalSound(c)'
  <2>1. CASE refusal[c] = NoRefusal
    BY <2>1, <1>2 DEF RefusalSound
  <2>2. CASE refusal[c] # NoRefusal
    <3> DEFINE r == refusal[c]
    <3>1. /\ r.path \in Paths /\ r.at \in Nat /\ r.retry \in Nat
          /\ r.after \in 0..n /\ r.after >= Limit(r.path)
          /\ r.at - admitted[c][r.after - Limit(r.path) + 1].at <= Window
      BY <2>2, <1>4 DEF IInv, Sound, RefusalSound
    <3>2. r.after - Limit(r.path) + 1 \in 1..n /\ r.after \in 0..(n + 1) /\ r.after # n + 1
      BY <3>1, <1>4, LimitsPositive
    <3>3. refusal'[c] = r
      BY <1>2
    <3> HIDE DEF r
    <3> QED BY <3>1, <3>2, <3>3, <1>6 DEF RefusalSound, Limit
  <2> QED BY <2>1, <2>2
<1>12. WindowHolds(c)'
  <2> SUFFICES ASSUME NEW i \in 1..(n + 1), i > Limit(admitted'[c][i].path)
               PROVE  admitted'[c][i].at
                        - admitted'[c][i - Limit(admitted'[c][i].path)].at > Window
    <3>1. DOMAIN admitted'[c] = 1..(n + 1)
      BY <1>4, <1>6
    <3> QED BY <3>1 DEF WindowHolds, Limit
  <2>1. CASE i = n + 1
    <3>1. admitted'[c][i].path = path /\ admitted'[c][i].at = now
      BY <2>1, <1>3, <1>6
    <3>2. i - Limit(path) \in 1..(n - Len(b)) /\ i - Limit(path) \in 1..n
      BY <2>1, <3>1, <1>2, <1>4
    <3> QED BY <3>1, <3>2, <1>1, <1>6
  <2>2. CASE i # n + 1
    <3>1. i \in 1..n
      BY <2>2, <1>4
    <3>2. admitted'[c][i] = admitted[c][i] /\ Limit(admitted[c][i].path) \in Nat \ {0}
      BY <3>1, <1>6, <1>8, LimitsPositive
    <3>3. i - Limit(admitted[c][i].path) \in 1..n
      BY <3>1, <3>2, <1>4
    <3>4. i \in DOMAIN admitted[c]
      BY <3>1, <1>3, <1>4
    <3>5. i > Limit(admitted[c][i].path) =>
            admitted[c][i].at - admitted[c][i - Limit(admitted[c][i].path)].at > Window
      BY <3>4 DEF IInv, Sound, WindowHolds
    <3> QED BY <3>1, <3>2, <3>3, <3>5, <1>6
  <2> QED BY <2>1, <2>2
<1>13. ASSUME NEW d \in Clients, d # c PROVE Sound(d)'
  BY <1>2, <1>3, <1>13, OtherClientsHold
<1> QED BY <1>7, <1>9, <1>10, <1>11, <1>12, <1>13 DEF IInv, Sound

LEMMA NextHolds == IInv /\ [Next]_vars => IInv'
<1> SUFFICES ASSUME IInv, [Next]_vars PROVE IInv'
  OBVIOUS
<1>1. ASSUME NEW c \in Clients, NEW path \in Paths, Dispatch(c, path)
      PROVE  IInv'
  BY <1>1, RefuseHolds, AdmitHolds DEF Dispatch
<1>2. CASE UNCHANGED vars
  <2>1. Shaped'
    BY <1>2 DEF IInv, Shaped, vars
  <2>2. ASSUME NEW d \in Clients PROVE Sound(d)'
    BY <1>2, OtherClientsHold DEF vars
  <2> QED BY <2>1, <2>2 DEF IInv
<1> QED BY <1>1, <1>2, TickHolds DEF Next

LEMMA Invariance == Spec => []IInv
BY InitHolds, NextHolds, PTL DEF Spec

-----------------------------------------------------------------------------
(* However a client spaces its requests and mixes its paths: in the window  *)
(* that ends with an admitted request no more than the limit of its path    *)
(* was admitted, though the bucket forgets (security.py, dispatch).         *)
THEOREM NoMoreThanTheLimit == Spec => []WindowBound
<1>1. IInv => WindowBound
  BY DEF IInv, Sound, WindowBound
<1> QED BY <1>1, Invariance, PTL

(* A client is refused for its own requests of the last window only.        *)
THEOREM RefusalsAreJust == Spec => []RefusedOnlyAtLimit
<1>1. IInv => RefusedOnlyAtLimit
  BY DEF IInv, Sound, RefusalSound, RefusedOnlyAtLimit, RefusalJust
<1> QED BY <1>1, Invariance, PTL

(* The loop that pops the oldest instants always comes to an end.           *)
LEMMA SomeArePruned ==
  ASSUME NEW b \in Seq(Nat), now \in Nat
  PROVE  \E k \in 0..Len(b) : Pruned(b, k)
<1> DEFINE S == {k \in 0..Len(b) : k < Len(b) => now - b[k + 1] <= Window}
<1>1. Len(b) \in Nat /\ Len(b) \in S /\ S \subseteq Nat
  OBVIOUS
<1>2. PICK k \in S : \A i \in S : k <= i
  BY <1>1, LeastNat
<1>3. k \in 0..Len(b) /\ k \in Nat /\ (k < Len(b) => now - b[k + 1] <= Window)
  BY <1>2
<1>4. ASSUME NEW i \in 1..k PROVE now - b[i] > Window
  <2>1. i - 1 \in 0..Len(b) /\ i - 1 < k /\ i - 1 < Len(b) /\ (i - 1) + 1 = i
    BY <1>1, <1>3
  <2>2. i - 1 \notin S
    BY <1>2, <1>3, <2>1
  <2>3. b[i] \in Nat
    BY <2>1, <1>1
  <2> QED BY <2>1, <2>2, <2>3, LimitsAssumption
<1> QED BY <1>3, <1>4 DEF Pruned

(* Who waits a second longer than Retry-After says, finds room; for every   *)
(* second and window, however the division rounds.                          *)
THEOREM WaitingHelps == Spec => []RetryIsEnough
<1>1. IInv => RetryIsEnough
  <2> SUFFICES ASSUME IInv, NEW c \in Clients, Waited(c)
               PROVE  \E k \in 0..Len(bucket[c]) :
                        Pruned(bucket[c], k)
                          /\ Len(Left(bucket[c], k)) < Limit(refusal[c].path)
    BY DEF RetryIsEnough
  <2> DEFINE b == bucket[c]
             r == refusal[c]
  <2>1. b \in Seq(Nat) /\ now \in Nat
    BY DEF IInv, Shaped
  <2>2. /\ r.at \in Nat /\ r.retry \in Nat /\ Len(b) = r.full /\ r.full > 0
        /\ (r.retry + 1) * Second > Window - (r.at - b[1])
        /\ r.full = Limit(r.path) /\ now >= r.at + (r.retry + 1) * Second
    BY DEF IInv, Sound, RefusalSound, Waited
  <2>3. PICK k \in 0..Len(b) : Pruned(b, k)
    BY <2>1, SomeArePruned
  <2>4. Len(Left(b, k)) = Len(b) - k
    BY <2>1, LeftIs
  <2> HIDE DEF b, r
  <2>5. Len(b) \in Nat /\ Len(b) > 0 /\ b[1] \in Nat
    BY <2>1, <2>2
  <2>6. (r.retry + 1) * Second \in Int /\ Window \in Int
    BY <2>2, LimitsAssumption
  <2>7. now - b[1] > Window
    BY <2>1, <2>2, <2>5, <2>6
  <2>8. k # 0
    BY <2>3, <2>5, <2>7, <2>1, LimitsAssumption DEF Pruned
  <2>9. Len(Left(b, k)) < Limit(r.path)
    BY <2>2, <2>4, <2>5, <2>8
  <2> QED BY <2>3, <2>9 DEF b, r
<1> QED BY <1>1, Invariance, PTL

=============================================================================
