--------------------------- MODULE VaultFile_proofs ---------------------------
(***************************************************************************)
(* Theorems about VaultFile, for every set of threads, names and values,   *)
(* every set of faults and any number of rotations, kills and torn writes. *)
(***************************************************************************)
EXTENDS VaultFile, TLAPS

-----------------------------------------------------------------------------
(* The inductive invariant.                                                 *)

(* A call has a name and an operation, and only a running process has one.  *)
CallsSound ==
  \A t \in Threads : calls[t].at # "idle" =>
    /\ up
    /\ calls[t].op # "none"
    /\ calls[t].name \in Names

(* What a call is about to write is the file as it is, but for one name.    *)
DataIsCurrent ==
  \A t \in Threads : calls[t].at = "open" =>
    calls[t].data = IF calls[t].op = "rotate" THEN Content
                    ELSE [Content EXCEPT ![calls[t].name] = calls[t].value]

(* Before the first process there is no file; until a write is torn the     *)
(* file is only empty while somebody writes it.                             *)
FileSound ==
  /\ file.state = "missing" => ~up /\ env = trusted
  /\ losses = 0 => file.state # "part"
  /\ losses = 0 /\ file.state = "empty" =>
       lock # NoThread /\ calls[lock].at = "write"

(* Who is about to write without rotating has read under the key in use.    *)
WritesTrusted ==
  losses = 0 =>
    \A t \in Threads :
      calls[t].at \in {"open", "write"} /\ calls[t].op # "rotate" => master = trusted

(* ReadableUnlessShut, while a call is under way.                           *)
ReadableMeanwhile ==
  up /\ file.state = "whole" /\ ~shut =>
    \/ file.key = master
    \/ \E t \in Threads : calls[t].at \in {"open", "write"} /\ calls[t].op = "rotate"

IInv ==
  /\ TypeOK /\ CallsSound /\ DataIsCurrent
  /\ FileSound /\ WritesTrusted /\ ReadableMeanwhile /\ OpensWithTrustedKey

-----------------------------------------------------------------------------
(* Type correctness.                                                        *)

Datum == [Names -> Values \cup {NoValue}]

LEMMA ConstantsTyped ==
  /\ Empty \in Datum
  /\ Idle \in CallType /\ Idle.at = "idle"
  /\ \A t \in Threads : t # NoThread
BY VaultAssumption DEF Empty, Idle, CallType, Datum

LEMMA ContentTyped == TypeOK => Content \in Datum
BY ConstantsTyped DEF TypeOK, Content, Datum

(* What the two ways to go on with a call do to the calls and to the lock.  *)
LEMMA GoesTyped ==
  ASSUME TypeOK, NEW t \in Threads, calls[t].at # "idle",
         NEW at \in {"read", "open", "write"}, NEW data \in Datum, Goes(t, at, data)
  PROVE  /\ calls' \in [Threads -> CallType]
         /\ \A s \in Threads : calls'[s].at # "idle" <=> lock = s
         /\ calls'[t].at = at /\ calls'[t].data = data
         /\ calls'[t].op = calls[t].op /\ calls'[t].name = calls[t].name
         /\ calls'[t].value = calls[t].value
         /\ \A s \in Threads \ {t} : calls'[s] = calls[s] /\ calls[s].at = "idle"
<1> DEFINE new == [calls[t] EXCEPT !.at = at, !.data = data]
<1>1. calls \in [Threads -> CallType] /\ \A s \in Threads : calls[s].at # "idle" <=> lock = s
  BY DEF TypeOK
<1>2. /\ new \in CallType /\ new.at = at /\ new.data = data /\ new.op = calls[t].op
      /\ new.name = calls[t].name /\ new.value = calls[t].value
  BY <1>1 DEF CallType, Datum
<1>3. calls' = [calls EXCEPT ![t] = new]
  BY <1>1 DEF Goes
<1> HIDE DEF new
<1> QED BY <1>1, <1>2, <1>3

LEMMA LeavesTyped ==
  ASSUME TypeOK, NEW t \in Threads, calls[t].at # "idle", Leaves(t)
  PROVE  /\ calls' \in [Threads -> CallType]
         /\ lock' = NoThread
         /\ \A s \in Threads : calls'[s].at = "idle" /\ lock' # s
BY ConstantsTyped DEF TypeOK, Leaves

LEMMA CallTyped ==
  ASSUME TypeOK, NEW t \in Threads, NEW op \in {"get", "set", "delete", "rotate"},
         NEW n \in Names, NEW v \in Values \cup {NoValue}, Call(t, op, n, v)
  PROVE  /\ calls' \in [Threads -> CallType]
         /\ lock' = t
         /\ \A s \in Threads : calls'[s].at # "idle" <=> lock' = s
         /\ calls'[t].at = "read" /\ calls'[t].op = op /\ calls'[t].name = n
         /\ \A s \in Threads \ {t} : calls'[s] = calls[s] /\ calls[s].at = "idle"
BY ConstantsTyped DEF TypeOK, Call, CallType, Datum

LEMMA InitTyped == Init => TypeOK
<1> SUFFICES ASSUME Init PROVE TypeOK
  OBVIOUS
<1>1. /\ calls \in [Threads -> CallType]
      /\ \A t \in Threads : calls[t].at # "idle" <=> lock = t
  BY ConstantsTyped DEF Init
<1>2. up \in BOOLEAN /\ shut \in BOOLEAN
  BY DEF Init
<1>3. file \in [state : {"missing", "whole", "empty", "part"}, key : Nat, data : Datum]
  BY ConstantsTyped DEF Init
<1> QED BY <1>1, <1>2, <1>3 DEF Init, TypeOK, Datum

LEMMA NextTyped == TypeOK /\ CallsSound /\ [Next]_vars => TypeOK'
<1> SUFFICES ASSUME TypeOK, CallsSound, [Next]_vars PROVE TypeOK'
  OBVIOUS
<1> USE DEF history
<1>1. CASE Start
  BY <1>1, ConstantsTyped DEF Start, TypeOK, Datum
<1>2. CASE Kill
  <2>1. /\ calls' \in [Threads -> CallType]
        /\ \A t \in Threads : calls'[t].at # "idle" <=> lock' = t
    BY <1>2, ConstantsTyped DEF Kill
  <2>2. up' \in BOOLEAN
    BY <1>2 DEF Kill
  <2> QED BY <1>2, <2>1, <2>2 DEF Kill, TypeOK
<1>3. CASE Configure
  BY <1>3 DEF Configure, TypeOK
<1>4. ASSUME NEW t \in Threads, NEW n \in Names, NEW v \in Values \cup {NoValue},
             NEW op \in {"get", "set", "delete", "rotate"}, Call(t, op, n, v)
      PROVE  TypeOK'
  BY <1>4, CallTyped DEF Call, TypeOK
<1>5. ASSUME NEW t \in Threads, ReadRaises(t) PROVE TypeOK'
  BY <1>5, LeavesTyped DEF ReadRaises, TypeOK
<1>6. ASSUME NEW t \in Threads, ReadFor(t) PROVE TypeOK'
  <2>1. CASE Leaves(t)
    BY <1>6, <2>1, LeavesTyped DEF ReadFor, TypeOK
  <2>2. CASE ~Leaves(t)
    <3> DEFINE data == [Content EXCEPT ![calls[t].name] = calls[t].value]
    <3>1. data \in Datum
      BY ContentTyped DEF TypeOK, CallType, Datum
    <3>2. Goes(t, "open", data) /\ UNCHANGED lock
      BY <1>6, <2>2 DEF ReadFor
    <3> QED BY <1>6, <3>1, <3>2, GoesTyped DEF ReadFor, TypeOK
  <2> QED BY <2>1, <2>2
<1>7. ASSUME NEW t \in Threads, Get(t) PROVE TypeOK'
  <2>1. answer' \in [Threads -> Values \cup {NoValue}]
    <3>1. calls[t].name \in Names
      BY <1>7 DEF Get, CallsSound
    <3> QED BY <1>7, <3>1, ContentTyped DEF Get, TypeOK, Datum
  <2> QED BY <1>7, <2>1, LeavesTyped DEF Get, TypeOK
<1>8. ASSUME NEW t \in Threads, Rotate(t) PROVE TypeOK'
  BY <1>8, ContentTyped, GoesTyped DEF Rotate, TypeOK
<1>9. ASSUME NEW t \in Threads, Open(t) PROVE TypeOK'
  <2>1. calls[t].data \in Datum
    BY DEF TypeOK, CallType, Datum
  <2> QED BY <1>9, <2>1, GoesTyped DEF Open, TypeOK
<1>10. ASSUME NEW t \in Threads, OpenRaises(t) PROVE TypeOK'
  BY <1>10, LeavesTyped DEF OpenRaises, TypeOK
<1>11. ASSUME NEW t \in Threads, Write(t) PROVE TypeOK'
  <2>1. file' \in [state : {"missing", "whole", "empty", "part"}, key : Nat, data : Datum]
    BY <1>11 DEF Write, TypeOK, CallType, Datum
  <2> QED BY <1>11, <2>1, LeavesTyped DEF Write, Returns, TypeOK, Datum
<1>12. ASSUME NEW t \in Threads, Tear(t) PROVE TypeOK'
  <2>1. CASE Leaves(t) /\ UNCHANGED <<up, kills>>
    BY <1>12, <2>1, LeavesTyped DEF Tear, TypeOK
  <2>2. CASE ~(Leaves(t) /\ UNCHANGED <<up, kills>>)
    <3>1. /\ calls' \in [Threads -> CallType]
          /\ \A s \in Threads : calls'[s].at # "idle" <=> lock' = s
      BY <1>12, <2>2, ConstantsTyped DEF Tear
    <3>2. up' \in BOOLEAN /\ lock' = NoThread /\ kills' = kills + 1
      BY <1>12, <2>2 DEF Tear
    <3>3. file' \in [state : {"missing", "whole", "empty", "part"}, key : Nat, data : Datum]
      BY <1>12 DEF Tear, TypeOK, Datum
    <3> QED BY <1>12, <3>1, <3>2, <3>3 DEF Tear, TypeOK, Datum
  <2> QED BY <2>1, <2>2
<1>13. CASE UNCHANGED vars
  BY <1>13 DEF vars, TypeOK
<1> QED
  BY <1>1, <1>2, <1>3, <1>4, <1>5, <1>6, <1>7, <1>8, <1>9, <1>10, <1>11, <1>12, <1>13 DEF Next

-----------------------------------------------------------------------------
(* The inductive step, by what happens to the calls.                        *)

Sound ==
  /\ CallsSound /\ DataIsCurrent /\ FileSound
  /\ WritesTrusted /\ ReadableMeanwhile /\ OpensWithTrustedKey

LEMMA InitSound == Init => Sound
BY ConstantsTyped DEF Init, Sound, CallsSound, DataIsCurrent, FileSound, WritesTrusted,
                      ReadableMeanwhile, OpensWithTrustedKey

(* A call that ends without having touched the file.                        *)
LEMMA EndedSound ==
  ASSUME IInv, NEW t \in Threads, calls[t].at \in {"read", "open"}, Leaves(t),
         UNCHANGED <<file, master, up, env, trusted, losses>>,
         \/ UNCHANGED shut /\ calls[t].at = "read"
         \/ shut' = (shut \/ calls[t].op = "rotate")
  PROVE  Sound'
<1> USE DEF IInv
<1>1. /\ \A s \in Threads : calls'[s].at = "idle"
      /\ \A s \in Threads \ {t} : calls[s].at = "idle"
      /\ lock = t
  BY LeavesTyped DEF TypeOK
<1>2. CallsSound' /\ DataIsCurrent' /\ WritesTrusted'
  BY <1>1 DEF CallsSound, DataIsCurrent, WritesTrusted
<1>3. FileSound' /\ OpensWithTrustedKey'
  BY <1>1 DEF FileSound, OpensWithTrustedKey
<1>4. ReadableMeanwhile'
  BY <1>1 DEF ReadableMeanwhile
<1> QED BY <1>2, <1>3, <1>4 DEF Sound

(* Nobody is in a call afterwards, and the file is left.                    *)
LEMMA LifecycleSound ==
  ASSUME IInv, Start \/ Kill \/ Configure
  PROVE  Sound'
<1> USE DEF IInv, history
<1>1. CASE Start
  <2>1. \A t \in Threads : calls[t].at = "idle" /\ calls'[t].at = "idle"
    BY <1>1 DEF Start, CallsSound
  <2>2. lock = NoThread /\ lock' = NoThread
    BY <1>1, <2>1 DEF Start, TypeOK
  <2>3. /\ file'.state = IF file.state = "missing" THEN "whole" ELSE file.state
        /\ file'.key = IF file.state = "missing" THEN env ELSE file.key
    BY <1>1 DEF Start
  <2>4. CallsSound' /\ DataIsCurrent' /\ WritesTrusted'
    BY <2>1 DEF CallsSound, DataIsCurrent, WritesTrusted
  <2>5. FileSound' /\ OpensWithTrustedKey' /\ ReadableMeanwhile'
    BY <1>1, <2>2, <2>3 DEF Start, FileSound, OpensWithTrustedKey, ReadableMeanwhile
  <2> QED BY <2>4, <2>5 DEF Sound
<1>2. CASE Kill
  <2>1. \A t \in Threads : calls'[t].at = "idle"
    BY <1>2, ConstantsTyped DEF Kill
  <2>2. ~(lock # NoThread /\ calls[lock].at = "write")
    BY <1>2 DEF Kill, TypeOK
  <2>3. CallsSound' /\ DataIsCurrent' /\ WritesTrusted'
    BY <2>1 DEF CallsSound, DataIsCurrent, WritesTrusted
  <2>4. FileSound' /\ OpensWithTrustedKey' /\ ReadableMeanwhile'
    BY <1>2, <2>2 DEF Kill, FileSound, OpensWithTrustedKey, ReadableMeanwhile
  <2> QED BY <2>3, <2>4 DEF Sound
<1>3. CASE Configure
  <2>1. CallsSound' /\ DataIsCurrent' /\ WritesTrusted'
    BY <1>3 DEF Configure, CallsSound, DataIsCurrent, WritesTrusted, Content
  <2>2. FileSound' /\ OpensWithTrustedKey' /\ ReadableMeanwhile'
    BY <1>3 DEF Configure, FileSound, OpensWithTrustedKey, ReadableMeanwhile
  <2> QED BY <2>1, <2>2 DEF Sound
<1> QED BY <1>1, <1>2, <1>3

LEMMA CallSound ==
  ASSUME IInv, NEW t \in Threads, NEW op \in {"get", "set", "delete", "rotate"},
         NEW n \in Names, NEW v \in Values \cup {NoValue}, Call(t, op, n, v)
  PROVE  Sound'
<1> USE DEF IInv, history
<1>1. /\ lock = NoThread /\ UNCHANGED <<file, master, up, env, history>> /\ up
      /\ \A s \in Threads : calls[s].at = "idle"
  BY ConstantsTyped DEF Call, TypeOK
<1>2. /\ calls'[t].at = "read" /\ calls'[t].op = op /\ calls'[t].name = n
      /\ \A s \in Threads \ {t} : calls'[s].at = "idle"
  BY <1>1, CallTyped
<1>3. CallsSound' /\ DataIsCurrent' /\ WritesTrusted'
  BY <1>1, <1>2 DEF CallsSound, DataIsCurrent, WritesTrusted
<1>4. FileSound' /\ OpensWithTrustedKey' /\ ReadableMeanwhile'
  BY <1>1, <1>2 DEF FileSound, OpensWithTrustedKey, ReadableMeanwhile
<1> QED BY <1>3, <1>4 DEF Sound

(* A call that has read the file goes on to write it.                       *)
LEMMA ReadForSound ==
  ASSUME IInv, NEW t \in Threads, ReadFor(t)
  PROVE  Sound'
<1> USE DEF IInv, history
<1>1. CASE Leaves(t)
  BY <1>1, EndedSound DEF ReadFor
<1>2. CASE ~Leaves(t)
  <2> DEFINE data == [Content EXCEPT ![calls[t].name] = calls[t].value]
  <2>1. /\ calls[t].at = "read" /\ calls[t].op \in {"set", "delete"} /\ Readable
        /\ Goes(t, "open", data)
        /\ UNCHANGED <<file, master, lock, up, env, trusted, shut, losses>>
    BY <1>2 DEF ReadFor
  <2>2. data \in Datum
    BY ContentTyped DEF TypeOK, CallType, Datum
  <2>3. /\ calls'[t].at = "open" /\ calls'[t].data = data /\ calls'[t].op = calls[t].op
        /\ calls'[t].name = calls[t].name /\ calls'[t].value = calls[t].value
        /\ \A s \in Threads \ {t} : calls'[s].at = "idle"
    BY <2>1, <2>2, GoesTyped
  <2>4. lock = t /\ up /\ UNCHANGED Content
    BY <2>1 DEF TypeOK, CallsSound, Content
  <2>5. CallsSound' /\ DataIsCurrent'
    BY <2>1, <2>3, <2>4 DEF CallsSound, DataIsCurrent
  <2>6. FileSound' /\ OpensWithTrustedKey' /\ ReadableMeanwhile'
    BY <2>1, <2>3, <2>4 DEF FileSound, OpensWithTrustedKey, ReadableMeanwhile, TypeOK
  <2>7. losses = 0 => master = trusted
    BY <2>1, <2>4 DEF FileSound, OpensWithTrustedKey, Readable
  <2>8. WritesTrusted'
    BY <2>1, <2>7 DEF WritesTrusted
  <2> QED BY <2>5, <2>6, <2>8 DEF Sound
<1> QED BY <1>1, <1>2

LEMMA RotateSound ==
  ASSUME IInv, NEW t \in Threads, Rotate(t)
  PROVE  Sound'
<1> USE DEF IInv
<1>1. /\ calls[t].at = "read" /\ calls[t].op = "rotate"
      /\ Goes(t, "open", Content)
      /\ UNCHANGED <<file, lock, up, env, trusted, shut, losses>>
  BY DEF Rotate
<1>2. /\ calls'[t].at = "open" /\ calls'[t].data = Content /\ calls'[t].op = "rotate"
      /\ calls'[t].name = calls[t].name
      /\ \A s \in Threads \ {t} : calls'[s].at = "idle"
  BY <1>1, GoesTyped, ContentTyped
<1>3. lock = t /\ up /\ UNCHANGED Content
  BY <1>1 DEF TypeOK, CallsSound, Content
<1>4. CallsSound' /\ DataIsCurrent' /\ WritesTrusted'
  BY <1>1, <1>2, <1>3 DEF CallsSound, DataIsCurrent, WritesTrusted
<1>5. FileSound' /\ OpensWithTrustedKey' /\ ReadableMeanwhile'
  BY <1>1, <1>2, <1>3 DEF FileSound, OpensWithTrustedKey, ReadableMeanwhile
<1> QED BY <1>4, <1>5 DEF Sound

LEMMA OpenSound ==
  ASSUME IInv, NEW t \in Threads, Open(t)
  PROVE  Sound'
<1> USE DEF IInv, history
<1>1. /\ calls[t].at = "open"
      /\ Goes(t, "write", calls[t].data)
      /\ file'.state = "empty"
      /\ UNCHANGED <<master, lock, up, env, trusted, shut, losses>>
  BY DEF Open, TypeOK
<1>2. calls[t].data \in Datum
  BY DEF TypeOK, CallType, Datum
<1>3. /\ calls'[t].at = "write" /\ calls'[t].op = calls[t].op
      /\ calls'[t].name = calls[t].name
      /\ \A s \in Threads \ {t} : calls'[s].at = "idle"
  BY <1>1, <1>2, GoesTyped
<1>4. lock = t /\ t # NoThread
  BY <1>1, ConstantsTyped DEF TypeOK
<1>5. CallsSound' /\ DataIsCurrent'
  BY <1>1, <1>3 DEF CallsSound, DataIsCurrent
<1>6. WritesTrusted'
  BY <1>1, <1>3 DEF WritesTrusted
<1>7. FileSound' /\ OpensWithTrustedKey' /\ ReadableMeanwhile'
  BY <1>1, <1>3, <1>4 DEF FileSound, OpensWithTrustedKey, ReadableMeanwhile
<1> QED BY <1>5, <1>6, <1>7 DEF Sound

LEMMA WriteSound ==
  ASSUME IInv, NEW t \in Threads, Write(t)
  PROVE  Sound'
<1> USE DEF IInv
<1>1. /\ calls[t].at = "write" /\ Leaves(t)
      /\ trusted' = IF calls[t].op = "rotate" THEN master ELSE trusted
      /\ file'.state = "whole" /\ file'.key = master
      /\ UNCHANGED <<master, up, env, shut, losses>>
  BY DEF Write, Returns
<1>2. \A s \in Threads : calls'[s].at = "idle"
  BY <1>1, LeavesTyped
<1>3. CallsSound' /\ DataIsCurrent' /\ WritesTrusted'
  BY <1>2 DEF CallsSound, DataIsCurrent, WritesTrusted
<1>4. losses = 0 => master = trusted'
  BY <1>1 DEF WritesTrusted
<1>5. FileSound' /\ OpensWithTrustedKey' /\ ReadableMeanwhile'
  BY <1>1, <1>4 DEF FileSound, OpensWithTrustedKey, ReadableMeanwhile
<1> QED BY <1>3, <1>5 DEF Sound

LEMMA TearSound ==
  ASSUME IInv, NEW t \in Threads, Tear(t)
  PROVE  Sound'
<1> USE DEF IInv
<1>1. /\ calls[t].at = "write"
      /\ file'.state \in {"empty", "part"}
      /\ losses' = losses + 1 /\ losses \in Nat
  BY DEF Tear, TypeOK
<1>2. \A s \in Threads : calls'[s].at = "idle"
  <2>1. CASE Leaves(t)
    BY <1>1, <2>1, LeavesTyped
  <2>2. CASE ~Leaves(t)
    BY <2>2, ConstantsTyped DEF Tear
  <2> QED BY <2>1, <2>2
<1>3. CallsSound' /\ DataIsCurrent' /\ WritesTrusted'
  BY <1>2 DEF CallsSound, DataIsCurrent, WritesTrusted
<1>4. FileSound' /\ OpensWithTrustedKey' /\ ReadableMeanwhile'
  BY <1>1 DEF FileSound, OpensWithTrustedKey, ReadableMeanwhile
<1> QED BY <1>3, <1>4 DEF Sound

LEMMA NextSound == IInv /\ [Next]_vars => IInv'
<1> SUFFICES ASSUME IInv, [Next]_vars PROVE Sound'
  BY NextTyped DEF IInv, Sound
<1> USE DEF history
<1>1. CASE Start \/ Kill \/ Configure
  BY <1>1, LifecycleSound
<1>2. ASSUME NEW t \in Threads, NEW n \in Names, NEW v \in Values \cup {NoValue},
             NEW op \in {"get", "set", "delete", "rotate"}, Call(t, op, n, v)
      PROVE  Sound'
  BY <1>2, CallSound
<1>3. ASSUME NEW t \in Threads, ReadRaises(t) PROVE Sound'
  BY <1>3, EndedSound DEF ReadRaises
<1>4. ASSUME NEW t \in Threads, Get(t) PROVE Sound'
  BY <1>4, EndedSound DEF Get
<1>5. ASSUME NEW t \in Threads, OpenRaises(t) PROVE Sound'
  BY <1>5, EndedSound DEF OpenRaises
<1>6. ASSUME NEW t \in Threads, ReadFor(t) \/ Rotate(t) \/ Open(t) \/ Write(t) \/ Tear(t)
      PROVE  Sound'
  BY <1>6, ReadForSound, RotateSound, OpenSound, WriteSound, TearSound
<1>7. CASE UNCHANGED vars
  BY <1>7 DEF vars, IInv, Sound, CallsSound, DataIsCurrent, FileSound, WritesTrusted,
              ReadableMeanwhile, OpensWithTrustedKey, Content
<1> QED BY <1>1, <1>2, <1>3, <1>4, <1>5, <1>6, <1>7 DEF Next

LEMMA Inductive == Spec => []IInv
<1>1. Init => IInv
  BY InitTyped, InitSound DEF IInv, Sound
<1> QED BY <1>1, NextSound, PTL DEF Spec

(* Every variable keeps its shape, and a call is under way exactly while    *)
(* its thread has the lock (vault.py, with self._lock).                     *)
THEOREM TypeCorrect == Spec => []TypeOK
<1>1. IInv => TypeOK
  BY DEF IInv
<1> QED BY <1>1, Inductive, PTL

(* For any number of rotations, raising or not, kills and starts with       *)
(* whatever key: until a write is torn the file opens with the key of the   *)
(* last rotation that returned, and a process that has not failed to rotate *)
(* and was started with the file's key can read it (vault.py:96).           *)
THEOREM FileOpensWithTrustedKey == Spec => []KeysAgree
<1>1. IInv => KeysAgree
  <2> SUFFICES ASSUME IInv PROVE ReadableUnlessShut
    BY DEF KeysAgree, IInv
  <2>1. lock = NoThread => \A t \in Threads : calls[t].at = "idle"
    BY ConstantsTyped DEF IInv, TypeOK
  <2> QED BY <2>1 DEF IInv, ReadableMeanwhile, ReadableUnlessShut
<1> QED BY <1>1, Inductive, PTL

-----------------------------------------------------------------------------
(* The refinement.  What VaultMap calls the map.                            *)

TheMap == IF lock # NoThread /\ calls[lock].at = "write" THEN calls[lock].data ELSE Content

abstract == <<TheMap, answer, losses>>

LEMMA AbstractSpec == Map!Spec <=> Map!Init /\ [][Map!Next]_abstract
BY DEF Map!Spec, Map!Init, Map!Next, Map!Set, Map!Get, Map!Lose, TheMap, abstract, Empty

LEMMA AbstractSteps ==
  /\ Map!Init <=>
       TheMap = Empty /\ answer = [t \in Threads |-> NoValue] /\ losses = 0
  /\ TheMap' = Empty /\ losses' = losses + 1 /\ UNCHANGED answer => Map!Next
  /\ \A n \in Names, v \in Values \cup {NoValue} :
       TheMap' = [TheMap EXCEPT ![n] = v] /\ UNCHANGED <<answer, losses>> => Map!Next
  /\ \A t \in Threads, n \in Names :
       answer' = [answer EXCEPT ![t] = TheMap[n]] /\ UNCHANGED <<TheMap, losses>> => Map!Next
BY DEF Map!Init, Map!Next, Map!Set, Map!Get, Map!Lose, TheMap, Empty

(* Outside a write the map is what the file holds.                          *)
LEMMA MapIsContent ==
  ASSUME NEW t \in Threads \cup {NoThread}, lock = t,
         t = NoThread \/ calls[t].at # "write"
  PROVE  TheMap = Content
BY DEF TheMap

LEMMA MapIsContentNext ==
  ASSUME lock' = NoThread
  PROVE  TheMap' = Content'
BY DEF TheMap, Content

(* A step that leaves the file alone and nobody in a write.                 *)
LEMMA StepReads ==
  ASSUME IInv, NEW t \in Threads, calls[t].at \in {"read", "open"},
         \/ Leaves(t)
         \/ (\E data \in Datum : Goes(t, "open", data)) /\ UNCHANGED lock,
         UNCHANGED file
  PROVE  TheMap = Content /\ UNCHANGED TheMap
<1> USE DEF IInv
<1>1. lock = t /\ t # NoThread
  BY ConstantsTyped DEF TypeOK
<1>2. TheMap = Content
  BY <1>1, MapIsContent
<1>3. UNCHANGED Content
  BY DEF Content
<1>4. CASE Leaves(t)
  BY <1>2, <1>3, <1>4, MapIsContentNext, LeavesTyped
<1>5. ASSUME NEW data \in Datum, Goes(t, "open", data), UNCHANGED lock
      PROVE  UNCHANGED TheMap
  <2>1. calls'[t].at = "open" /\ lock' = t
    BY <1>1, <1>5, GoesTyped
  <2> QED BY <1>2, <1>3, <2>1 DEF TheMap, Content
<1> QED BY <1>2, <1>4, <1>5

LEMMA LifecycleMap ==
  ASSUME IInv, Start \/ Kill \/ Configure
  PROVE  UNCHANGED abstract
<1> USE DEF IInv, history, abstract
<1>1. CASE Start
  <2>1. lock = NoThread /\ lock' = NoThread
    BY <1>1 DEF Start, CallsSound, TypeOK
  <2>2. Content' = Content
    BY <1>1 DEF Start, Content
  <2> QED BY <1>1, <2>1, <2>2, MapIsContent, MapIsContentNext DEF Start
<1>2. CASE Kill
  <2>1. TheMap = Content
    BY <1>2, MapIsContent DEF Kill, TypeOK
  <2>2. Content' = Content /\ lock' = NoThread
    BY <1>2 DEF Kill, Content
  <2> QED BY <1>2, <2>1, <2>2, MapIsContentNext DEF Kill
<1>3. CASE Configure
  BY <1>3 DEF Configure, TheMap, Content
<1> QED BY <1>1, <1>2, <1>3

LEMMA CallMap ==
  ASSUME IInv, NEW t \in Threads, NEW op \in {"get", "set", "delete", "rotate"},
         NEW n \in Names, NEW v \in Values \cup {NoValue}, Call(t, op, n, v)
  PROVE  UNCHANGED abstract
<1> USE DEF IInv, history, abstract
<1>1. calls'[t].at = "read" /\ lock' = t
  BY CallTyped
<1>2. TheMap = Content
  BY MapIsContent DEF Call
<1>3. Content' = Content /\ TheMap' = Content'
  BY <1>1 DEF Call, TheMap, Content
<1> QED BY <1>2, <1>3 DEF Call

(* The change takes effect when the file is opened: from then on the map is *)
(* what is being written.                                                   *)
LEMMA OpenMap ==
  ASSUME IInv, NEW t \in Threads, Open(t)
  PROVE  Map!Next \/ UNCHANGED abstract
<1> USE DEF IInv, history
<1>1. calls[t].at = "open" /\ lock = t /\ t # NoThread /\ calls[t].data \in Datum
  BY ConstantsTyped DEF Open, TypeOK, CallType, Datum
<1>2. TheMap = Content
  BY <1>1, MapIsContent
<1>3. calls'[t].at = "write" /\ calls'[t].data = calls[t].data
  BY <1>1, GoesTyped DEF Open
<1>4. TheMap' = calls[t].data
  BY <1>1, <1>3 DEF Open, TheMap
<1>5. UNCHANGED <<answer, losses>>
  BY DEF Open
<1>6. CASE calls[t].op = "rotate"
  BY <1>1, <1>2, <1>4, <1>5, <1>6 DEF DataIsCurrent, abstract
<1>7. CASE calls[t].op # "rotate"
  <2>1. calls[t].name \in Names /\ calls[t].value \in Values \cup {NoValue}
    BY <1>1 DEF CallsSound, TypeOK, CallType
  <2>2. TheMap' = [TheMap EXCEPT ![calls[t].name] = calls[t].value]
    BY <1>1, <1>2, <1>4, <1>7 DEF DataIsCurrent
  <2> QED BY <1>5, <2>1, <2>2, AbstractSteps
<1> QED BY <1>6, <1>7

LEMMA WriteMap ==
  ASSUME IInv, NEW t \in Threads, Write(t)
  PROVE  UNCHANGED abstract
<1> USE DEF IInv
<1>1. calls[t].at = "write" /\ lock = t /\ t # NoThread
  BY ConstantsTyped DEF Write, TypeOK
<1>2. lock' = NoThread
  BY <1>1, LeavesTyped DEF Write, Returns
<1>3. TheMap = calls[t].data
  BY <1>1 DEF TheMap
<1>4. Content' = calls[t].data
  BY DEF Write, Content
<1> QED BY <1>2, <1>3, <1>4, MapIsContentNext DEF Write, abstract

LEMMA TearMap ==
  ASSUME IInv, NEW t \in Threads, Tear(t)
  PROVE  Map!Next
<1> USE DEF IInv
<1>1. lock' = NoThread
  BY DEF Tear, Leaves
<1>2. Content' = Empty
  BY DEF Tear, Content, TypeOK
<1> QED BY <1>1, <1>2, AbstractSteps, MapIsContentNext DEF Tear

LEMMA StepMap == IInv /\ [Next]_vars => [Map!Next]_abstract
<1> SUFFICES ASSUME IInv, [Next]_vars PROVE Map!Next \/ UNCHANGED abstract
  OBVIOUS
<1> USE DEF IInv, history
<1>1. CASE Start \/ Kill \/ Configure
  BY <1>1, LifecycleMap
<1>2. ASSUME NEW t \in Threads, NEW n \in Names, NEW v \in Values \cup {NoValue},
             NEW op \in {"get", "set", "delete", "rotate"}, Call(t, op, n, v)
      PROVE  UNCHANGED abstract
  BY <1>2, CallMap
<1>3. ASSUME NEW t \in Threads, ReadRaises(t) \/ OpenRaises(t)
      PROVE  UNCHANGED abstract
  BY <1>3, StepReads DEF ReadRaises, OpenRaises, abstract
<1>4. ASSUME NEW t \in Threads, ReadFor(t) PROVE UNCHANGED abstract
  <2>1. [Content EXCEPT ![calls[t].name] = calls[t].value] \in Datum
    BY ContentTyped DEF TypeOK, CallType, Datum
  <2> QED BY <1>4, <2>1, StepReads DEF ReadFor, abstract
<1>5. ASSUME NEW t \in Threads, Get(t) PROVE Map!Next
  <2>1. calls[t].name \in Names
    BY <1>5 DEF Get, CallsSound
  <2>2. TheMap = Content /\ UNCHANGED TheMap
    BY <1>5, StepReads DEF Get
  <2> QED BY <1>5, <2>1, <2>2, AbstractSteps DEF Get
<1>6. ASSUME NEW t \in Threads, Rotate(t) PROVE UNCHANGED abstract
  BY <1>6, StepReads, ContentTyped DEF Rotate, abstract
<1>7. ASSUME NEW t \in Threads, Open(t) \/ Write(t) \/ Tear(t)
      PROVE  Map!Next \/ UNCHANGED abstract
  BY <1>7, OpenMap, WriteMap, TearMap
<1>8. CASE UNCHANGED vars
  BY <1>8 DEF vars, abstract, TheMap, Content
<1> QED BY <1>1, <1>2, <1>3, <1>4, <1>5, <1>6, <1>7, <1>8 DEF Next

(* LocalVault implements VaultMap: whatever the threads interleave, the     *)
(* keys that are rotated and the processes that are killed, each call       *)
(* changes its own name only, a get returns what the map holds, and only a  *)
(* torn write loses anything.                                               *)
THEOREM ImplementsVaultMap == Spec => KeepsMap
<1>1. Init => Map!Init
  BY AbstractSteps DEF Init, TheMap, Content, Empty
<1> QED BY <1>1, StepMap, Inductive, AbstractSpec, PTL DEF Spec, KeepsMap

=============================================================================
