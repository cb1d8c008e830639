------------------------------ MODULE VaultFile ------------------------------
(***************************************************************************)
(* backend/app/vault.py: one encrypted file that holds all names, read and *)
(* rewritten whole for each change under a thread lock (the application    *)
(* itself calls it from one thread, its event loop).  A call goes step     *)
(* by step - take the lock, read, open the file for writing (which empties *)
(* it), write - so that a kill or an error of the file system comes        *)
(* between.                                                                *)
(***************************************************************************)
EXTENDS Naturals, FiniteSets

CONSTANTS
  Threads,       \* callers
  Names,         \* keys of the JSON object
  Values,        \* what is stored
  NoValue,       \* a name that is not stored
  NoThread,      \* nobody has the lock
  Faults,        \* what may go wrong, out of FaultKinds
  MaxRotations,  \* bound on rotations of the master key
  MaxKills,      \* bound on kills
  MaxLosses      \* bound on torn writes

FaultKinds == {"raise",  \* the file cannot be opened for writing
               "kill",   \* the process is killed, but not in a write
               "tear"}   \* a write is cut short by a kill or a full disk

ASSUME VaultAssumption ==
  /\ NoValue \notin Values /\ NoThread \notin Threads
  /\ Faults \subseteq FaultKinds
  /\ MaxRotations \in Nat /\ MaxKills \in Nat /\ MaxLosses \in Nat

VARIABLES
  file,      \* the vault file
  master,    \* the key that self._fernet was derived from
  lock,      \* who has self._lock
  calls,     \* the call of each thread
  up,        \* whether a process runs
  env,       \* APP_ENCRYPTION_KEY of the next process
  answer,    \* history: what the last get of each thread returned
  rotated,   \* history: number of rotations begun
  trusted,   \* history: the key of the last rotation that returned
  shut,      \* history: this process has failed to rotate, or started with another key
  kills,     \* history: number of kills
  losses     \* history: number of torn writes

history == <<answer, rotated, trusted, shut, kills, losses>>
vars == <<file, master, lock, calls, up, env, history>>

Empty == [n \in Names |-> NoValue]
Idle == [at |-> "idle", op |-> "none", name |-> NoValue, value |-> NoValue, data |-> Empty]

(* Master keys are numbered in the order in which they come into use.       *)
Init ==
  /\ file = [state |-> "missing", key |-> 0, data |-> Empty]
  /\ master = 0 /\ lock = NoThread
  /\ calls = [t \in Threads |-> Idle]
  /\ up = FALSE /\ env = 0
  /\ answer = [t \in Threads |-> NoValue]
  /\ rotated = 0 /\ trusted = 0 /\ shut = FALSE /\ kills = 0 /\ losses = 0

(* LocalVault.__init__ and _ensure_storage: a missing file is written.      *)
Start ==
  /\ ~up
  /\ up' = TRUE /\ master' = env
  /\ file' = IF file.state = "missing"
             THEN [state |-> "whole", key |-> env, data |-> Empty] ELSE file
  /\ shut' = (file.state = "whole" /\ file.key # env)
  /\ UNCHANGED <<lock, calls, env, answer, rotated, trusted, kills, losses>>

Kill ==
  /\ up /\ "kill" \in Faults /\ kills < MaxKills
  /\ \A t \in Threads : calls[t].at # "write"
  /\ up' = FALSE /\ lock' = NoThread /\ kills' = kills + 1
  /\ calls' = [t \in Threads |-> Idle]
  /\ UNCHANGED <<file, master, env, answer, rotated, trusted, shut, losses>>

(* The operator configures the key of the last rotation that returned in    *)
(* APP_ENCRYPTION_KEY (main.py:109).                                        *)
Configure ==
  /\ env # trusted /\ env' = trusted
  /\ UNCHANGED <<file, master, lock, calls, up, history>>

-----------------------------------------------------------------------------
Goes(t, at, data) == calls' = [calls EXCEPT ![t].at = at, ![t].data = data]

Leaves(t) == calls' = [calls EXCEPT ![t] = Idle] /\ lock' = NoThread

(* Mutated form: get does not take the lock. *)
CallUnlocked(t, op, n, v) ==
  /\ up /\ calls[t].at = "idle"
  /\ op # "get" => lock = NoThread
  /\ lock' = IF op = "get" THEN lock ELSE t
  /\ calls' = [calls EXCEPT ![t] =
       [at |-> "read", op |-> op, name |-> n, value |-> v, data |-> Empty]]
  /\ UNCHANGED <<file, master, up, env, history>>

(* get, set, delete or rotate_master_key is called and gets the lock.       *)
Call(t, op, n, v) ==
  /\ up /\ calls[t].at = "idle" /\ lock = NoThread
  /\ lock' = t
  /\ calls' = [calls EXCEPT ![t] =
       [at |-> "read", op |-> op, name |-> n, value |-> v, data |-> Empty]]
  /\ UNCHANGED <<file, master, up, env, history>>

(* _read_unlocked: an empty file is {}, a cut one or one under another key  *)
(* raises VaultError.                                                       *)
Readable == file.state \in {"missing", "empty"} \/ (file.state = "whole" /\ file.key = master)
Content == IF file.state = "whole" THEN file.data ELSE Empty

ReadRaises(t) ==
  /\ calls[t].at = "read" /\ ~Readable
  /\ Leaves(t)
  /\ UNCHANGED <<file, master, up, env, history>>

(* Mutated form: what was cached when the call was made is used. *)
ReadForStale(t) ==
  /\ calls[t].at = "read" /\ calls[t].op \in {"set", "delete"} /\ Readable
  /\ Goes(t, "open", [Empty EXCEPT ![calls[t].name] = calls[t].value])
  /\ UNCHANGED <<file, master, lock, up, env, history>>

(* set and delete; deleting an unknown name writes nothing. *)
ReadFor(t) ==
  /\ calls[t].at = "read" /\ calls[t].op \in {"set", "delete"} /\ Readable
  /\ IF calls[t].op = "delete" /\ Content[calls[t].name] = NoValue
     THEN Leaves(t)
     ELSE Goes(t, "open", [Content EXCEPT ![calls[t].name] = calls[t].value])
          /\ UNCHANGED lock
  /\ UNCHANGED <<file, master, up, env, history>>

Get(t) ==
  /\ calls[t].at = "read" /\ calls[t].op = "get" /\ Readable
  /\ answer' = [answer EXCEPT ![t] = Content[calls[t].name]]
  /\ Leaves(t)
  /\ UNCHANGED <<file, master, up, env, rotated, trusted, shut, kills, losses>>

(* rotate_master_key, which nothing in the repository calls yet: the key is *)
(* switched before the file is rewritten.                                   *)
Rotate(t) ==
  /\ calls[t].at = "read" /\ calls[t].op = "rotate" /\ Readable
  /\ rotated < MaxRotations
  /\ rotated' = rotated + 1 /\ master' = rotated + 1
  /\ Goes(t, "open", Content)
  /\ UNCHANGED <<file, lock, up, env, answer, trusted, shut, kills, losses>>

(* write_bytes opens the file, which empties it. *)
Open(t) ==
  /\ calls[t].at = "open"
  /\ file' = [file EXCEPT !.state = "empty"]
  /\ Goes(t, "write", calls[t].data)
  /\ UNCHANGED <<master, lock, up, env, history>>

OpenRaises(t) ==
  /\ calls[t].at = "open" /\ "raise" \in Faults
  /\ shut' = (shut \/ calls[t].op = "rotate")
  /\ Leaves(t)
  /\ UNCHANGED <<file, master, up, env, answer, rotated, trusted, kills, losses>>

Returns(t) ==
  /\ Leaves(t)
  /\ trusted' = IF calls[t].op = "rotate" THEN master ELSE trusted

(* Mutated form: the file is encrypted with the key it had. *)
WriteOldKey(t) ==
  /\ calls[t].at = "write"
  /\ file' = [file EXCEPT !.state = "whole", !.data = calls[t].data]
  /\ Returns(t)
  /\ UNCHANGED <<master, up, env, answer, rotated, shut, kills, losses>>

Write(t) ==
  /\ calls[t].at = "write"
  /\ file' = [state |-> "whole", key |-> master, data |-> calls[t].data]
  /\ Returns(t)
  /\ UNCHANGED <<master, up, env, answer, rotated, shut, kills, losses>>

(* The write is cut short: by an error, or with the process. *)
Tear(t) ==
  /\ calls[t].at = "write" /\ "tear" \in Faults /\ losses < MaxLosses
  /\ file' \in {[file EXCEPT !.state = s] : s \in {"empty", "part"}}
  /\ losses' = losses + 1
  /\ \/ Leaves(t) /\ UNCHANGED <<up, kills>>
     \/ /\ kills < MaxKills /\ kills' = kills + 1
        /\ up' = FALSE /\ lock' = NoThread
        /\ calls' = [s \in Threads |-> Idle]
  /\ UNCHANGED <<master, env, answer, rotated, trusted, shut>>

Next ==
  \/ Start \/ Kill \/ Configure
  \/ \E t \in Threads, n \in Names, v \in Values :
       Call(t, "get", n, NoValue) \/ Call(t, "set", n, v) \/ Call(t, "delete", n, NoValue)
       \/ Call(t, "rotate", n, NoValue)
  \/ \E t \in Threads :
       ReadRaises(t) \/ ReadFor(t) \/ Get(t) \/ Rotate(t)
       \/ Open(t) \/ OpenRaises(t) \/ Write(t) \/ Tear(t)

Spec == Init /\ [][Next]_vars

-----------------------------------------------------------------------------
(* Properties.                                                              *)

CallType == [at : {"idle", "read", "open", "write"}, op : {"none", "get", "set", "delete", "rotate"},
             name : Names \cup {NoValue}, value : Values \cup {NoValue},
             data : [Names -> Values \cup {NoValue}]]

(* Every variable keeps its shape, and a call is in progress exactly while  *)
(* its thread has the lock (vault.py, with self._lock).                     *)
TypeOK ==
  /\ file \in [state : {"missing", "whole", "empty", "part"}, key : Nat,
               data : [Names -> Values \cup {NoValue}]]
  /\ calls \in [Threads -> CallType]
  /\ lock \in Threads \cup {NoThread}
  /\ \A t \in Threads : calls[t].at # "idle" <=> lock = t
  /\ up \in BOOLEAN /\ shut \in BOOLEAN
  /\ {rotated, kills, losses} \subseteq Nat
  /\ {master, env, trusted} \subseteq 0..rotated
  /\ answer \in [Threads -> Values \cup {NoValue}]

(* Nobody who reads or writes one name disturbs another, and every get      *)
(* returns what was set last: the file implements the map, a change taking  *)
(* effect when the file is opened.  Only a torn write loses anything, and   *)
(* then everything.                                                         *)
Map == INSTANCE VaultMap WITH
  map <- IF lock # NoThread /\ calls[lock].at = "write" THEN calls[lock].data ELSE Content

KeepsMap == Map!Spec

OpensWithTrustedKey == file.state = "whole" /\ losses = 0 => file.key = trusted

ReadableUnlessShut ==
  up /\ lock = NoThread /\ file.state = "whole" /\ ~shut => file.key = master

(* Unless a write was torn, the file opens with the key of the last         *)
(* rotation that returned: one that raised has left the file to the old     *)
(* key, whatever was called or killed since (vault.py:96).  And a process   *)
(* can read a whole file, except when one of its rotations raised or it was *)
(* started with another key than the file's.                                *)
KeysAgree == OpensWithTrustedKey /\ ReadableUnlessShut

=============================================================================
