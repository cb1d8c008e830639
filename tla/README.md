# GitVibeDev in TLA+

GitVibeDev is a self-hosted pull-request reviewer: a FastAPI backend
(`src/backend/app`), a browser front end in plain JavaScript (`src/frontend`), a
Flutter preview of the same product (`src/theme_preview_Flutter`) and shell
installers (`src/installer`). This directory holds TLA+ modules that model the parts
of it whose correctness depends on order, failure and concurrency, the TLC
configurations that check them, and TLAPS proofs of what matters most.

## 1. Inventory

The backend is one uvicorn process with one asyncio event loop; every route is an
`async def`, so two requests interleave only at `await`s. Two files outlive the
process: the **vault** (one encrypted JSON object, rewritten whole on every change) and
the **audit log** (append only). docker-compose restarts the process when it ends
(`restart: unless-stopped`, `docker-compose.yml:57`).

| Component | State it keeps | Operations | Interacts with | What is hard | What makes it correct |
|---|---|---|---|---|---|
| **Job queue** `job_queue.py` | table of jobs, list of queued ids, a worker task; a copy of table and list in the vault | load, start, stop, enqueue, get, dequeue, complete, retry, fail | vault, audit log, the AI-review handler; routes `POST /api/ai/review/jobs`, `GET /api/jobs/{id}` | kill at any step, shutdown in a handler, retries with back-off, a vault write that raises | list = queued jobs; budgets; no lost and no revived job; order; back-off; every job settles |
| **Vault** `vault.py` | one encrypted file, a key, a thread lock | get, set, delete, rotate_master_key | everything that persists | truncate-then-write, an empty file read as `{}` | what was written is read; one key's writers do not lose another's |
| **Tokens** `security.py` (`TokenService`) | signing keys (current, previous) in memory and in the vault; refresh sessions in the vault only | issue, verify, rotate refresh token, rotate signing key | vault; auth routes | two vault writes in one rotation, memory ahead of the vault, clocks, key window | a refresh token is exchanged once; tokens stay valid for their time within the key window |
| **Middleware** `security.py` | one deque of instants per client address | admit or reject (rate, size), headers, audit | every request | window boundary, one bucket with two limits | no more than the limit in any window |
| **GitHub service** `github_service.py` | OAuth states and OAuth tokens in the vault | start, callback, metadata, repository, pull, issue, merge, collaborator calls | vault, api.github.com | two awaits of GitHub between consuming a state and storing a token | a state is used once, in time, for its redirect |
| **Routes and access control** `main.py` | none of its own | authentication, CSRF, roles, demo-mode bypass, dispatch | all of the above | order of the checks, demo/development differences | no mutation without role and CSRF |
| **AI review** `ai_service.py` | none | prompt, call provider, parse | Ollama or an OpenAI-compatible server, GitHub, job queue | two reads of a changing pull request, timeouts, retries | a review is of the pull request and no older than the request |
| **Platform** `platform/` | event history (bounded), handlers, hooks, manifests, agents, workflows | publish, subscribe, run plugin, run agent, run workflow | each other, plugin sandbox | handlers that raise or publish, failures half-way | completed only after every step; history order |
| **Plugin sandbox** `plugin_sandbox.py` | none | guarded subprocess | plugin framework | order of guards, timeout | nothing off the allowlist runs |
| **Demo data** `demo_service.py` | in-memory repositories | seed, merge, collaborators | routes in demo mode | restart re-seeds | merge is idempotent |
| **Web app** `frontend/app.js` | one `state` object | navigate, fetch, merge, render; `requestAIReview` and `pollAIJob` exist, but their button is built with a `disabled` attribute that is present even when false (lines 204 and 490), so nothing on the page reaches them | backend or mock API | answers that arrive after navigation, a selection that is stale after a merge | what is shown belongs to what is selected; a merged pull request is not offered for merging |
| **Web demo runtime** `frontend/runtime/runtime.js` | demo state in memory and in IndexedDB, localStorage or memory | init, merge, review jobs, session | web app | reload between a write and its timer, two tabs, fallback chain | merges survive a reload |
| **Flutter client** `theme_preview_Flutter/lib` | session tokens, preferences, mock repository, screens | save and clear a session, merge, review with a polling timer, preferences | backend or mock | several awaits per save, overlapping polls, disposal | a session is whole; a finished review stays finished |
| **Installer** `installer/` | files, containers, a local proxy | check, install, start, proxy | docker, host | half-finished installs | out of scope, see section 13 |

`PROJECT.json` lists, under "hazards", the places in this code where a test would
hardly find a mistake, with the property that covers each or the reason why none does yet.

## 2. Plan

Most important first; everything in the table is in this directory.

| # | Modules | Model | Abstract specification | Checks and proofs |
|---|---|---|---|---|
| 1 | `JobQueue` | job_queue.py with the vault and audit calls it makes, process lifecycle | `JobLedger` | 2 passing runs, 1 violation, 10 theorems, the refinement among them |
| 2 | `Tokens` | TokenService of security.py with its vault writes | - | 1 passing run, 5 theorems |
| 3 | `OAuth` | the OAuth hand-shake of github_service.py: states, callbacks that interleave at their awaits, token store; GitHub as the environment | - | 1 passing run, 4 theorems |
| 4 | `VaultFile` | vault.py: the read-modify-write of one file by threads, key rotation, raising and torn writes | `VaultMap` | 1 passing run with a refinement, 3 theorems, the refinement among them |
| 5 | `Platform` | event_bus.py, plugin_framework.py, plugin_sandbox.py, agent_framework.py, workflow_engine.py and their routes | `RunProtocol` | 1 passing run with a refinement and liveness, 1 violation, 4 theorems, the refinement among them |
| 6 | `RateLimit` | RateLimitMiddleware | a sliding window, stated over the history of admissions | 1 passing run, 3 theorems |
| 7 | `Access`, `Repository` | the access decision as operators; the repository routes over the demo data and GitHub | the documented rules, stated over the effects | 1 passing run, 1 violation, 5 theorems |
| 8 | `Review` | a review from the button of the Flutter client through the queue to GitHub and the model and back to the screen | built on `JobLedger`, which `JobQueue` implements | 1 passing run with liveness, 2 theorems |

How they compose: `Review` takes its queue from `JobLedger`, and `job_queue_settles`
checks that `JobQueue` implements `JobLedger`; `Repository` extends `Access`; `JobQueue`, `Tokens`
and `OAuth` each contain the vault as one of its users meets it (a write is done,
raises with the file unchanged or, for the queue, is torn), and `VaultFile` has the file itself.

Every property that a passing run checks is also a theorem, except the liveness properties; section 12 says why
these stay with TLC. Modules meant for proofs declare no RECURSIVE operator; constants carry named assumptions.

## 3. How the modules are laid out

`X.tla` models the code and states its properties; `MCX.tla` extends it with the
small sets TLC needs (`Review` needs none); one `.cfg` per run; `X_proofs.tla` extends `X` with
theorems. Definitions introduced by "Mutated form" model a plausible mistake in the
definition that follows them; no specification uses them. They are there to show that
a property would notice: replacing the definition by its mutated form makes TLC find
the property violated. `PROJECT.json` "map" gives the source lines of every definition.

History variables (named as such in the declarations) only record what happened, no
guard reads them except to keep ids unique and the state space finite.

## 4. The job queue

### Correspondence

| Model | Code |
|---|---|
| `jobs`, `queue` | `self._jobs`, `self._queue`; the job record is cut down to status, attempts, max_retries and the time left until `run_after` |
| `diskJobs`, `diskQueue`, `diskOk` | what the vault file holds under `background_job_queue_state`, and whether it decrypts |
| `worker` | `off` process down; `none` constructed, no task; `poll` top of `_worker_loop`; `scan` inside `_dequeue_next_job_id` with the lock held; `sleep`; `got` line 218; `handle` in the handler; `returned`, `raised` its outcome; `stopped` cancelled; `dead` the task ended with an exception |
| `cur`, `left` | `job_id` in `_worker_loop`; iterations left of `for _ in range(len(self._queue))` |
| `LoadState`, `Start`, `Stop`, `Exit`, `Crash` | `__init__`/`_load_state`; `start`; `stop`; process exit after shutdown; kill |
| `Enqueue` | `enqueue` |
| `BeginScan`, `SkipHead`, `TakeHead`, `EndScan` | `_dequeue_next_job_id`, one action per iteration |
| `ReadJob`, `HandlerEnds`, `MarkCompleted`, `MarkRetry`, `MarkFailed`, `WakeUp` | `_worker_loop`, `_mark_completed`, `_mark_failed_or_retry`, the sleep |
| `Persist`, `PersistRaises`, `Tear` | `_persist_state` through `LocalVault.set`: done; raised with the file as it was; truncated and not rewritten |

**Grain.** Every section under `self._lock` is free of `await`, so on one event loop it is
atomic and the lock is never contended; each is one action. The scan is the exception
we split, item by item, so that the rotation of the list can be seen; nothing else runs
while `worker = "scan"` except a kill. A cancellation is delivered only where the
task is suspended: before its first step, in the sleep, in the handler.

**Time.** `run_after` is an instant. The model keeps the time left, and `Tick` takes one off
in memory and in the file alike, since an instant in a file comes nearer whether or
not the process runs. Only ticks that matter to somebody are taken.

**The file.** `LocalVault.set` reads the file, decrypts it, replaces one key and calls
`write_bytes`, which truncates before it writes. A kill in between leaves an empty file, which
`_read_unlocked` takes for `{}`, or part of a token, which every later read refuses
(`diskOk = FALSE`). Other components write the same file, so this can happen in any state.

**Faults** are a constant, so a run says which it admits: `crash`, `raise` (vault.set raises),
`torn` (a write is cut short, which the history variable `torn` remembers), `audit` (the append to the audit log raises, after the vault
was written). `RestartInPlace` says that `start()` may be called again on the same
instance: `main.py` calls it once per process, the test suite restarts the app on
one module-level queue (`backend/tests/conftest.py`).

### Runs

| Run | Instance | Question |
|---|---|---|
| `job_queue_safety` | 2 jobs, max_retries -1 and 2, 2 restarts, crash, raise, torn, audit, restart in place (5.7 million states) | `TypeOK`, `QueueExact`, `AttemptsWithinBudget`, `AckedIsDurable`, `SettledStaysSettled`, `BackoffHonoured` |
| `job_queue_settles` | 3 jobs, one without a handler, 1 retry, base 2, one kill or shutdown, one start per process, fairness | `TakesBounded`, `RunningIsHeld`, `FirstComeFirstServed`, `JobsSettle`, `KeepsLedger` (refinement of `JobLedger`) |
| `job_queue_vault_fault` | 1 job, one raising write | finds `JobsSettle` violated |

Bounds: two jobs give every pair of positions in the list, a job that waits while
another runs, and an unlisted job beside a listed one; three are needed for the order of
arrival to be disturbed by a rotation. One retry is enough for the second attempt
to differ from the first, two for the second delay to differ from the first; -1 is raised to 0 by `enqueue`. Two restarts let a repaired job be
interrupted again. The history `idle` keeps, for each number of recorded failures, the ticks since the job was sent
back with that many, and stops counting at `MaxIdle`, the longest delay that the instance has.

Fairness (`FairSpec`): weak fairness of the worker's steps (the event loop runs a
ready task, and every request a handler makes has a timeout, so a handler ends), of
loading, starting and exiting (compose restarts the process and the startup event, `main.py:427`,
starts the worker), and strong fairness of the clock, which the scan disables for
an instant. No fairness is assumed of clients, kills or stops.

### What the violation says

`job_queue_vault_fault`: `_mark_completed` and `_mark_failed_or_retry` are awaited outside
the `try` of `_worker_loop` (lines 226, 234, 236) and so is the dequeue (214). One vault write
that raises there (a full disk) ends the worker task. Nobody notices: enqueue and
get keep working, and no job is run until the process is restarted.
`docs/architecture.md:65` says "Worker processes job and retries failures with backoff."
`job_queue_settles` therefore has kills but no raising writes.

### What is proved

`JobQueue_proofs`, for every set of jobs, every retry setting and any number of
restarts:

- `TypeCorrect`: `TypeOK`.
- `QueueIsExact`: `QueueExact`, under all faults. The invariant `IInv` adds to it what the
  control state knows: while the worker holds a job, that job is `running` and so outside the
  list; a history of issued ids contains every id in the table, so `enqueue` appends a new one.
  The lemmas on `Lists` say how append, tail, concatenation and rotation change the set a list
  enumerates.
- `BudgetIsKept`: `AttemptsWithinBudget`, under all faults.
- `AckedJobsAreDurable`, `SettledJobsStay`: `AckedIsDurable` and `SettledStaysSettled`, under all faults, up
  to the first write that is cut short. Both need the reservation: a kill between truncation and rewrite
  leaves an empty file, the next start reads it as `{}`, and every job is gone. `UntilTorn` says that
  `DInv` holds until then: memory is never behind the vault, a settled or acknowledged job
  in the vault is so in memory, so that the next write keeps it.

- `RunningJobsAreHeld` (`RunningIsHeld`): `HeldInv` adds to `IInv` that a process that is down has no jobs in memory. With one start per process
  (`RestartInPlace = FALSE`, as `main.py` does it): a second `start()` on one instance does not read the vault again (`_load_state` is part of `__init__`), finds the job that a
  dead worker left running, and nobody repairs it. For restarts in place there is only `QueueExact`.
- `RunsAreBounded` (`TakesBounded`), also with one start per process: a record in memory lacks at most the attempt under way, a record in the
  vault at most the last one, and a restart pays for either (`RunsAccounted`). A write that raises may lose a recorded failure
  only together with the worker, so the next take is behind a restart, unless the queue is started again in place.
- `ArrivalOrderIsKept` (`FirstComeFirstServed`), under all faults: among the jobs that were never taken the list keeps the order of
  arrival, in memory and in the vault (`InOrder`); the scan moves only jobs that wait, and these were taken before (`TakenBefore`).
- `RetriesBackOff` (`BackoffHonoured`), under all faults: what a job has still to wait, in memory or in the vault, plus
  what it has waited since that failure is at least its delay (`Rested`), and the vault is never ahead of memory (`NotAhead`). `CountsLongEnough` only says that `MaxIdle` is not below the
  delays, without which the history, not the code, would fall short.
- `ImplementsJobLedger` (`KeepsLedger`): each step of the queue is a step of the ledger or leaves it. For kills, shutdowns and raising audit
  logs, with one start per process; a vault write that raises leaves the vault behind memory, and a torn one empties it,
  and neither is what `JobLedger` promises.

Only model-checked: `JobsSettle`, which is a liveness property and out of the prover's reach.

Not modelled: results and error texts, the job type beyond "has a handler", growth of the
table (jobs are never removed), two processes on one vault file.

## 5. Tokens

### Correspondence

A token pair is known by one id: its access and its refresh token are signed with
one key at one instant. Keys are numbered in the order in which they are made.

| Model | Code |
|---|---|
| `signing`, `saved` | `self._signing_state`; `jwt_signing_state` in the vault |
| `sessions` | `refresh_sessions` in the vault (memory keeps none) |
| `frame` | the request in progress: `pop` in `rotate_refresh_token` after decoding, `sign` at the top of `issue_token_pair`, `store` before its save |
| `Boot` | `TokenService.__init__`, `_load_signing_state` |
| `BeginLogin`, `BeginRefresh` | `POST /api/auth/token`, `POST /api/auth/refresh` up to the first vault access |
| `Pop`, `PopRefused`, `PopFails` | `rotate_refresh_token`: session found, not found, vault raises |
| `Sign`, `Store`, `StoreFails` | `issue_token_pair` |
| `RotateSigningKey`, `Rotated` | `rotate_signing_key` |
| `Live`, `Fresh`, `Decodes` | the filter of `_load_refresh_sessions`; PyJWT's test of `exp`; `_decode_token` |
| `Crash`, `Tick` | a kill between two writes; time passing, also within a request |

The methods are synchronous and called from `async` routes, so no two requests
interleave: while `frame` is not idle only the clock, a kill or a failing write comes in
between. A method that finds expired sessions writes the shortened table before it
writes its own change; a failure or kill may fall between the two, which `SaveFails` and `Crash`
allow. `lost` stands for an answer that does not arrive, and for an audit append that
raises after the pair was stored (`main.py:587`, `main.py:597`). A signing
key that cannot be saved stays in use in memory: `RotateSigningKey` changes `signing` also
when the write raises.

### Runs

| Run | Instance | Question |
|---|---|---|
| `tokens` | 3 pairs, lifetime 2 of 3 ticks, 1 previous key, 2 rotations, kills, raising writes, lost answers | `TypeOK`, `RefreshOnce`, `OneSessionPerLogin`, `RefusedOnlyIfSpent`, `KeyWindow` |

Three pairs are a login and two attempts to exchange its token, or two logins and one exchange;
two rotations with one kept key push a key out of the window.
Pairs are interchangeable, so the run uses symmetry; no property is temporal. The clock ends
at `MaxTime` and pairs run out, so deadlock is not checked.

`RefreshOnce` and `OneSessionPerLogin` say that a login never forks, `RefusedOnlyIfSpent` that
"invalid or already rotated" is never said of a token that is neither. None of them says that a client
keeps its login: a kill or a raising write after `Pop` leaves it with a spent token and no new
one. That is the price of spending first, and the code pays it knowingly or not; nothing in the
documentation promises otherwise.

### What is proved

`Tokens_proofs`, for every number of pairs, lifetime, number of kept keys and length of run:

- `TypeCorrect`: `TypeOK`; the list of previous keys never exceeds `token_max_previous_keys`.
- `RefreshHappensOnce`, `LoginsDoNotFork`, `RefusalsAreDeserved`: the three invariants of
  the exchange, under all faults, from one inductive invariant `IInv`. Its strengthening says that a
  token is spent in the vault before its successor is signed: spent tokens have no
  session, what was signed in exchange for a token finds it spent, and during an exchange the
  login is carried by the frame alone (`Bearers`).
- `KeysLastTheirWindow`: `KeyWindow`, under all faults, up to the first rotation whose write raised (the history
  variable `unsaved`). The invariant says that memory and vault agree and that the kept keys are the last
  ones made, newest first. The reservation is needed: after such a rotation tokens are signed with a key
  the vault does not have, and a restart invalidates them.

Not modelled: subjects, roles and claims (they are copied from pair to pair), the
bootstrap secret, a torn vault file (section 4), clocks that go back.

## 6. The OAuth hand-shake

### Correspondence

| Model | Code |
|---|---|
| `states` | the vault entries `github_oauth_state::<state>`: URI, hinted owner, expiry |
| `stored` | the vault entries `oauth::github::<owner>`; a token has the name of the code it was bought with, or `ByHand` |
| `calls` | requests to `/api/github/oauth/callback`: `exchange` awaits the token, `user` awaits the profile |
| `CreateOauthStart` | `create_oauth_start`, called from `/api/github/oauth/start` |
| `Presented`, `Accept`, `Refuse`, `ConsumeRaises` | the route of the callback and `complete_oauth_callback` up to its first await: `_consume_oauth_state` reads, deletes, then judges |
| `Exchange`, `ExchangeFails` | `_exchange_oauth_code` |
| `StoreToken`, `StoreFails` | `_fetch_user` and `_store_token` |
| `StoreOauthToken` | `POST /api/oauth/token` of `main.py`, which writes the same keys |
| `codes`, `Authorize`, `Redeemable`, `Use` | external: GitHub issues a code for a URL and a user, and sells one token for it if the URI agrees |

What runs between two awaits is one action. GitHub's own step and the arrival of its
answer are one action too; a lost answer is `ExchangeFails` with the code used. The service keeps nothing
in memory but the requests, so a kill ends these and nothing else. A request carries a code, a state and a redirect URI or none, and nobody
compares them: `Accept` takes any state in the vault with any code GitHub has issued, spent or not, or with one that it never
issued (`Invented`). So a valid state may be spent on a code that GitHub refuses, which is `ExchangeFails`. Requests
may be repeated, and a user may
authorize one URL several times. A request keeps the state and the code it was let in with, as the local variables of the coroutine do. `done` means that the token is stored; if the audit append
after it raises, the client sees an error all the same.

### Runs

| Run | Instance | Question |
|---|---|---|
| `oauth` | 2 states, 2 codes and an invented one, 2 requests, 2 users, 1 hint, 2 URIs, lifetime 0 of 1 tick, all faults, fairness | `TypeOK`, `OneTokenPerState`, `CodeIsGood`, `TokensBelongToOwner`, `Connects` |

The run has 742,752 distinct states. Two of each kind give two hand-shakes side by side, one that is authorized twice, a callback that is
repeated, and one whose code comes with the state of the other hand-shake; every property speaks of at most two codes or requests. A lifetime of 0 lets a state
expire with the only tick. The run assumes weak fairness of
each request's answers: httpx gives GitHub 12 seconds, after which the await ends. A request ends `broken`
when GitHub fails, a write raises or the process is killed, which is told apart from `failed`, a refusal.
Deadlock is not checked: codes and requests run out.

What the code guarantees is what holds of any requests, and what a browser may count on that sends what GitHub gave it:

- `OneTokenPerState`: no two requests are let in with one state, whichever codes they bring. The reverse is not promised:
  the two codes of a URL that was authorized twice can both be redeemed, each with a state of its own.
- `CodeIsGood`: a request that goes to GitHub with a code of its own hand-shake (`Matched`) has an unspent one and the URI it was issued for.
  The one exception is a code that was also used with the state of another hand-shake (`CameElsewhere`), since GitHub may have sold its token by then.
- `TokensBelongToOwner`: whatever came with whatever, the token goes to the user who authorized its code.
- `Connects`: a request as in `CodeIsGood` ends `done` or `broken`, never `failed`, with the same exception. That is more than progress: if two callbacks
  could spend one state, or another URI could go along with a code, GitHub would refuse a code that had been accepted here.

### What is proved

`OAuth_proofs`, for any number of everything and under all faults: `TypeCorrect`,
`StatesBuyOnce` (`OneTokenPerState`), `CodesAreGood` (`CodeIsGood`), `TokensAreTheOwners`
(`TokensBelongToOwner`). `TypeOK` is not inductive alone: GitHub's answer refers to the code of a request, so
`HoldsCode` says that a code which came with a request is one that was issued, or invented, and that only an issued one buys a token. `Core` says that a
state that let a request in is consumed in the vault (`AdmittedOnce`), and it stays
so because a state is issued once; that the request takes along the URI its hand-shake was started with (`RedirectKept`), which is the URI of the
codes issued for it (`Origin`, `Copied`); and that whoever spent a code was let in with some state (`SpentByCall`). For `CodesAreGood`
this is the point: if a matched code is spent, another request spent it, and that one was let in with a different state, since this one's state let in
nobody else. `Connects` is only model-checked.

Not modelled: scopes, token types, demo mode (both routes answer without touching anything), a missing client
secret (503 before anything happens), the removal of abandoned states (there is none).

## 7. The vault file

`VaultFile` splits a call where the file system may interfere.

| Model | Code |
|---|---|
| `file` | the file: missing, empty, a part of a token, or whole under a key |
| `master`, `lock`, `calls` | `self._fernet`; `self._lock`; the call each thread is in |
| `env`, `Configure` | `APP_ENCRYPTION_KEY` of the next process (`main.py:109`); the operator puts the key of the last rotation that returned there |
| `Start`, `Kill` | `__init__` with `_ensure_storage`; a kill outside a write (inside one it is `Tear`) |
| `Call`, `ReadRaises`, `Get`, `ReadFor`, `Rotate` | taking the lock and `_read_unlocked`, then what `get`, `set`, `delete`, `rotate_master_key` do before they write |
| `Open`, `OpenRaises`, `Write`, `Tear` | `write_bytes`: opening truncates; the write is done or cut short |

The threads are those of the class, which has a lock for them. The application calls it from one thread, the event loop, where calls do not overlap, so
that what matters there is the file under raising, torn and killed writes. Nothing in the repository calls `rotate_master_key` yet; the
properties about the key are for its first caller.

`VaultMap` is what its users rely on: a map changed one name at a time, lost as a whole or not at all.
A change takes effect in it when the file is opened for writing; from then on, the new content
is either written or everything is lost.

Run `vault`: 2 threads, 2 names, 1 value, 2 rotations, 2 kills, 1 torn write, raising writes. Two names show
that a change of one leaves the other alone, two threads that reads and writes do not mix. `KeepsMap` is
the refinement; `KeysAgree` says that unless a write was torn the file opens with the
key of the last rotation that returned, and that a process can read it unless one of its own rotations raised or it
was started with another key. It is stated so because `rotate_master_key` switches the
key in memory first: after a write that raised, the process cannot read its own file until it
is restarted with the old key. No fairness is needed. A process that is never restarted may stop, so deadlock is
not checked.

### What is proved

`VaultFile_proofs`, for every set of threads, names and values, every set of faults and any number of rotations, kills
and torn writes: `TypeCorrect` (`TypeOK`), `FileOpensWithTrustedKey` (`KeysAgree`) and `ImplementsVaultMap` (`KeepsMap`).
The invariant says what a call knows between its steps: the data it is about to write is the content of the file but for its own name
(`DataIsCurrent`), which holds because no other thread can write while it has the lock; an empty file is one that
somebody is writing (`FileSound`); who writes without rotating has read under the key that is trusted (`WritesTrusted`).

## 8. The platform

### Correspondence

A run (a call of one of the three run routes) is a coroutine, and `runs[r].todo` is what it still has to do, in the order in
which the code does it. `turn` is the run that has the event loop; it is given up only where a
handler, a hook, an SDK plugin or an agent waits.

| Model | Code |
|---|---|
| `Discover`, `RegisterSdk` | `PluginRegistry.discover_manifests` while `main.py` is imported, `register_sdk_plugin` |
| `subs`, `Subscribe`, `Unsubscribe`, `Called` | `AsyncEventBus` |
| `Publish`, `CallHandler`, `HandlerEnds`, `recent`, `RecentEvents` | `publish`: the event enters the history, then the handlers are awaited one by one; `recent_events` |
| `AgentProgram`, `HandleAgent` | `AgentFramework.run_agent` and the agent's handler |
| `PluginProgram`, `EmitPoint`, `Resolve`, `SandboxAdmits`, `ExecutePlugin` | `PluginFramework.run_plugin`, `emit_extension_point`, `_resolve_manifest`, `_ensure_permission`, `PluginSandbox.execute` |
| `WorkflowProgram`, `NextStep`, `StepProgram` | `WorkflowEngine.run_workflow`: the events around the loop, one turn of the loop, `_execute_step` |
| `Begin`, `Fails`, `Finish`, `audit` | the routes of `main.py` |

### Runs

| Run | Instance | Question |
|---|---|---|
| `platform` | 2 runs, 3 handlers (one waits, one may raise, one publishes), history of 3 events, 4 plugins over every set of 6 manifests | `SubscribersMissOnlyTheLast`, `AnsweredRunsAreShown`, `ExecutionsAreGranted`, `KeepsProtocol` (refinement of `RunProtocol`), `RunsEnd` |
| `platform_unaudited` | the same | finds `ExecutionsAreAudited` violated |

The instance takes three groups of inputs: pairs of runs that meet on the bus, every plugin call over every set of manifests, and workflows that
fail in each way there is. Three events are fewer than a run publishes, so the history overflows.
Fairness: weak for start-up, strong for every run's steps, because the
loop may be with another run when a step could be taken; handlers, hooks and agents end, since each request they make has
a timeout. Nothing is assumed of clients and of subscriptions that come and go.

`platform_unaudited`: `docs/plugin-development.md:86` says "Use audit logs (`AUDIT_LOG_FILE`) to track plugin
actions." Only the route of plugins writes a line, and only when `run_plugin` returns or
raises `PluginFrameworkError`: a plugin that a workflow runs leaves none, and so does one whose subscriber raises
after its code ran.

The passing run has 147,794 distinct states. `AnsweredRunsAreShown` is about `GET /api/platform/events` with every `limit` the route takes, 1 to `MaxListed`: the completion
of a run is shown until `limit` newer events were published, or as many as the history holds. In the code the limit ends at 500
(`main.py:1082`) and the history holds 1000 events unless configured otherwise (`main.py:150`); in the run `MaxListed` is 4 and the history holds 3, so that
limits below, at and above the length of the history occur, and the theorem is for all values of both.

### What is proved

`Platform_proofs`, for any number of runs, workflows, plugins, manifests and subscribers, and every length of the history. All four theorems
rest on `Typed` and on lemmas that tell a step by what becomes of the list of the run (`Publishes`, `TurnsTo`,
`Moves`, `Ends`): the head of the list is replaced by a block, and a block of a program runs plugins only behind their own test and calls no
subscriber (`Blocks`).

- `CodeRunsWithPermission` (`ExecutionsAreGranted`): `Guarded` says that whatever is left to execute is permitted by the manifests as
  they are now, or has its test three places before it; it survives the waits in between because a manifest that was found is
  never changed again, and the legacy one only fills a gap. `ManifestsSound` says where each manifest comes from, during discovery and after.
- `CompletionsAreShown` (`AnsweredRunsAreShown`): the history is the newest part of the log (`HistoryIsNewest`), a list with a limit is the newest part of that (`NewestAreShown`), and a run that is under way has published or will
  publish or raise (`RunsAnnounce`).
- `SubscribersHearInOrder` (`SubscribersMissOnlyTheLast`): the calls for an event of a run precede, on its list, everything the run has
  still to publish itself, and only what handlers publish comes between (`CallsFirst`); so each event is heard, pending, or the last of a run that failed (`Delivered`), and what
  a subscriber has heard of a run is in order (`SeenInOrder`). The list that `Called` builds holds every subscription that has stood since the start.

- `ImplementsRunProtocol` (`KeepsProtocol`): the refinement of `RunProtocol`. The mapping reads the trace of a run off the log (`TraceOf`) and what
  it should announce off its request (`Topics`). The invariant, `TraceSound`, looks ahead: `Will` is what a list of things to do
  announces when nothing fails, and what a run has announced followed by what it `Will` is what its kind prescribes, unless the run is
  `Doomed`, which is to say that it raises before it announces anything more (an agent that is not registered, a step of no known kind). Without
  the second case the invariant is not inductive: a workflow reaches a bad step with a list that announces too little. A step keeps it because
  what replaces the head of the list `Fits`: the loop of a workflow unrolls into a step that announces its topics and a loop that announces
  the rest, and everything else puts in only what announces nothing. So the next event of a run is always the next one of its
  topics, and a run that ends well has none left. `Events` of `RunProtocol` is instantiated with the topics that the registered workflows can
  name (`Announced`); that each run's topics are among them is `TopicsAreAnnounced`.

  `TraceOf`, `StepsTopics` and `Will` are lists of lists put one after the other (`FlattenSeq`). What that makes of an empty list, of one with
  another list appended, and of two lists is proved once, in `FlattenEmpty`, `FlattenAppend` and `FlattenConcat` (section 12).

Only model-checked: `RunsEnd`, a liveness property.

## 9. The rate limiter

`RateLimit` has `bucket` (`self._requests`), the clock, and `Dispatch`: the loop that prunes is the
operator `Pruned`, then the request is refused or admitted. `dispatch` has no await before the next layer, so a request is one step.
Histories keep what was admitted and what the last refusal said.

Run `rate_limit`: 2 clients, limits 2 and 1, a window of 2 seconds of 2 ticks, 5 ticks, so that a window ends and the next
begins. Limits of 2 and 1 let `/api/auth/` be below, at and above its limit. `WindowBound`: in no window more is admitted than the limit
of the path of its last request. `RefusedOnlyAtLimit`: only for a client's own requests of the last window.
`RetryIsEnough`: who waits a second longer than told finds room; exactly as told is not enough, since the
value is rounded down and an instant exactly a window old still counts. On `/api/auth/` this needs the bucket to be full to the lower limit
exactly, because other paths may have filled it further.

`RateLimit_proofs` proves the three for every set of clients, all limits, windows and seconds and runs of any length
(`NoMoreThanTheLimit`, `RefusalsAreJust`, `WaitingHelps`). The invariant says that a bucket is the end of the client's
admissions and that what it has forgotten is older than the window (`BucketIsLatest`), in order of time (`InOrder`), and that
until the client is admitted again the bucket is as the last refusal described it (`RefusalSound`). `Pruned` takes the
longest prefix that is out of the window; its lemmas are about the least index that is not.

## 10. Access and the repository routes

`Access` holds the decision as operators: `AuthFailure` (`get_auth_context`, `demo_or_viewer_context`), `RoleFailure` (`require_role`, `ensure_role`),
`ProviderName` (`resolve_git_provider_name`), `Failure` (their order). `Repository` composes it with what is asked:

| Model | Code |
|---|---|
| `Refuse`, `OtherRoute`, `NotServed` | a call that ends before anything is asked; routes that touch no repository; providers that do not serve |
| `local`, `LocalRead`, `LocalMerge`, `LocalInvite`, `LocalRemove` | `DemoDataService` through `DemoGitProvider`: no await, one step |
| `Send`, `travel` | `_github_api_request` up to its await |
| `hub`, `HubServes`, `HubRefuses`, `HubRedirects`, `HubLoses`, `HubCloses` | external: GitHub acts, refuses, redirects (a renamed repository) or never hears of it; somebody closes a pull request there |
| `audit`, `Outcome` | the lines of the three routes that write: a merge says whether it was merged, an invitation or a removal says nothing of the kind |
| `Answer`, `Break` | the answer is passed on and audited, a redirection as a success, since only a status from 400 on is an error (`github_service.py:107`); httpx gives up, the body is no JSON, or the audit append raises: GitHub may act yet |
| `Kill` | the process is killed and started again: demo data is as seeded |

### Runs

| Run | Instance | Question |
|---|---|---|
| `repository` | 2 requests, 2 pull requests, 2 users, both modes, one kill | `TypeOK`, `EffectsAuthorised`, `RefusedMeansUnchanged`, `AuditMatchesEffects`, `MergedIsNotOffered` |
| `repository_demo_provider` | outside demo mode | finds `DemoOnlyInDemoMode` violated |

One request is any route by any caller with any provider hint, with and without the CSRF header; the other merges, lists, invites or removes. `EffectsAuthorised` compares
what changed with the rules in `docs/api.md`. `RefusedMeansUnchanged` says that a refusal can be relied on, whatever
GitHub did before the answer arrived; an error 5xx promises nothing, and the model shows why. `AuditMatchesEffects` is as much as the log can be trusted:
it claims no merge that did not happen, in demo mode no change that did not, and lacks no change that was answered with success.
It does not say that every line stands for a change: outside demo mode the removal of somebody who is not there is audited as `collaborator_removed` (`main.py:977`),
and so is one that GitHub answered with a redirection. The run has 421,012 distinct states. `repository_demo_provider`: `docs/api.md:100` says
"`git_provider` (`github` default; `demo` available in demo mode)", but the hint is passed on in every mode and
answered from demo data that was never seeded. No fairness is assumed; requests run out, so deadlock is not checked.

### What is proved

`Repository_proofs`, for every set of requests, users, pull requests and calls, whatever the data and however many kills: `ChangesAreAuthorised`
(`EffectsAuthorised`), `RefusalsAreReliable` (`RefusedMeansUnchanged`), `AuditTellsChanges` (`AuditMatchesEffects`). The invariant follows a call:
what is on its way to GitHub was admitted and has changed nothing yet, and its client waits or was told 5xx (`TravelSound`);
what changed, changed for an admitted write that was served and not refused (`EffectsSound`), so a call that GitHub redirected has changed
nothing and its line may claim nothing; a write GitHub has served has an effect (`ServedSound`).
Lemmas about `Failure` carry the decision from the order of its tests to the rules.

Two more theorems are about what the lists say, `TypeCorrect` (`TypeOK`) and `MergedStaysHidden` (`MergedIsNotOffered`). Their invariant `ListInv` adds:
no collaborator is named twice (`Distinct`), which holds only if the demo data is seeded so, hence the assumption on `Seed`; a merge lasts, at GitHub
for ever and here until a kill (`MergesLast`); and a page on its way back from GitHub already leaves out what the caller knew
to be merged when the request was made (`PagesSound`). The last is what makes it inductive: the property speaks of answers, but GitHub makes the
page earlier, and merges may happen while it travels. `Kept`, which filters a list, is written as the comprehension of the
code, a list of empty and one-element lists put one after the other; the lemmas say that it keeps exactly the members that pass, in an order that
keeps distinct ones distinct.

Everything that the passing run checks is proved.

## 11. A review from end to end

| Model | Code |
|---|---|
| `ledger` | the queue, as `JobLedger` describes it |
| `Begin`, `ReadContext`, `Complete`, `Raise`, `Interrupt` | `run_ai_review_job`: `build_review_context`, `get_pull_review_context` with its two requests, `review_pull_request`; whatever raises is an attempt that failed; a restart |
| `Accept`, `Served` | `POST /api/ai/review/jobs`, `GET /api/jobs/{id}` |
| `screen`, `Visit`, `Leave` | one `_PullRequestDetailScreenState` from creation to `dispose`; what was under way for it is dropped (`mounted`) |
| `Press`, `Created`, `PostFails`, `TimerFires`, `Answered`, `PollFails` | `_startAiReview`: the POST, the timer of 800 ms, the answers of its polls |
| `head`, `Edit` | external: the revision of a pull request, somebody pushes |

`Timer.periodic` does not wait for the poll before, so polls overlap and their answers come in any order (`polls` is a bag).
Polls cancel the timer that sent them, not the latest.

Run `review`: 2 jobs, 2 pull requests, 1 retry, 1 edit, 1 restart, 2 polls at a time, both modes. Two jobs let an
answer of the old one reach the screen after the new one; two pull requests let one be for a screen
that was left; two polls overlap. `ReviewsAreFresh`: a review is of the pull request asked for and of texts no older than the request, through retries
and restarts, and its diff is never older than its title (in demo mode nobody edits, and there is nothing to say). `ScreenIsTrue`: no job of another pull request is shown, and no
end of a job that has not come, a failed poll excepted. `ScreenCatchesUp`: what is shown is followed to an end,
*unless an unsettled answer arrives when no timer is left*: a poll that reads `running`, and arrives after the one that read `completed` has cancelled
the timer, stays on the screen for good (`generated_screen.dart:652`). The history variable `stale` marks these executions and no others; the run has them. So the
property does not cover that fault of the code, it says that it is the only one of its kind. The run has 654,051 distinct states.

Fairness: the worker goes on, the timer fires, each poll is answered or fails. That the worker goes on is what
`job_queue_settles` shows of `JobQueue` under its own assumptions (no vault write raises). Nothing is assumed of the user, of edits and of restarts.

### What is proved

`Review_proofs`, for every set of jobs and pull requests, all retry budgets and any number of edits, polls and restarts: `ReviewsStayFresh` (`ReviewsAreFresh`)
and `ScreenTellsTruth` (`ScreenIsTrue`). `FreshInv` says that the job that runs is the one the handler works for (`WorkIsRunning`), that a job was asked for
at a revision that has been reached (`AskedSound`), and that what the handler has read is no older and in order (`ReadInOrder`). `ScreenSound` says that
whatever the screen shows, waits for or hears of is about its pull request, and that a poll on its way back tells of no end that has not come.

Only model-checked: `ScreenCatchesUp`, a liveness property.

## 12. Assumptions common to all modules, and the limits of the proofs

One backend process per vault file; wall clocks do not go back; uuids and random tokens do
not repeat; `json`, `cryptography`, PyJWT, httpx and asyncio do what their documentation says.

What stays with TLC, and why: the liveness properties (`JobsSettle`, `Connects`, `RunsEnd`, `ScreenCatchesUp`), since the prover has
neither fairness nor ENABLED. Nothing else: the safety invariants, the action properties and the three refinements are theorems.

The library's induction theorems take an operator as a parameter, which the provers cannot instantiate. The proofs use instead that a set of
naturals that is not empty has a least element (`LeastNat`), which follows from the well-foundedness of the order: for the least index at which
something holds, for the least counterexample to a claim about all numbers up to one (`CountingUp`), and for the recursive function inside
`FlattenSeq`, whose existence (`FlattensExist`) and value on a longer list (`FlattensAgree`) are shown that way. `SelectSeq` is opaque to the provers, so the models
write a filter as a `FlattenSeq` of lists with one element or none, which is also closer to the comprehensions of the code.
The types of the proofs name the strings of the model (`Names` in `Platform_proofs`), because the provers do
not know that a literal is a string.

Two of the models were found wrong while proving: `Failure` of `Access` was a CASE with guards that overlap, whose value the
language leaves open although the code's order of tests decides it; and `NoManifest` of `Platform` was the set of one name, which a manifest that
grants this name would have matched. Neither shows in a TLC run. Three assumptions were made explicit by the proofs: the seeded collaborators have different
logins, the seeded pull requests are finitely many (`SetToSeq` is arbitrary otherwise), and `RunProtocol` says over which events it speaks.

## 13. Not modelled, and why

- Rendering (most of `app.js`, Flutter widgets, themes, the design system): layout, no control state.
- `frontend/app.js`: one page's state with nothing to check it against; the list that arrives late, the stale selection and
  the button that stays disabled are plain from the lines the hazards name.
- `frontend/runtime/runtime.js`: an imitation of the backend in the browser; its stores (memory, IndexedDB, localStorage, other
  tabs) have no rule which of them is right, so there is no behaviour to model beyond what the hazards say.
- Flutter besides the review: the session store writes five keys and nothing combines them again; the simulator, the mock data and the
  diff detector are examples.
- `installer/`: shell scripts around docker and apt; their effects are on the host.
- In `main.py`: health, status and configuration routes and the lists of providers, boundaries, plugins and agents, which answer from constants; the synchronous
  review, which is the handler of the queue without the queue; request parsing by pydantic.
- In `security.py`: the size limit, the headers and the request log look at one request and keep nothing.
- `ai_service.py`: prompts, clipping and parsing of answers are data; a provider is a call that answers or raises.
- `service_boundaries.py`, `plugin_sdk.py`: descriptions and interfaces.
