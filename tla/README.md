# Verification of the notebooklm-py client

`notebooklm-py` is an asyncio client for NotebookLM with a command line, an MCP server and a REST server on top of it.
This directory holds TLA+ models of the parts of it in which several tasks, threads or processes share state, TLC
configurations that model-check them on small instances, and TLAPS proofs. Paths below are relative to
`src/src/notebooklm/` unless they start with `src/`.

    tlasany M.tla                                  parse a module
    tlc -workers 2 -config X.cfg MCM.tla           a run (the first comment of each .cfg says what it is)
    tlapm M.tla                                    the proofs of a module ...Proofs

## 1. Inventory

### Parts that are modelled

**CallSupervisor** (`_runtime/call_supervisor.py`). *State:* one `AdmissionGeneration` per open of the client, with
its state (closed, accepting, draining, closing), the number of admitted scopes in flight, the depth of every task, a
semaphore of `max_concurrent_rpcs` and a condition; the current generation, the retired ones that still have work, and
the settlement tasks. *Operations:* `operation_scope` (a workflow), `call_scope` (one RPC), `spawn_child` (a task that
belongs to the workflow of its parent), and the transitions `prepare_generation` ... `mark_closed` driven by the
lifecycle. *Hard:* a scope can be cancelled at each of its awaits; it returns its token through a task of its own,
which it waits for, and abandons when cancelled again; children outlive their parents; the client can be closed and
reopened while old settlements are still on their way. *Correct when:* counters equal the work that exists, no permit
leaks, an idle fenced generation stays idle, a task never works for two generations, a drain ends.

**ClientLifecycle** (`_runtime/lifecycle.py`, `_runtime/contracts.py`). *State:* CLOSED, OPENING, OPEN, CLOSING; the
epoch; one open wave and one close wave. *Operations:* `open`, `drain`, `close(drain=..., drain_timeout=...)` and the
context manager's exit, from any number of tasks. The owner of an open spawns a prepare task, and a rollback task if
it fails or is cancelled; a close runs in one task that every caller awaits; cancelling such a caller ends the grace
of the whole wave. *Calls:* the supervisor's transitions, `transport.open`/`close`, the hooks of the services (the
polling service's is the one with state). *Hard:* calls of three kinds and cancellations meet in every state.
*Correct when:* state, generation and transports agree, transports go only behind the fence, a graceful close waits,
followers are told the truth, every call ends.

**Artifact polling** (`_artifact/polling.py`, `_polling_registry.py`). *State:* a registry from (notebook, task) to a
shared future, the task that reserved it and the poll task. *Operations:* `wait_for_completion` as leader or follower,
the done callback that resolves the future, the drain hook. *Hard:* leaders are cancelled while they spawn; the hook
cancels what it finds twice during a close, including tasks of callers. *Correct when:* one loop per artifact, no
future is lost, a cancelled waiter disturbs no other, nothing polls after the close.

**Refresh command flights** (`_auth/single_flight.py`, `_auth/refresh.py`). *State:* a process-wide registry of
flights under a thread lock, a success epoch per profile, the profile's file lock between processes. *Operations:*
claim, follow, lead, run the command or wait for the process that runs it, settle. *Hard:* callers live on different
event loops and in different processes; a flight is settled and removed in two steps; leaders are cancelled with
their loop. *Correct when:* one command per process at a time, none after a success that answers it, a reload finds
something new, all calls end.

**Detached chat asks** (`mcp/_chattasks.py`). *State:* entries by id and by key, a gate of slots, the time entries
were stamped. *Operations:* `chat_start`, `chat_status`, `server_info`, `chat_cancel`, `aclose`, and the guard task.
*Hard:* a start attaches, evicts or is refused; a cancel races with the queue timer, with the task's first step and
with its settlement; the request that cancels may be killed itself. *Correct when:* one unfinished ask per key, no
answer is dropped early, a cancellation is reported as one, every ask ends, none outlives `aclose`.

**Session refresh** (`_web/transport/auth.py`, `session_auth.py`, `middleware/auth_refresh.py`, `middleware/retry.py`,
`executor.py`, `_runtime/auth_refresh_retry.py`, `retry_budget.py`). *State:* the tokens, the active epoch, one slot for
a shared refresh task, and for every logical call its retry counters and its one refresh. *Operations:* an RPC with its
retries after a 429, a 5xx, a network failure, a 401 or a decoded auth error; `refresh_auth()` with and without the
browser; the refresh with its ladder of rungs; open and close. *Hard:* calls that expire together, callers cancelled while
they share a task, a close that cancels it, an answer that arrives after a reopen, three layers that each repeat a
request. *Correct when:* one refresh at a time, none of an old generation publishes, a retry carries what the refresh made,
nothing that may have been carried out is sent again, all legs share one allowance, every call ends.

**Cookie persistence** (`_web/transport/cookie_persistence.py`, `_auth/profile_store.py`, `cookie_merge.py`,
`storage_lock.py`, `_auth/recovery_rungs.py`). *State:* the profile on disk, the jar of each client, its baselines (what it
last saw on disk, per cookie), the numbers of its saves and the number last stored. *Operations:* a rotation by the server,
a save begun on the loop and carried out by a thread under two locks, the reload of the profile, a remint by another
process, open and close. *Hard:* threads reach the lock in any order, two clients write one file, a platform may lack
`flock`, a client closes and opens with saves still out. *Correct when:* no save overwrites what its client has not seen,
an older observation never replaces a newer one, a client's own rotation is stored.

Interactions: ClientLifecycle drives the generations of CallSupervisor; every service, polling and chat asks included,
works inside scopes of CallSupervisor; the close wave runs the polling hook; the MCP server closes the chat registry
before it closes the client; a session
refresh reloads cookies, saves them, and calls the refresh flight when they are dead.

### Parts that are not modelled, in the order in which they would be next

| Part | State | Hard behaviour | Correct when |
|---|---|---|---|
| Source waits and batches (`_source/polling.py`, `batch.py`, `delete_batch.py`, `_sources.py`) | the sibling waits, one shared listing | one of many fails or times out | siblings are cancelled and awaited before the error is raised |
| Lazy client of the MCP server (`mcp/_clientprovider.py`) and upload tokens (`mcp/_filelink.py`) | open task and its waiters; claims on tokens | a late callback of a failed open; overlapping claims | a retry is never undone, a token is spent once |
| Research (`_research.py`, `_research_import.py`) | task being polled | import of sources while polling | imported once |
| Cold recovery (`_auth/recovery.py`, `psidts_recovery.py`, `mint_service.py`) | the ladder of rungs | rungs that fail half way | cheaper rungs first, result persisted once |
| Conversation locks (`_chat.py`, `_conversation_cache.py`) | lock and history per conversation | concurrent asks in one conversation | turns are not lost |
| Keepalive and the final cookie save (`_web/transport/lifecycle.py`) | a background task of the transport | a close while it rotates | the last rotation is saved |

Left aside for good: wire formats, data classes and formatting (no state), the command line and the REST routes
(single client calls), transports, browser automation and file transfer (I/O against the service), the Android
backend (a second transport behind the same lifecycle), generated code, deployment, documents and tests.

## 2. Modules

| Module | Models | Uses |
|---|---|---|
| `Admission` | what admission promises: when tokens of a generation may appear | |
| `CallSupervisor` | `_runtime/call_supervisor.py` | |
| `CallSupervisorRefinement` | the mapping from CallSupervisor to Admission | `Abstract == INSTANCE Admission WITH state <- AbstractState, live <- tokens` |
| `CallSupervisorProofs` | theorems about CallSupervisor's accounting and the mapping | |
| `CallSupervisorLeakProofs` | theorems about what the scopes of CallSupervisor hold | |
| `ClientLifecycle` | `_runtime/lifecycle.py` composed with admission | `Admission == INSTANCE Admission` |
| `ClientLifecycleProofs` | theorems about ClientLifecycle | |
| `ArtifactPolling` | `_artifact/polling.py`, `_polling_registry.py`, and the close wave as they see it | |
| `ArtifactPollingProofs` | theorems about ArtifactPolling | |
| `RefreshFlight` | `_auth/single_flight.py`, the flight part of `_auth/refresh.py` | |
| `RefreshFlightProofs` | theorems about RefreshFlight | |
| `AuthRefresh` | the refresh and retry layers of `_web/transport`, composed with the generations of the client | |
| `AuthRefreshProofs` | theorems about AuthRefresh | |
| `AtomicProfile` | what a shared profile promises to the clients that save to it | |
| `CookiePersistence` | saves, reloads and remints of one profile by its clients | |
| `CookiePersistenceRefinement` | the mapping from CookiePersistence to AtomicProfile | `Atomic == INSTANCE AtomicProfile WITH stored <- disk, asked <- Asked, ...` |
| `CookiePersistenceProofs` | theorems about CookiePersistence and the mapping | |
| `ChatTasks` | `mcp/_chattasks.py` | |
| `ChatTasksProofs` | theorems about ChatTasks | |
| `MC...` | symmetry sets and constant definitions for TLC | the module they name |

Admission sits between the two halves of the client's core. CallSupervisor is shown to implement it, so
ClientLifecycle is composed with it instead of with all of CallSupervisor, and its work is one action, `Work`, that
admits and settles a token; `DrivesAdmission` proves that it uses Admission as Admission allows.

An action is the code of one task between two suspension points, since one event loop runs one task at a time. In
RefreshFlight and CookiePersistence, whose actors are threads and processes, it is one step under a thread lock or one
file operation. The operators named `Fault...` are not part of any specification: each is a deliberately broken form of
the definition that follows it, kept to show that a property notices the difference.

### CallSupervisor

A task is a stack of suspended scopes (`stack[t]`, innermost first), so nesting, children in workflows and scopes
after scopes come from `BeginScope` alone. A frame's phase is the await at which the scope is suspended: taking the
condition (`admitting`), waiting for a permit (`queued`), in its body, in the telemetry callback (`emitting`),
waiting for its settlement (`settling`); for `spawn_child`: waiting for the child's first step (`starting`) or
gathering a cancelled child (`reaping`). `ShutdownSpawn` takes the gather at `call_supervisor.py:907` and the return of the
token in one step: the gathered child has been cancelled before its first step and never runs, and the parent does nothing else
in between.

- `Admit`, `Refuse`, `CanAdmit`, `HasOtherGenerationDepth`: `_admit_generation` and the scan over current and retired
  generations. `Charge` is the increment of `in_flight` and `depths`, `Land` the decrement in the settlement task,
  `Publish` the creation of that task, `CancelSettling` the shield with its one remembered cancellation.
- `AcquireSlot`, `LeaveQueue`, `EndCall`, `EndEmit`: `call_scope` with queue timeout, fence and event emission.
- `SpawnChild`, `StartChild`, `SpawnReturn`, `CancelSpawn`, `Reaped`, `ShutdownSpawn`: `spawn_child`.
- `PrepareGeneration` ... `MarkClosed`: the transitions.
- `HasCondition` says what the FIFO order of the loop and of the condition imply for one task: a settlement it left
  behind asked for the condition first. Without it the model would let a task re-enter a generation ahead of its own
  settlement, which the code cannot do.
- A body may end at any time, whether or not it was cancelled. The body of a call is one exchange with the server.

Not modelled: deadlines of operations (they arrive as cancellations), metrics and events' contents, `limit=None` (no
semaphore), `KeyboardInterrupt` and `SystemExit`.

### ClientLifecycle

`pc[t]` is the await in `open`, `close` or `drain` at which the task is suspended; `at[t]` the generation it concerns.
The waves are records per epoch, advanced by `Waves`: the prepare task (`PrepareGeneration`, `OpenTransport`), the
rollback task (`RollbackPrepare`, `RollbackRelease`, `RollbackMark`), and `_run_close`, a phase each for
stop_accepting, graceful hooks, idleness, begin_closing, prepare, cancel hooks, release, mark_closed. `DrainTimeout`
and `AbortGraceful` are the two ways in which the grace ends early. `JoinRace` is `_join_close_race`. A transport may
fail or be cancelled while it already holds resources. Failures of hooks and of transport close are logged or
collected and change no state, so they are left out; so are process-exit signals and a loop that is shut down before
the prepare task's first step.

### ArtifactPolling

`pending[k]` is the registry, `future[n]` and `task[n]` the shared future and poll task of the n-th reservation. `Lead`,
`Spawn`, `Attach` are the three parts of the leader's path, separated by the awaits in `spawn_child`; `Resolve` is
`_resolve_poll`; `CancelSpawning` and `Reaped` its failure path; `DrainHook` and `HookReturns` the hook that cancels
`active_tasks` and gathers it. A waiter that has been cancelled unwinds and may do anything its task may do: end,
leave a workflow around the wait, or close the client. Statuses, intervals and retries are reduced to how the poll
ends. The client is closed once; a reopened client has a fresh generation but the same registry, which
`NothingPollsAfterClose` shows to be empty.

### RefreshFlight

`registry[p]` and `epoch[p]` are the process's `SingleFlight`; `work[n]` is the leader's body
(`_refresh_cmd_leader_body`), `bridge[n]` the future followers await, `popped` the second half of the done callback.
`flock` is the file lock. `past` is history, read by properties only. One profile and one policy; the fail-open path
of a lock file that cannot be used is not modelled.

The command is `asyncio.to_thread(subprocess.run, ..., timeout=60)` (`_auth/refresh.py:586`). Cancelling the leader's task, as the
shutdown of its loop does, settles the flight and gives the file lock back, but does not stop the subprocess: `CancelLeader`
leaves the flight in `stray`, and `StrayWrites` or `StrayFails` ends its command at any later time, perhaps while the command of
the next flight runs. So one live flight per process (`LiveIsRegistered`) is not one command per process, and `CancelSettles` lets
a cancelled caller leave a running command behind only if the leader was cancelled too; the docstrings that say a cancelled
caller settles the shared subprocess (`_auth/refresh.py:243`, `262`) are about callers, not about the leader's task.

### ChatTasks

`Create`, `Attach`, `Refuse` are the outcomes of `chat_start`, with expiry, eviction and the key's claim; `Look` is the
sweep in `chat_status` and `server_info`; `Cancel`, `CancelReturns`, `CancelKilled` are `chat_cancel`; `FirstStep` to
`Settled` the guard; `Close` and `CloseReturns` are `aclose`, `Unbind` the `set_bound_loop(None)` that follows it without an
await; the model lets others go in between. `JobDeadline` is the budget of a job: the timer of the guard while the task is
queued, that of the operation scope (`_runtime/operation_context.py:250`) while it generates and while the scope settles.
`Verdict` is how guard and scope decide between a timeout and a cancellation that came in the same turn: each takes one
cancellation back and looks for another. That needs `Task.uncancel` of Python 3.11; on 3.10, which the project still admits, the
scope reports such a cancellation of a running generation as a timeout. Several cancels of one
ask are one waiter, keys are numbered by first use, and entries expire in the order in which they were stamped
(all have one TTL). Two things are not modelled: rebinding to another event loop, and a `CancelledError` that neither a user nor
a deadline asked for (`_chattasks.py:353`), which takes a client that is closed under a running ask; the server's shutdown
closes the registry first (`mcp/server.py:124`).

### AuthRefresh

`call[c]` is the logical call that task `c` is in: its kind, the generation that admitted it, the tokens its envelope
carried, its counters and allowances. `tasks` are the shared refresh tasks, of which the slot `_refresh_task` holds the
last; `body[r]` is how far the refresh run by `r`, a task or a caller of its own, has come. Tokens are versions.

- `Post`, `Answered`, `RetryLater`, `Backoff`: the terminal and the retry middleware. `MayReplay` is the effect of
  `disable_internal_retries` and `disable_read_timeout_retries` on a failure of a given kind.
- `Rejected`, `Join`, `Create`, `ClaimRefused`, `Refreshed`, `RefreshFailed`: `await_refresh` under the middleware and under
  the executor; `Rebuild` and `Readmit` are the two ways on: the same attempt rebuilt, or the whole RPC once more.
- `TaskStarts`, `FetchSucceeds`, `FetchFails`, `RungReturns`, `SaveReturns`, `FindsRetired`, `TaskCancelled`: the body
  of `refresh_auth_session`, with a check of the epoch after each await and none between it and the publication. The fetch may
  raise at once or climb the ladder, and a rung or the save may raise; `"expired"` stands for every `ValueError` of the body
  (expired session, access gate, foreign page), which callers treat alike, `"error"` for any other exception.
- `BeginClose`, `Fence`, `Closed`, `Open`: the generation. `close` may wait for calls or not, so the model lets it fence
  at any time, which covers both.

The server answers freely; a deadline is the choice to end instead of to go on; the ladder is a number of rungs each of
which may bring new cookies, fail, or be the last. What a rung does to the cookies is the subject of CookiePersistence and
RefreshFlight. The two asyncio locks hold no await, so they are part of the steps that take them.

Reading the code for this module showed four things that are no violation of a document, or not one a run can state: a 401
of a request sent before a refresh ended, and received after it, starts a second refresh; a retry that joined a task which
had published already may repeat rejected tokens; a caller whose shared refresh is cancelled by `close` gets
`CancelledError` although nobody cancelled it; and the default `refresh_auth()` runs a refresh of its own beside the
shared task, which `src/docs/python-api.md:806` describes as one.

### CookiePersistence

`disk` is the profile's cookies; `live[k]`, `known[k]` with `baseline[k]`, `applied[k]` and `seq[k]` are a client's jar,
baseline and save order; `jobs` are the saves and adoptions handed to worker threads. `held` and `author` are history, read
by properties only.

- `Rotate` is a response that sets or deletes a cookie; `SaveCookies` is `_save_canonical` up to its await, where the save gets
  its number and its copy of the jar; `StartSave`, `ReadDocument`, `Commit`, `CommitFails` are the thread: the save lock and the
  order, the storage lock and the read, the merge and the write.
- `Merged`, `Rejected`, `NextBaseline` are `decide_cookie_merge` for one variant per cookie: a value that differs from the
  baseline is written unless the file holds a third value, and then the old baseline is kept.
- `SampleProfile`, `InstallProfile`, `Adopt` are the rung that reloads the profile; `Remint`, `LoadReminted`,
  `InstallReminted` stand for the deeper rungs, which replace it. `Adopt` reads the profile and sets the baseline in one step. The code
  does both under the client's save lock but reads without the storage lock (`cookie_persistence.py:353`); a sibling's write in between is
  the same as one right after the step, since only the saves of this client look at the baseline, and they wait for the save lock.
  `Remint` assumes that an external refresh command writes the profile under the storage lock; the program cannot enforce it.
- `PrepareOpen`, `Close`, `Closed` give the baseline its lifetime; a close waits for its own save and leaves other threads running.

`site` says where the clients run: in two processes, or in one whose file system has no `flock` so that only its thread
lock excludes them. `AtomicProfile` knows nothing of this: there a numbered observation of a jar has its effect in one
step, on the cookies stored at that moment, or none. CookiePersistenceRefinement maps a job to its observation, whatever stage its
thread is in, so a save takes effect at `Commit` although the thread compared and read before. Backoff and deadlines of locks, account routing, login and the migration of old documents are left out.

## 3. Runs

| Run | Instance | Shows |
|---|---|---|
| `supervisor_safety` | 2 callers, 1 child, 3 tokens, 2 generations, 1 permit, depth 2 | `TypeOK`, `AccountsExact`, `OneGenerationPerTask`, `NothingLeaks`, `IdleStays`, `DrainAdmitsNestedOnly`, `StartsOnCurrent` |
| `supervisor_liveness` | 1 caller, 1 child, 1 generation | `Quiesces`, and `ImplementsAdmission` |
| `lifecycle_waves` | 2 tasks, 2 transports, 2 generations | `Agreement`, `CloseNeverReopens`, `OutcomesTrue`, `ReleaseIsFenced`, `CallsEnd` |
| `auth_calls` | 2 tasks, 5 kinds of call, 2 calls, 2 generations, 1 server retry, 1 rung | `OneSharedRefresh`, `AwaitsLiveRefresh`, `RetryIsFresh`, `LegsShareOneCall`, `NotReplayed`, `RetiredPublishesNothing`, `CallsEnd` |
| `polling_waits` | 2 tasks, 1 artifact, 3 polls | `Registered`, `AttachedPollSurvives`, `NothingPollsAfterClose`, `Answered` |
| `polling_follower` | 2 tasks, 2 polls | violates `FollowersSurvive` |
| `polling_drain` | 2 tasks, 1 poll | violates `DrainAwaitsBookkeeping` |
| `refresh_commands` | 2 event loops of one process, 1 of another, 2 calls, 2 follows | `TypeOK`, `LiveIsRegistered`, `ReloadIsFresh`, `NoRedundantCommand`, `CancelSettles`, `CallsEnd` |
| `cookie_saves` | 2 clients, 1 cookie, 2 fresh values, one client remints, both placements | `SavesAreAtomic`, `NoUnseenOverwrite`, `NewestObservationStays`, `OwnRotationStored` |
| `cookie_reminted` | the same in two processes | violates `ReloadedRotationStored` |
| `chat_asks` | 3 asks, 3 keys, 2 entries, 1 slot | `ClaimExact`, `NothingOutlivesClose`, `CancelledIsReported`, `AnswersKept`, `EveryAskEnds` |
| `chat_outcome` | 2 asks | violates `ResultOrError` |

A run per component asks all its questions on one instance; the supervisor alone has two, since its safety instance is too
large for the liveness check. The type invariants of the other modules are parts of
the invariants proved in their proof modules.

Why the bounds are enough. *Supervisor:* two generations are the old and the new one of a reopening; a third adds
another old one, and code and properties treat generations alike. Two callers and a child compete for one permit, one of
them nested in a workflow; depth 2 is the least at which a call is nested, and with it a child, a settlement left
behind and a new scope of one task coexist. Three tokens keep all three tasks busy. *Lifecycle:* two tasks are an owner and
one that follows, drains or closes, and a wave goes on without the task that began it, so a third call meets it too; two transports allow a
failure after one is open; two generations let a drain outlive its own. *Auth:* two calls meet in one refresh or follow
each other; two generations are the least in which a retired one may publish; one server retry and one refresh meet in every
order (`MaxRate` is 0, because a 429 differs from a server error only in its counter); one rung is the least
with which the ladder can be climbed or exhausted. *Polling:* two tasks are a leader and one that follows, takes over or
closes; a third poll follows one that was given back. Keys do not interact. *Refresh:* two loops of a process and a third
loop elsewhere are the least in which a flight is followed, lost to another process and claimed anew. *Cookies:* two
clients are the sibling writers; the merge treats cookies one by one; two fresh values let a newer observation
overtake an older save. *Chat:* three asks with room
for two and one slot give a full registry, an eviction, a queue and a second ask for the key of a finished one. The
counters `MaxPolls`, `MaxCalls`, `MaxFollow`, `MaxFresh`, `MaxTasks`, `MaxEpoch`, `MaxRungs` stand in guards of the actions
that start something new, and `Tokens`, `Children`, `MaxDepth` in that of `BeginScope`.

Deadlock is checked in the supervisor and lifecycle runs. In the others all tasks may have ended, or the client or server
closed, and the configuration says so.

### Fairness

Every specification assumes that the event loop runs what is ready (weak fairness of the steps a task takes by
itself), and never that anyone calls, cancels or times out.

- *CallSupervisor:* the bodies of scopes end, at every depth, whatever is entered inside them in the meantime, and the
  semaphore serves its waiters in order: strong fairness of `EndLevel` and `AcquireSlot`. Entering is strong because
  the model may run out of names for tokens for a while.
- *ClientLifecycle:* `Waves` is weakly fair, that is, transports and hooks return; admitted work ends although its task
  does other things in between (`SF` of `Settling`). A drain without a timeout can only end so.
- *ArtifactPolling:* polls end by their own deadline; a task that was cancelled unwinds.
- *RefreshFlight:* the command is a subprocess with a timeout, and the wait for the process that holds the lock has a
  bound; one step of either is weakly fair. Nothing is assumed of cancelled leaders and their commands: nobody waits for them.
- *AuthRefresh:* requests and rungs have timeouts, sleeps end, and a close that has fenced its generation goes on: one step
  of every call, of every refresh and `Closed` are weakly fair.
- *CookiePersistence:* none. Its properties are safety properties; a save may never reach the disk.
- *ChatTasks:* generations end by the timeouts of the client's requests. The job timeout would end them, too, but
  is off unless the environment sets it, and is not assumed to run out. A close that has begun goes on.

### Disagreements between documents and code

- `FollowersSurvive` (`polling_follower`). `src/docs/architecture.md:615` says that cancelling a waiter does not
  cancel other followers. While the leader is still inside `spawn_child` it does: the leader cancels the shared
  future, and followers that had joined it are cancelled with it (`_artifact/polling.py:268`). Once the poll is
  attached they are safe, which is `AttachedPollSurvives`.
- `DrainAwaitsBookkeeping` (`polling_drain`). `_artifact/polling.py:95` says that the drain hook awaits the polling
  bookkeeping. It gathers the task that reserved a key, which is the caller's task, to its very end; a caller that
  reacts to the cancellation by closing the client waits for the hook and the hook for the caller, until the grace
  ends, and for ever when this happens behind the fence.
- `ResultOrError` (`chat_outcome`). `mcp/_chattasks.py:155` says that a finished entry has exactly one of result and
  error. A cancellation or the deadline of the job that arrives while the operation scope settles, after the result was
  stored, leaves both.
- `ReloadedRotationStored` (`cookie_reminted`). `src/tests/unit/test_auth_session.py:912` wants the rotation that follows a reload
  of the profile to be stored, and `src/docs/python-api.md:1205` says that rotated cookies are persisted. After a refresh
  command, a headless login or a master token the client takes the new profile into its jar and keeps the old baseline
  (`_auth/refresh.py:399`), so a rotation that precedes the next save is refused as a conflict then and ever after. The
  rung above, the reload, adopts what it loads. What holds of every client is `OwnRotationStored`: a value that the client
  itself stored last, or adopted last, never turns away its later rotation. A rotation may still meet the old baseline
  in ways no document excludes: it is saved before the adoption of the reload has run; the adoption was refused because
  a sibling wrote another cookie of the profile in between; a sibling with an older jar wrote back a cookie that the
  client had deleted.

## 4. Proofs

`CallSupervisorProofs` proves, for every set of tasks, children and tokens, every number of generations, permit limit
and depth that satisfies `SupervisorAssumption`:

- `Invariance`: `Spec => []IInv`, and from it `TypeCorrect`, `AccountsCorrect`, `GenerationsDoNotMix`: the invariants
  `TypeOK`, `AccountsExact` (which is `CountersExact` and `RetiredExact`), `OneGenerationPerTask`;
- `IdleIsStable`: the action property `IdleStays`;
- `Implementation`: `Spec => ImplementsAdmission`.

The assumptions say that callers and children are different tasks, token names are positive numbers (0 is "none"),
and the bounds are natural numbers. Tokens need not be finite.

`IInv` adds to the invariants two facts none of them says: the set of live tokens is finite, without which
cardinalities cannot be computed with, and `PhaseInv`, which ties `current`, `lastEpoch` and `adm`: future generations
are closed and empty, and a past one is closed. The parts need each other. `CountersExact` turns a depth into the
existence of a token and back (`DepthMeansToken`). The scan of an admission looks at current and retired generations
only; that it misses no token of the task is `RetiredExact` (`ScanIsComplete`). This gives `OneGenerationPerTask` for
a scope, and for a child its being `Fresh`. `OneGenerationPerTask` is in turn what lets a depth in one generation
speak for the task (`HolderStays`), as nested admission during a drain and `spawn_child` do. Each step is one of four
kinds (`StepKinds`): quiet with respect to accounting, an admission, a settlement or a transition; admissions and
settlements have a lemma on the counters (`ChargeCounts`, `LandCounts`), the four kinds are put together in
`StepIInv`. For `IdleIsStable`, a fenced generation with no token admits nothing, because admission while draining
needs a depth; for `Implementation` every kind maps to one action of Admission or to a stutter (`AdmitMaps`,
`SpawnMaps`, `LifecycleMaps`, `StepMaps`).

`CallSupervisorLeakProofs` proves `NoLeak`, `StartsInOwnGeneration` and `DrainAdmitsNested`, the properties `NothingLeaks`,
`StartsOnCurrent` and `DrainAdmitsNestedOnly`, from `HoldInvariance`, `Spec => []HInv`. To `IInv` it adds what the stacks
may contain: `GoodFrame` says which phases a kind of scope goes through and what token it then names, `GoodStack` that only
bodies of workflows and children have scopes inside them; token names are unique; `Held` is `EveryTokenHeld`; and
`Permits` is `PermitsExact` together with the finiteness of the set of running calls, since tasks need not be finite. Nearly
every step changes the stack of one task (`OneTaskMoves`), and does it in one of three ways: a scope is entered
(`PushKeeps`), left (`PopKeeps`) or moves on (`BecomeKeeps`). Permits follow the running calls of that task (`PermitMoves`).
The two action properties then ask which step could have made the move (`WhoMoves`), and a nested admission during a drain
finds its outer scope because a depth is a token (`DepthMeansToken`) and a token that is not on its way back is in the stack.

`RefreshFlightProofs` proves `LiveFlightRegistered`, the invariant `LiveIsRegistered`, for every set of callers and
processes, every placement of callers (`Home`) and every number of calls and retries. Its inductive invariant
`FlightInv` adds the types of the registry, the flights and their bridges, and `LedIfPending`: a pending flight has a
leader and so a process. Only claiming, mirroring and popping touch a flight (`StepKinds`); a command whose leader was cancelled
touches none (`StraysLeaveFlights`). A claim is made when the
registered flight is settled, and then nothing is pending in that process (`NothingPending`); a pop removes a settled
flight, and only if it is the one registered, so a pending flight claimed between mirror and pop keeps its place.

The other four theorems rest on `Invariance`, `Spec => []TellInv`. `ReloadIsFresh` and `NoRedundantCommand` are about the order in
which a command ends, its success is noted and its flight is popped, so `TellInv` keeps the books of that order: `Counts`
says that the epoch of a process is the number of successes noted in it, `Ledger` ties what a caller has seen to what has
happened since, and `Prospects` says what the state of a flight lets its followers conclude. A command that outlives its flight adds to what was written and notes
nothing, so it takes nothing from these books (`StrayTells`); that it belongs to a flight with a cancelled leader is a clause of
`Entry`, and what `CancelledSettle` needs.

`ClientLifecycleProofs` proves `WavesAgree`, `CloseGoesThrough`, `FollowersAreTold` and `ReleaseIsBehindFence`, the safety
properties `Agreement`, `CloseNeverReopens`, `OutcomesTrue` and `ReleaseIsFenced`, for any number of tasks, tokens, transports
and generations. `Agreement` is not inductive: it says what admission looks like when the client is open or closed, not how
far a wave has come. `LInv` adds that, one conjunct per value of `_state` (`Shut`, `Opening`, `Opened`, `Closing`): which step
of the current generation's wave is next, which phases admission may then be in, and exactly which transports hold resources.
`Elsewhere` says that other generations are over or untouched, `Owners` that one task owns an open wave and that nothing has
been rolled back before it asks, `Early` that a generation which does not accept yet has no token, and the last conjunct of
`Closing` that a graceful close nobody cut short has reached idleness by its fence, after which admission cannot start again.
Most steps move one task between awaits and change nothing else (`TaskMove`); the wave steps are taken one by one.
`DrivesAdmission`, `Spec => Admission!Spec`, is what lets the two halves of the core be read together: what the lifecycle drives
is the admission that CallSupervisor implements, so no wave, rollback or cancellation asks for a transition that the
supervisor does not have. It needs `LInv`, because a wave names its generation long before it acts on it (`WorkMaps`, `GenerationMaps`,
`CallerMaps`).

`AuthRefreshProofs` proves the five invariants of the run and `RetiredPublishesNothing` for any number of callers, calls,
generations, rungs and retries. The inductive invariant `AInv` says of each call that it is `Fit`: its refresh is not begun,
awaited, or over with the allowance spent (`Refresh`); the refreshes it knew when it was rejected are over (`Looked`); its
attempts are paid for by counted retries, its refresh and the call itself (`Paid`); and what may have been carried out is not
on its way to the wire (`Kept`). `Counts` is what gives a new task a place among the runners: each task was started by a call
that may start no other. Steps of a call change only its own record (`CallerKeeps`); those of a refresh, from whoever runs it,
only end what was unfinished (`ProgressKeeps`); a new task leaves the calls of the others as they were (`OthersFit`).

`ArtifactPollingProofs` proves the three invariants of ArtifactPolling for any number of waiters, keys and polls. `PInv` says
that the registry is the set of pending futures (`Entries`), that a poll task runs only under a pending future (`Loop`), that a
pending future whose task is not attached has exactly one leader, who knows how far the task has come (`Led`), and that behind
the fence the hook awaits every reserving waiter and every running poll (`Seen`). One loop per key follows: a running loop has a
pending future, and a key registers one. A step changes one poll (`PollChanges`), ends one future (`FutureEnds`), moves a waiter
that leads nothing (`WaiterMoves`), or is the hook, which does all of it at once.

`ChatTasksProofs` proves the four safety properties of ChatTasks. `CInv` ties the three views of an ask together: who holds a key
(`Claims`), what a stamp says about the task (`Entry`), and what `aclose` waits for (`Gathering`). A dropped entry is always a
stamped one, so dropping frees no key (`OldUnlink`), and the unbinding after `aclose` finds nothing to drop (`NothingToDrop`); a stamp is given by the task, by `cancel` or by `aclose` (`StampedBy`), and
what has hit the task by then decides what it says.

`CookiePersistenceProofs` proves `TypeOK`, `NoUnseenOverwrite`, `NewestObservationStays` and `OwnRotationStored` for any number of clients and
cookies on every site, and the two invariants under them, `DocumentCurrent` (the document read under the lock is still
on disk at the commit) and `BaselineHeld` (a baseline names only values its own jar has held). The inductive invariant
`IInv` is `TypeOK /\ Locks /\ Provenance /\ Order`: `Locks`, that one job at a time holds the file and one per client its
save lock; `Provenance`, where the values of jars, baselines, samples and jobs come from; `Order`, that no job
past the save lock is older than the last save applied, and that nothing stored is newer than it. `OwnIsStored` needs one fact
more, `Own`: a stored value that a client vouched for last is in its baseline, whatever its siblings store beside
it. Clients that were given bare cookies are exempt from `NoUnseenOverwrite`, because `_prepare_open_baseline` reads the disk again when they open; several
processes without `flock` are excluded by `PersistenceAssumption`, as the code only warns there.

`Atomicity` is the refinement: `Spec => SavesAreAtomic`. A save compares under the lock with a document it read earlier and with a
baseline that another save of its client may have moved, so that the commit is one abstract `Save` rests on
`DocumentCurrent` and the save lock. What is to be shown besides is in `Asking`: no two jobs are the same observation
(`Numbered`), so that the one which ends takes only itself from the set; a client whose baseline is unknown has not been
opened (`Opened`); a job past the save lock belongs to a client that may store (`Started`). Each step then maps to a step of
AtomicProfile or to a stutter.

Liveness is proved of three modules: `WaitersAreAnswered` (`Answered` of ArtifactPolling), `CallersAreServed` and `EveryCallEnds`
(`CallsEnd` of RefreshFlight and of AuthRefresh). The hypothesis is `Scheduled`: the weak fairness of `FairSpec` for each process, `[]<>~G \/ []<><<A>>_v`,
with a guard `G` written out where weak fairness has `ENABLED <<A>>_v`, since the prover has no rule for ENABLED. That each guard
is exactly that condition was evaluated by TLC in every reachable state of the instances of section 3; it is the one link between
these theorems and `FairSpec` that is not proved. `Scheduled` leaves out what the argument does not need: a close
need not go on, and a cancelled waiter need not unwind.

The argument is the same each time. An actor is cut into stages, each left by one step of its own that is enabled until it is
taken (`StageSteps`, `StageEnds`, `RunSteps`, `RunEnds`, `CallSteps`, `CallEnds`), and nobody else moves it back (`OneFlightMoves`,
`OneRunMoves`, `OneCallMoves`). A wait for another actor ends because that actor's stages do, and stays answered
until the waiter has looked (`WaitPasses`, `AwaitPasses`, `OwnPasses`). What has to be excluded is a stage without a step: a waiter
whose poll does not exist, a flight without a task (`Begun`), a caller that waits for a refresh nobody runs (`Owned`, `Started`).
RefreshFlight and AuthRefresh go through such stages repeatedly: a caller follows one flight after the other, a call is sent
again, a refresh climbs the next rung. Each round uses up one of a bounded number, and since the prover has no induction over
temporal formulas, the rounds are unrolled: for at most the three follow retries of `_MAX_REFRESH_FOLLOW_RETRIES`
(`_auth/refresh.py:117`), and at most three retries after a 429, three after a server error (the defaults, `client.py:270`) and six rungs
(three reloads, the refresh command, headless login and master token). Numbers of callers, processes, calls and generations
are arbitrary. A client that is given larger allowances is covered by the safety theorems only.

Only model-checked: the other liveness, `Quiesces` of CallSupervisor, `CallsEnd` of ClientLifecycle and `EveryAskEnds` of
ChatTasks. There the number of rounds has no constant bound: a waiter's place in a queue, the depth of a stack, the number of
generations that other tasks open and close while one waits, so the proof would be an induction. What a recursive definition computes for every input cannot
be proved with the installed provers either; the proved modules have none.

## 5. Plan, and what is not modelled

Next to be modelled would be, in this order: `SourceWait` (siblings over one listing), `ClientProvider` and `UploadTokens` of
the MCP server, the keepalive loop with the final save, research and its import, the conversation locks, cold recovery. Next to
be composed: polling with ClientLifecycle's close wave instead of its own, AuthRefresh with CookiePersistence.
No module to be proved about declares a RECURSIVE operator.

Not modelled at all, and why: the wire formats, row parsers, data classes and renderers are conversions without state or order;
command line and REST routes are single client calls; the Android backend is a second transport behind the same lifecycle,
most of it generated message classes; browser login, file transfer and the RPC exchange are I/O against services whose
behaviour is not in this repository; deployment, maintenance scripts and tests are not part of the running system. These are
nearly all of the repository's lines: the parts in which tasks, threads and processes share state are small.
