---------------------------- MODULE ArtifactPolling ----------------------------
(***************************************************************************)
(* Shared polling for an artifact                                          *)
(* (src/src/notebooklm/_artifact/polling.py, _polling_registry.py).        *)
(*                                                                         *)
(* Tasks wait for artifacts.  The first to wait for a key leads: it        *)
(* reserves the key with a shared future, spawns the poll task and awaits  *)
(* the future; the others follow, that is, they await the same future.     *)
(* The poll task resolves the future in a callback after it has ended.     *)
(* While the client closes, the drain hook cancels what active_tasks lists *)
(* and gathers it, once while draining and once behind the fence.          *)
(*                                                                         *)
(* Admission is CallSupervisor's and is reduced to the phase of the        *)
(* client: a waiting task and a poll task each hold a token from their     *)
(* first to their last step.  The statuses a poll sees, its intervals,     *)
(* retries and deadline are reduced to how the poll task ends.             *)
(***************************************************************************)
EXTENDS Naturals, FiniteSets

CONSTANTS Waiters,  \* asyncio tasks that wait for artifacts
          Keys,     \* (notebook_id, task_id)
          MaxPolls  \* bound on the number of shared futures ever created

ASSUME PollingAssumption == MaxPolls \in Nat /\ Keys # {}

VARIABLES phase,    \* how far the client's close has come
          awaited,  \* what the drain hook's gather still covers
          pending,  \* the registry: pending[k] is the poll of key k, or 0
          polls,    \* number of polls so far
          key,      \* key[n]: what poll n is about
          task,     \* task[n]: its task
          attached, \* attached[n]: attach_task was called, with the callback
          future,   \* future[n]: its shared future
          pc,       \* where each waiter is
          on,       \* on[w]: the poll that w waits for
          scoped    \* waiters that are inside a scope of their own

vars == <<phase, awaited, pending, polls, key, task, attached, future, pc, on, scoped>>

waiterVars == <<pc, on, scoped>>
pollVars == <<polls, key, task, attached, future>>
closeVars == <<phase, awaited>>

Polls == 1 .. MaxPolls

(* draining and closing: the drain hook is about to run.                   *)

Init == /\ phase = "accepting"
        /\ awaited = {}
        /\ pending = [k \in Keys |-> 0]
        /\ polls = 0
        /\ key = [n \in Polls |-> CHOOSE k \in Keys : TRUE]
        /\ task = [n \in Polls |-> "none"]
        /\ attached = [n \in Polls |-> FALSE]
        /\ future = [n \in Polls |-> "none"]
        /\ pc = [w \in Waiters |-> "idle"]
        /\ on = [w \in Waiters |-> 0]
        /\ scoped = {}

-----------------------------------------------------------------------------
Fenced == phase \in {"closing", "closeHook", "released"}

Alive(n) == task[n] \in {"running", "cancelling"}

TaskDone(n) == task[n] \in {"returned", "raised", "cancelled"}

Waiting(w) == pc[w] \in {"spawning", "reaping", "waiting"}

(* operation_scope: while the client drains only nested work is admitted.  *)
CanWait(w) == /\ pc[w] = "idle"
              /\ phase = "accepting" \/ (w \in scoped /\ ~Fenced)

Goto(w, label) == pc' = [pc EXCEPT ![w] = label]

(* What a task does with the CancelledError or the result that ends its    *)
(* wait is its own affair.                                                 *)
LeaveWait(w, outcome) ==
    Goto(w, IF outcome = "cancelled" THEN "unwinding" ELSE "idle")

Enter(w) ==
    /\ pc[w] = "idle" /\ phase = "accepting" /\ w \notin scoped
    /\ scoped' = scoped \cup {w}
    /\ UNCHANGED <<closeVars, pending, pollVars, pc, on>>

Exit(w) ==
    /\ pc[w] \in {"idle", "unwinding"} /\ w \in scoped
    /\ scoped' = scoped \ {w}
    /\ UNCHANGED <<closeVars, pending, pollVars, pc, on>>

(* The first waiter reserves the key before it spawns the poll task.       *)
Lead(w, k) ==
    /\ CanWait(w)
    /\ pending[k] = 0
    /\ polls < MaxPolls
    /\ LET n == polls + 1 IN
       /\ polls' = n
       /\ pending' = [pending EXCEPT ![k] = n]
       /\ key' = [key EXCEPT ![n] = k]
       /\ future' = [future EXCEPT ![n] = "pending"]
       /\ on' = [on EXCEPT ![w] = n]
    /\ Goto(w, "spawning")
    /\ UNCHANGED <<closeVars, task, attached, scoped>>

Follow(w, k) ==
    /\ CanWait(w)
    /\ pending[k] # 0
    /\ on' = [on EXCEPT ![w] = pending[k]]
    /\ Goto(w, "waiting")
    /\ UNCHANGED <<closeVars, pending, pollVars, scoped>>

(* spawn_child creates the task, or refuses behind the fence.              *)
Spawn(w) ==
    /\ pc[w] = "spawning"
    /\ task[on[w]] = "none"
    /\ ~Fenced
    /\ task' = [task EXCEPT ![on[w]] = "running"]
    /\ UNCHANGED <<closeVars, pending, polls, key, attached, future, waiterVars>>

(* The leader gives the key back and cancels the future.                   *)
Unreserve(n) ==
    /\ pending' = [pending EXCEPT ![key[n]] = 0]
    /\ future' = [future EXCEPT ![n] = "cancelled"]

SpawnRefused(w) ==
    /\ pc[w] = "spawning"
    /\ task[on[w]] = "none"
    /\ Fenced
    /\ Unreserve(on[w])
    /\ LeaveWait(w, "raised")
    /\ UNCHANGED <<closeVars, polls, key, task, attached, on, scoped>>

Attach(w) ==
    /\ pc[w] = "spawning"
    /\ task[on[w]] # "none"
    /\ attached' = [attached EXCEPT ![on[w]] = TRUE]
    /\ Goto(w, "waiting")
    /\ UNCHANGED <<closeVars, pending, polls, key, task, future, on, scoped>>

(* The loop is first in first out, so a poll that nobody cancels ends after *)
(* its leader has resumed.                                                 *)
PollEnds(n) ==
    /\ \/ task[n] = "running" /\ attached[n] /\ \E how \in {"returned", "raised"} :
            task' = [task EXCEPT ![n] = how]
       \/ task[n] = "cancelling" /\ task' = [task EXCEPT ![n] = "cancelled"]
    /\ UNCHANGED <<closeVars, pending, polls, key, attached, future, waiterVars>>

(* Fault: the callback does not cancel the future of a cancelled task.     *)
FaultResolveSkipsCancelled(n) ==
    /\ attached[n]
    /\ TaskDone(n)
    /\ future[n] = "pending"
    /\ pending' = [pending EXCEPT ![key[n]] = 0]
    /\ future' = [future EXCEPT ![n] = IF task[n] = "cancelled" THEN "pending" ELSE task[n]]
    /\ UNCHANGED <<closeVars, polls, key, task, attached, waiterVars>>

(* The done callback of the poll task: _resolve_poll.                      *)
Resolve(n) ==
    /\ attached[n]
    /\ TaskDone(n)
    /\ future[n] = "pending"
    /\ pending' = [pending EXCEPT ![key[n]] = 0]
    /\ future' = [future EXCEPT ![n] = task[n]]
    /\ UNCHANGED <<closeVars, polls, key, task, attached, waiterVars>>

Return(w) ==
    /\ pc[w] = "waiting"
    /\ future[on[w]] \in {"returned", "raised", "cancelled"}
    /\ LeaveWait(w, future[on[w]])
    /\ UNCHANGED <<closeVars, pending, pollVars, on, scoped>>

-----------------------------------------------------------------------------
(* Cancellation of a waiter, by its owner or by the drain hook.            *)

(* Fault: the waiters await the shared future without a shield.            *)
FaultUnshielded(w) ==
    /\ pc[w] = "waiting"
    /\ future' = [future EXCEPT ![on[w]] = IF @ = "pending" THEN "cancelled" ELSE @]
    /\ LeaveWait(w, "cancelled")
    /\ UNCHANGED <<closeVars, pending, polls, key, task, attached, on, scoped>>

CancelWaiting(w) ==
    /\ pc[w] = "waiting"
    /\ LeaveWait(w, "cancelled")
    /\ UNCHANGED <<closeVars, pending, pollVars, on, scoped>>

(* Fault: the leader gives its key back before the spawned task has ended. *)
FaultUnreserveFirst(w) ==
    /\ pc[w] = "spawning"
    /\ IF task[on[w]] = "none"
       THEN Unreserve(on[w]) /\ LeaveWait(w, "cancelled") /\ UNCHANGED task
       ELSE /\ task' = [task EXCEPT ![on[w]] = IF @ = "running" THEN "cancelling" ELSE @]
            /\ Unreserve(on[w])
            /\ Goto(w, "reaping")
    /\ UNCHANGED <<closeVars, polls, key, attached, on, scoped>>

CancelSpawning(w) ==
    /\ pc[w] = "spawning"
    /\ IF task[on[w]] = "none"
       THEN Unreserve(on[w]) /\ LeaveWait(w, "cancelled") /\ UNCHANGED task
       ELSE /\ task' = [task EXCEPT ![on[w]] = IF @ = "running" THEN "cancelling" ELSE @]
            /\ Goto(w, "reaping")
            /\ UNCHANGED <<pending, future>>
    /\ UNCHANGED <<closeVars, polls, key, attached, on, scoped>>

Reaped(w) ==
    /\ pc[w] = "reaping"
    /\ TaskDone(on[w])
    /\ Unreserve(on[w])
    /\ LeaveWait(w, "cancelled")
    /\ UNCHANGED <<closeVars, polls, key, task, attached, on, scoped>>

-----------------------------------------------------------------------------
(* Tasks that unwind, and tasks that close the client.                     *)

End(w) ==
    /\ pc[w] \in {"idle", "unwinding"} /\ w \notin scoped
    /\ Goto(w, "ended")
    /\ UNCHANGED <<closeVars, pending, pollVars, on, scoped>>

(* close() joins the wave that runs, or starts one; graceful or not.       *)
Close(w) ==
    /\ pc[w] \in {"idle", "unwinding"} /\ w \notin scoped
    /\ Goto(w, "joining")
    /\ phase' \in IF phase = "accepting" THEN {"draining", "closing"} ELSE {phase}
    /\ UNCHANGED <<awaited, pending, pollVars, on, scoped>>

Joined(w) ==
    /\ pc[w] = "joining"
    /\ phase = "released"
    /\ Goto(w, "ended")
    /\ UNCHANGED <<closeVars, pending, pollVars, on, scoped>>

-----------------------------------------------------------------------------
(* The close wave, as far as polling is concerned.                         *)

Poll(n) == [kind |-> "poll", id |-> n]
Waiter(w) == [kind |-> "waiter", id |-> w]

Leaders == {n \in Polls : attached[n] /\ pending[key[n]] = n /\ Alive(n)}

(* A reservation is the task that made it, until its poll is attached.     *)
Reserving == {w \in Waiters : pc[w] \in {"spawning", "reaping"}}

(* Fault: active_tasks lists only attached tasks.                          *)
FaultNoReservations == {Poll(n) : n \in Leaders}

ActiveTasks == {Poll(n) : n \in Leaders} \cup {Waiter(w) : w \in Reserving}

(* Cancelling a reserving waiter is CancelSpawning, in the same step.      *)
CancelAll(active) ==
    LET leads == {n \in Polls : Poll(n) \in active}
        waits == {w \in Waiters : Waiter(w) \in active /\ pc[w] = "spawning"}
        unborn == {w \in waits : task[on[w]] = "none"}
        born == {on[w] : w \in waits \ unborn}
    IN /\ task' = [n \in Polls |-> IF n \in leads \cup born /\ task[n] = "running"
                                   THEN "cancelling" ELSE task[n]]
       /\ pc' = [w \in Waiters |-> IF w \in unborn THEN "unwinding"
                                   ELSE IF w \in waits THEN "reaping" ELSE pc[w]]
       /\ pending' = [k \in Keys |-> IF \E w \in unborn : pending[k] = on[w] THEN 0 ELSE pending[k]]
       /\ future' = [n \in Polls |-> IF \E w \in unborn : on[w] = n THEN "cancelled" ELSE future[n]]
       /\ awaited' = active

DrainHook ==
    /\ \/ phase = "draining" /\ phase' = "drainHook"
       \/ phase = "closing" /\ phase' = "closeHook"
    /\ CancelAll(ActiveTasks)
    /\ UNCHANGED <<polls, key, attached, on, scoped>>

(* The gather waits for whole tasks: a poll that has ended, a waiter whose *)
(* task has ended.  The wave takes turns of the loop to go on, and by then *)
(* the callbacks of polls that ended before have run.                      *)
Gathered == /\ \A n \in Polls : attached[n] /\ TaskDone(n) => future[n] # "pending"
            /\ \A n \in Polls : Poll(n) \in awaited => TaskDone(n)
            /\ \A w \in Waiters : Waiter(w) \in awaited => pc[w] = "ended"

HookReturns ==
    /\ \/ phase = "drainHook" /\ phase' = "idleWait"
       \/ phase = "closeHook" /\ phase' = "released"
    /\ Gathered
    /\ awaited' = {}
    /\ UNCHANGED <<pending, pollVars, waiterVars>>

Idle == /\ scoped = {}
        /\ \A w \in Waiters : ~Waiting(w)
        /\ \A n \in Polls : ~Alive(n)

WaitForIdle ==
    /\ phase = "idleWait" /\ Idle
    /\ phase' = "closing"
    /\ UNCHANGED <<awaited, pending, pollVars, waiterVars>>

(* The grace ends early: a timeout, or a caller of close() is cancelled.   *)
EndGrace ==
    /\ phase \in {"draining", "drainHook", "idleWait"}
    /\ phase' = "closing"
    /\ awaited' = {}
    /\ UNCHANGED <<pending, pollVars, waiterVars>>

-----------------------------------------------------------------------------
Wait(w) == \E k \in Keys : Lead(w, k) \/ Follow(w, k)

Cancel(w) == CancelWaiting(w) \/ CancelSpawning(w)

Waited(w) == \/ Spawn(w)
             \/ SpawnRefused(w)
             \/ Attach(w)
             \/ Return(w)
             \/ Reaped(w)

Unwind(w) == pc[w] = "unwinding" /\ (Exit(w) \/ End(w) \/ Close(w))

PollStep(n) == PollEnds(n) \/ Resolve(n)

CloseStep == DrainHook \/ HookReturns \/ WaitForIdle

Next == \/ \E w \in Waiters : \/ Enter(w)
                              \/ Exit(w)
                              \/ Wait(w)
                              \/ Cancel(w)
                              \/ Waited(w)
                              \/ End(w)
                              \/ Close(w)
                              \/ Joined(w)
        \/ \E n \in Polls : PollStep(n)
        \/ CloseStep
        \/ EndGrace

Spec == Init /\ [][Next]_vars

(* Every task that can step does; polls end, by their deadline at the      *)
(* latest; a task that was cancelled unwinds.                              *)
FairSpec == /\ Spec
            /\ \A w \in Waiters : WF_vars(Waited(w)) /\ WF_vars(Unwind(w)) /\ WF_vars(Joined(w))
            /\ \A n \in Polls : WF_vars(PollStep(n))
            /\ WF_vars(CloseStep)

-----------------------------------------------------------------------------
(* Properties.                                                             *)

(* The registry holds exactly the futures nobody has resolved: a waiter    *)
(* never follows a poll that is over, no unresolved future is lost to      *)
(* followers, and the callback never finds its future resolved (the BUG it *)
(* raises for).  And two poll loops for the same artifact never run at the *)
(* same time, also when a leader is cancelled while it spawns and another  *)
(* one takes over.                                                         *)
Registered ==
    /\ \A n \in Polls : future[n] = "pending" <=> pending[key[n]] = n
    /\ \A m, n \in Polls : m # n /\ key[m] = key[n] => ~(Alive(m) /\ Alive(n))

(* Once the leader has attached its poll task, the shared future is        *)
(* cancelled by nothing but the client's close.                            *)
AttachedPollSurvives == \A n \in Polls : attached[n] /\ future[n] = "cancelled" => phase # "accepting"

(* When the transports go, no poll task runs, none can start, and no key   *)
(* is left in the registry for waiters of the reopened client to follow.   *)
NothingPollsAfterClose ==
    phase = "released" => /\ \A n \in Polls : ~Alive(n)
                          /\ \A k \in Keys : pending[k] = 0
                          /\ Reserving = {}

(* Every waiter is answered: by the poll's outcome or by a cancellation.   *)
Answered == \A w \in Waiters : Waiting(w) ~> ~Waiting(w)

(* docs/architecture.md: cancelling one waiter detaches that waiter        *)
(* without cancelling the shared leader or other followers.  That is, in   *)
(* an open client no waiter finds its shared future cancelled.             *)
FollowersSurvive ==
    \A w \in Waiters : phase = "accepting" /\ pc[w] = "waiting" => future[on[w]] # "cancelled"

(* drain() awaits "polling bookkeeping": once nothing polls and nothing is *)
(* registered, it returns.                                                 *)
Bookkeeping == \/ \E n \in Polls : Alive(n)
               \/ \E k \in Keys : pending[k] # 0

InHook == phase \in {"drainHook", "closeHook"}

DrainAwaitsBookkeeping == InHook /\ ~Bookkeeping ~> ~InHook \/ Bookkeeping

=============================================================================
