------------------------------- MODULE ChatTasks -------------------------------
(***************************************************************************)
(* The registry of detached chat asks                                      *)
(* (src/src/notebooklm/mcp/_chattasks.py).                                 *)
(*                                                                         *)
(* chat_start claims a key and spawns a task that outlives the request.    *)
(* The task waits at a gate for a slot, generates the answer inside an     *)
(* operation scope of the client and stamps its entry.  Requests look      *)
(* entries up, cancel them, and may be killed while they wait; the server  *)
(* closes the registry before it closes the client.                        *)
(*                                                                         *)
(* Everything runs on one event loop, which is first in first out, so      *)
(* tasks take their first steps, and reach the gate, in order of their     *)
(* numbers.  A generation is reduced to how it ends; the job timeout and   *)
(* the completion TTL may run out at any time.  When the timeout meets a   *)
(* cancel(), Task.uncancel (Python 3.11) tells them apart.  A task that is *)
(* cancelled by neither (line 353) is not modelled: that would take a      *)
(* client that closes under a running ask.                                 *)
(***************************************************************************)
EXTENDS Naturals, FiniteSets, Sequences

CONSTANTS MaxKeys,   \* bound on the number of different questions
          Capacity,  \* _max_tasks
          Slots,     \* _concurrency
          MaxTasks   \* bound on the number of tasks

ASSUME ChatAssumption == /\ MaxKeys \in Nat
                         /\ Capacity \in Nat \ {0}
                         /\ Slots \in Nat \ {0}
                         /\ MaxTasks \in Nat

VARIABLES tasks,      \* _tasks: the ids of the retained entries
          byKey,      \* _by_key; 0 for a key that is not there
          key,        \* key[i]: key of entry i, for each task so far
          stage,      \* how far each task has come
          hits,       \* what has called cancel() on each unfinished task
          answered,   \* entries with a result
          error,      \* error of each entry
          doneAt,     \* rank of done_wall of each entry; 0 while it has none
          aged,       \* stamped entries whose TTL is over
          cancelling, \* entries whose task a cancel() waits for
          phase,      \* whether the server serves, closes, and aclose() has returned
          gathered    \* the entries aclose() waits for

registryVars == <<tasks, byKey, key>>
taskVars == <<stage, hits, answered, error, doneAt>>
closeVars == <<phase, gathered>>
vars == <<registryVars, taskVars, aged, cancelling, closeVars>>

Keys == 1 .. MaxKeys  \* semantic inputs of asks
Ids == 1 .. MaxTasks

Created == 1 .. Len(key)
Done(i) == doneAt[i] # 0
At(label) == {i \in Created : stage[i] = label}

(* Fault: a task whose generation fails keeps its slot.                    *)
FaultSlotLeak == At("generating") \cup At("settling") \cup {i \in Created : error[i] = "failed"}

(* The tasks inside `async with self._gate`.                               *)
Holding == At("generating") \cup At("settling")

Init == /\ tasks = {}
        /\ byKey = [k \in Keys |-> 0]
        /\ key = << >>
        /\ stage = [i \in Ids |-> "none"]
        /\ hits = [i \in Ids |-> {}]
        /\ answered = {}
        /\ error = [i \in Ids |-> "none"]
        /\ doneAt = [i \in Ids |-> 0]
        /\ aged = {}
        /\ cancelling = {}
        /\ phase = "open"
        /\ gathered = {}

-----------------------------------------------------------------------------
(* Bookkeeping of entries.                                                 *)

(* Fault: an entry takes its key with it, whoever holds the key now.       *)
FaultUnlinkAny(gone) == [k \in Keys |-> IF \E i \in gone : key[i] = k THEN 0 ELSE byKey[k]]

Unlink(gone) == [k \in Keys |-> IF byKey[k] \in gone THEN 0 ELSE byKey[k]]

Drop(gone) == /\ tasks' = tasks \ gone
              /\ byKey' = Unlink(gone)

Now == 1 + Cardinality({i \in Created : Done(i)})

Stamp(i, how) == /\ stage' = [stage EXCEPT ![i] = "ended"]
                 /\ error' = [error EXCEPT ![i] = how]
                 /\ doneAt' = [doneAt EXCEPT ![i] = Now]
                 /\ hits' = [hits EXCEPT ![i] = {}]
                 /\ byKey' = Unlink({i})

(* A finished entry of the key does not count.                             *)
InFlight(k) == byKey[k] \in tasks \ aged /\ ~Done(byKey[k])

Older(i, kept) == {j \in kept : Done(j) /\ doneAt[j] < doneAt[i]}

(* Fault: the entries that finished last are evicted.                      *)
FaultEvictNewest(kept) ==
    {i \in kept : /\ Done(i)
                  /\ Cardinality(kept) >= Capacity
                  /\ \A j \in kept : doneAt[j] <= doneAt[i]}

(* What a start evicts to make room: as many of the oldest finished        *)
(* entries as there are too many, the new one included.                    *)
Evicted(kept) ==
    {i \in kept : Done(i) /\ Capacity + Cardinality(Older(i, kept)) <= Cardinality(kept)}

-----------------------------------------------------------------------------
(* Keys are interchangeable and numbered in the order of their first use.  *)
Known == {k \in Keys : \A j \in 1 .. k - 1 : \E i \in Created : key[i] = j}

(* Requests: chat_start, chat_status and server_info, chat_cancel.         *)

Attach(k) ==
    /\ phase = "open"
    /\ InFlight(k)
    /\ Drop(aged)
    /\ UNCHANGED <<key, taskVars, aged, cancelling, closeVars>>

Create(k) ==
    LET kept == tasks \ aged
        room == kept \ Evicted(kept)
        i == Len(key) + 1
    IN /\ phase = "open"
       /\ ~InFlight(k)
       /\ Cardinality(room) < Capacity
       /\ i \in Ids
       /\ tasks' = room \cup {i}
       /\ byKey' = [Unlink(tasks \ room) EXCEPT ![k] = i]
       /\ key' = Append(key, k)
       /\ stage' = [stage EXCEPT ![i] = "created"]
       /\ UNCHANGED <<hits, answered, error, doneAt, aged, cancelling, closeVars>>

(* ChatTaskCapacityError.                                                  *)
Refuse(k) ==
    LET kept == tasks \ aged IN
    /\ phase = "open"
    /\ ~InFlight(k)
    /\ Cardinality(kept \ Evicted(kept)) >= Capacity
    /\ Drop(aged)
    /\ UNCHANGED <<key, taskVars, aged, cancelling, closeVars>>

(* status(i) of an expired entry drops it; counts() sweeps them all.       *)
Look ==
    /\ phase = "open"
    /\ Drop(aged) \/ \E i \in tasks \cap aged : Drop({i})
    /\ UNCHANGED <<key, taskVars, aged, cancelling, closeVars>>

Hit(who, by) == hits' = [i \in Ids |-> IF i \in who THEN hits[i] \cup {by} ELSE hits[i]]

Cancel(i) ==
    /\ phase = "open"
    /\ i \in tasks
    /\ ~Done(i)
    /\ cancelling' = cancelling \cup {i}
    /\ Hit({i}, "cancel")
    /\ UNCHANGED <<registryVars, stage, answered, error, doneAt, aged, closeVars>>

(* A task that never took its first step has stamped nothing.              *)
CancelReturns(i) ==
    /\ i \in cancelling
    /\ stage[i] = "ended"
    /\ cancelling' = cancelling \ {i}
    /\ IF Done(i) THEN UNCHANGED <<byKey, stage, hits, error, doneAt>>
       ELSE Stamp(i, "cancelled")
    /\ UNCHANGED <<tasks, key, answered, aged, closeVars>>

(* The requests that wait in cancel() are killed; the gather cancels the   *)
(* task once more.                                                         *)
CancelKilled(i) ==
    /\ i \in cancelling
    /\ cancelling' = cancelling \ {i}
    /\ UNCHANGED <<registryVars, taskVars, aged, closeVars>>

(* The TTL is the same for all, so it ends in the order of done_wall.      *)
Age ==
    /\ \E i \in tasks \ aged :
         /\ Done(i)
         /\ Older(i, tasks \ aged) = {}
         /\ aged' = aged \cup {i}
    /\ UNCHANGED <<registryVars, taskVars, cancelling, closeVars>>

-----------------------------------------------------------------------------
(* The task: _guard.                                                       *)

Step(i, to) ==
    /\ stage' = [stage EXCEPT ![i] = to]
    /\ UNCHANGED <<registryVars, hits, error, doneAt, aged, cancelling, closeVars>>

Finish(i, how) ==
    /\ Stamp(i, how)
    /\ UNCHANGED <<tasks, key, answered, aged, cancelling, closeVars>>

FirstStep(i) ==
    /\ stage[i] = "created" /\ hits[i] = {}
    /\ \A j \in At("created") : i <= j
    /\ Step(i, "queued")
    /\ UNCHANGED answered

(* A task that is cancelled before its first step runs none of _guard.     *)
NeverStarts(i) ==
    /\ stage[i] = "created" /\ hits[i] # {}
    /\ Step(i, "ended")
    /\ UNCHANGED answered

(* The timer of the queue and, once a slot is held, that of the operation  *)
(* scope, which is still armed while the scope settles its token.          *)
JobDeadline(i) ==
    /\ stage[i] \in {"queued", "generating", "settling"} /\ "timer" \notin hits[i]
    /\ Hit({i}, "timer")
    /\ UNCHANGED <<registryVars, stage, answered, error, doneAt, aged, cancelling, closeVars>>

(* Fault: an expired timer hides an explicit cancellation.                 *)
FaultTimerFirst(i) == IF "timer" \in hits[i] THEN "timeout" ELSE "cancelled"

(* How a task that was hit reports it: guard and operation scope take one  *)
(* cancellation back for their timer, and look for one that is left.       *)
Verdict(i) == IF "cancel" \in hits[i] THEN "cancelled" ELSE "timeout"

UnwindQueued(i) ==
    /\ stage[i] = "queued" /\ hits[i] # {}
    /\ Finish(i, Verdict(i))

CanAcquire(i) == /\ stage[i] = "queued" /\ hits[i] = {}
                 /\ \A j \in At("queued") : i <= j
                 /\ Cardinality(Holding) < Slots

Generate(i) ==
    /\ CanAcquire(i)
    /\ Step(i, "generating")
    /\ UNCHANGED answered

(* The client has been reopened, or the job has expired in the queue.      *)
ExpireAtGate(i) == CanAcquire(i) /\ \E how \in {"failed", "timeout"} : Finish(i, how)

(* The result is set, and then the operation scope settles its token.      *)
Answer(i) ==
    /\ stage[i] = "generating" /\ hits[i] = {}
    /\ Step(i, "settling")
    /\ answered' = answered \cup {i}

(* A generation that is cancelled may still raise an error of its own.     *)
Fail(i) == stage[i] = "generating" /\ Finish(i, "failed")

UnwindGenerating(i) ==
    /\ stage[i] = "generating" /\ hits[i] # {}
    /\ Finish(i, Verdict(i))

(* What finds the scope settling, user or deadline, is raised after it.    *)
Settled(i) ==
    /\ stage[i] = "settling"
    /\ Finish(i, IF hits[i] = {} THEN "none" ELSE Verdict(i))

-----------------------------------------------------------------------------
(* The end of the server's lifespan: aclose() and set_bound_loop(None).    *)

Unfinished == {i \in tasks : ~Done(i)}

Close ==
    /\ phase = "open"
    /\ phase' = "closing"
    /\ gathered' = Unfinished
    /\ Hit(Unfinished, "cancel")
    /\ UNCHANGED <<registryVars, stage, answered, error, doneAt, aged, cancelling>>

(* Fault: aclose() leaves the entries of tasks that never started alone.   *)
FaultCloseStampsNothing ==
    /\ phase = "closing"
    /\ \A i \in gathered : stage[i] = "ended"
    /\ phase' = "returned"
    /\ gathered' = {}
    /\ UNCHANGED <<registryVars, taskVars, aged, cancelling>>

(* Tasks that never took a step are stamped here.                          *)
CloseReturns ==
    LET unstamped == {i \in gathered : ~Done(i)} IN
    /\ phase = "closing"
    /\ \A i \in gathered : stage[i] = "ended"
    /\ phase' = "returned"
    /\ gathered' = {}
    /\ error' = [i \in Ids |-> IF i \in unstamped THEN "cancelled" ELSE error[i]]
    /\ doneAt' = [i \in Ids |-> IF i \in unstamped THEN Now ELSE doneAt[i]]
    /\ hits' = [i \in Ids |-> IF i \in unstamped THEN {} ELSE hits[i]]
    /\ byKey' = Unlink(unstamped)
    /\ UNCHANGED <<tasks, key, stage, answered, aged, cancelling>>

(* set_bound_loop(None) drops whatever is unfinished; it follows aclose()  *)
(* without an await, where the model lets others go first.                 *)
Unbind ==
    /\ phase = "returned"
    /\ phase' = "closed"
    /\ Drop(Unfinished)
    /\ UNCHANGED <<key, taskVars, aged, cancelling, gathered>>

-----------------------------------------------------------------------------
Work(i) == \/ FirstStep(i)
           \/ NeverStarts(i)
           \/ UnwindQueued(i)
           \/ Generate(i)
           \/ ExpireAtGate(i)
           \/ Answer(i)
           \/ Fail(i)
           \/ UnwindGenerating(i)
           \/ Settled(i)

Next == \/ \E k \in Known : Attach(k) \/ Create(k) \/ Refuse(k)
        \/ Look
        \/ Age
        \/ \E i \in Created : \/ Cancel(i)
                              \/ CancelReturns(i)
                              \/ CancelKilled(i)
                              \/ JobDeadline(i)
                              \/ Work(i)
        \/ Close
        \/ CloseReturns
        \/ Unbind

Spec == Init /\ [][Next]_vars

(* The loop runs what can run; generations end, by the timeouts of the     *)
(* client's requests; the lifespan ends what it began.                     *)
FairSpec == /\ Spec
            /\ \A i \in Ids : WF_vars(i \in Created /\ Work(i)) /\ WF_vars(CancelReturns(i))
            /\ WF_vars(CloseReturns) /\ WF_vars(Unbind)

-----------------------------------------------------------------------------
(* Properties.                                                             *)

(* A key is claimed by its unfinished entry and by nothing else: two asks  *)
(* for one key never run at once, a finished one never answers a new       *)
(* start, and an old entry that is dropped does not free the key of its    *)
(* successor.  The registry never holds more entries than its capacity.    *)
ClaimExact ==
    /\ \A i \in Created : byKey[key[i]] = i <=> i \in tasks /\ ~Done(i)
    /\ Cardinality(tasks) <= Capacity

(* An entry is dropped only once its TTL is over or, if it is finished, to *)
(* make room in a full registry, the oldest first; unfinished work stays.  *)
AnswersKept ==
    [][\A i \in tasks \ tasks' :
         /\ Done(i)
         /\ \/ i \in aged
            \/ /\ Cardinality(tasks \ aged) = Capacity
               /\ Older(i, tasks) \cap tasks' = {}]_vars

(* What a user cancels is reported as cancelled, or as failed with an      *)
(* error of its own, also when the job timeout expires in the same turn    *)
(* of the loop; what nobody cancels never is.                              *)
CancelledIsReported ==
    [][\A i \in Created : ~Done(i) /\ Done(i)' =>
         /\ "cancel" \in hits[i] => error'[i] \in {"cancelled", "failed"}
         /\ error'[i] = "cancelled" => "cancel" \in hits[i]]_vars

(* From when aclose() returns, before the registry is unbound and the      *)
(* client closed, no task of the registry can run and every entry is       *)
(* terminal, also those of tasks that never took a step.                   *)
NothingOutlivesClose ==
    phase \in {"returned", "closed"} => /\ \A i \in Created : stage[i] = "ended"
                                        /\ \A i \in tasks : Done(i)

(* The killed cancel() of a task that never took its first step: nobody is *)
(* left to stamp the entry.                                                *)
Stranded(i) == stage[i] = "ended" /\ ~Done(i) /\ i \notin cancelling

(* Every ask that was accepted ends, also when it queues behind asks that  *)
(* fail, time out or are cancelled, unless it is stranded; a close of the  *)
(* registry ends, too.                                                     *)
EveryAskEnds ==
    \A i \in Ids : []<>(/\ i \in Created => Done(i) \/ Stranded(i)
                       /\ phase \notin {"closing", "returned"})

(* The docstring of ChatTaskEntry: exactly one of result and error is set  *)
(* once done_at is stamped.                                                *)
ResultOrError == \A i \in Created : Done(i) => (i \in answered <=> error[i] = "none")

=============================================================================
