----------------------------- MODULE RefreshFlight -----------------------------
(***************************************************************************)
(* Coalescing of the refresh command                                       *)
(* (src/src/notebooklm/_auth/single_flight.py and _auth/refresh.py).       *)
(*                                                                         *)
(* Callers on event loops of their own, in threads of several processes,   *)
(* find their stored cookies dead and refresh them.  Each process has one  *)
(* SingleFlight: a registry with the flight of the profile, guarded by a   *)
(* lock that is held for one step at a time, and a success epoch.  The     *)
(* caller that claims a flight leads it; the others await its bridge.      *)
(* Between processes the profile's file lock decides who runs the command. *)
(* The command itself is a subprocess that a worker thread waits for: it   *)
(* goes on when the leader task that asked for it is cancelled.            *)
(*                                                                         *)
(* One profile and one policy are modelled; others share nothing.  A lock  *)
(* file that cannot be used (fail open) is not modelled.                   *)
(***************************************************************************)
EXTENDS Naturals, Sequences

CONSTANTS Callers,    \* one event loop each
          Processes,
          Home,       \* Home[c]: the process caller c runs in
          MaxFollow,  \* _MAX_REFRESH_FOLLOW_RETRIES
          MaxCalls    \* bound on the number of calls

ASSUME RefreshAssumption == /\ Home \in [Callers -> Processes]
                            /\ MaxFollow \in Nat \ {0}
                            /\ MaxCalls \in Nat

VARIABLES epoch,    \* epoch[p]: success epoch of the profile
          registry, \* registry[p]: the registered flight, or 0
          lead,     \* lead[n]: the caller that leads flight n, for each flight so far
          work,     \* work[n]: how far the leader task has come
          bridge,   \* bridge[n]: what its followers await
          popped,   \* popped[n]: its done callback has ended
          wrote,    \* wrote[n]: its command replaced the stored cookies
          stray,    \* flights whose command runs on after its leader was cancelled
          flock,    \* the flight that holds the file lock, or 0
          calls,    \* number of calls so far
          pc,       \* where each caller is
          seen,     \* epoch_before
          on,       \* on[c]: the flight c awaits
          follows,  \* follow_failures
          result,   \* result[c]: how c's last call ended
          past      \* history: the flights settled, and noted, when c called

workVars == <<lead, work, bridge, popped, wrote, stray>>
callVars == <<calls, pc, seen, on, follows, result, past>>
vars == <<epoch, registry, flock, workVars, callVars>>

Flights == 1 .. MaxCalls
flights == Len(lead)
Process(n) == Home[lead[n]]

Init == /\ epoch = [p \in Processes |-> 0]
        /\ registry = [p \in Processes |-> 0]
        /\ lead = << >>
        /\ work = [n \in Flights |-> "none"]
        /\ bridge = [n \in Flights |-> "none"]
        /\ popped = {}
        /\ wrote = {}
        /\ stray = {}
        /\ flock = 0
        /\ calls = 0
        /\ pc = [c \in Callers |-> "idle"]
        /\ seen = [c \in Callers |-> 0]
        /\ on = [c \in Callers |-> 0]
        /\ follows = [c \in Callers |-> 0]
        /\ result = [c \in Callers |-> "none"]
        /\ past = [c \in Callers |-> [settled |-> {}, noted |-> {}]]

-----------------------------------------------------------------------------
(* The callers: _coalesced_run_refresh_cmd.                                *)

Outcomes == {"returned", "raised", "cancelled"}
TaskDone(n) == work[n] \in Outcomes
BridgeDone(n) == bridge[n] \in Outcomes
Noted(n) == n \in wrote /\ work[n] \in {"noted", "returned"}
CommandRuns(n) == work[n] = "running" \/ n \in stray

Goto(c, label) == pc' = [pc EXCEPT ![c] = label]

End(c, how) == /\ Goto(c, "idle")
               /\ result' = [result EXCEPT ![c] = how]

(* The epoch is read before the first wait.                                *)
Call(c) ==
    /\ pc[c] = "idle"
    /\ calls < MaxCalls
    /\ calls' = calls + 1
    /\ seen' = [seen EXCEPT ![c] = epoch[Home[c]]]
    /\ follows' = [follows EXCEPT ![c] = 0]
    /\ result' = [result EXCEPT ![c] = "none"]
    /\ past' = [past EXCEPT ![c] = [settled |-> {n \in Flights : BridgeDone(n)},
                                    noted |-> {n \in Flights : Noted(n)}]]
    /\ Goto(c, "claim")
    /\ UNCHANGED <<epoch, registry, flock, workVars, on>>

(* Fault: the claim does not compare the epochs.                           *)
FaultNeverStale(c) == c \notin Callers

(* A success was noted since the caller read the epoch.                    *)
Stale(c) == epoch[Home[c]] > seen[c]

Skip(c) ==
    /\ pc[c] = "claim"
    /\ Stale(c)
    /\ End(c, "reload")
    /\ UNCHANGED <<epoch, registry, flock, workVars, calls, seen, on, follows, past>>

(* Fault: no registered flight counts as one that is not done.             *)
FaultJoinNobody(p) == registry[p] = 0 \/ ~BridgeDone(registry[p])

Joinable(p) == registry[p] # 0 /\ ~BridgeDone(registry[p])

Join(c) ==
    /\ pc[c] = "claim"
    /\ ~Stale(c)
    /\ Joinable(Home[c])
    /\ on' = [on EXCEPT ![c] = registry[Home[c]]]
    /\ Goto(c, "await")
    /\ UNCHANGED <<epoch, registry, flock, workVars, calls, seen, follows, result, past>>

Lead(c) ==
    /\ pc[c] = "claim"
    /\ ~Stale(c)
    /\ ~Joinable(Home[c])
    /\ LET n == flights + 1 IN
       /\ lead' = Append(lead, c)
       /\ work' = [work EXCEPT ![n] = "created"]
       /\ bridge' = [bridge EXCEPT ![n] = "pending"]
       /\ registry' = [registry EXCEPT ![Home[c]] = n]
       /\ on' = [on EXCEPT ![c] = n]
    /\ Goto(c, "await")
    /\ UNCHANGED <<epoch, popped, wrote, stray, flock, calls, seen, follows, result, past>>

(* A cancelled leader task is mirrored as CancelledError.                  *)
Awaited(c) ==
    /\ pc[c] = "await"
    /\ \/ bridge[on[c]] = "returned" /\ End(c, "reload")
       \/ bridge[on[c]] = "cancelled" /\ End(c, "cancelled")
       \/ bridge[on[c]] = "raised" /\ Goto(c, "inspect") /\ UNCHANGED result
    /\ UNCHANGED <<epoch, registry, flock, workVars, calls, seen, on, follows, past>>

(* The awaited flight failed: another one may have succeeded; a leader     *)
(* raises; a follower tries again, a bounded number of times.              *)
Inspect(c) ==
    /\ pc[c] = "inspect"
    /\ IF Stale(c) THEN End(c, "reload") /\ UNCHANGED follows
       ELSE IF lead[on[c]] = c THEN End(c, "raised") /\ UNCHANGED follows
       ELSE /\ follows' = [follows EXCEPT ![c] = @ + 1]
            /\ IF follows'[c] = MaxFollow THEN End(c, "raised")
               ELSE Goto(c, "claim") /\ UNCHANGED result
    /\ UNCHANGED <<epoch, registry, flock, workVars, calls, seen, on, past>>

(* Fault: a cancelled caller does not wait for the flight to settle.       *)
FaultCancelLeaves(c) ==
    /\ pc[c] = "await"
    /\ End(c, "cancelled")
    /\ UNCHANGED <<epoch, registry, flock, workVars, calls, seen, on, follows, past>>

CancelCaller(c) ==
    /\ pc[c] = "await"
    /\ IF BridgeDone(on[c]) THEN End(c, "cancelled")
       ELSE Goto(c, "settling") /\ UNCHANGED result
    /\ UNCHANGED <<epoch, registry, flock, workVars, calls, seen, on, follows, past>>

Settled(c) ==
    /\ pc[c] = "settling"
    /\ BridgeDone(on[c])
    /\ End(c, "cancelled")
    /\ UNCHANGED <<epoch, registry, flock, workVars, calls, seen, on, follows, past>>

(* The operation deadline of the caller expires: it detaches at once.      *)
Deadline(c) ==
    /\ pc[c] = "await"
    /\ End(c, "timeout")
    /\ UNCHANGED <<epoch, registry, flock, workVars, calls, seen, on, follows, past>>

-----------------------------------------------------------------------------
(* The leader task: _refresh_cmd_leader_body.                              *)

WorkStep(n, from, to) ==
    /\ work[n] = from
    /\ work' = [work EXCEPT ![n] = to]
    /\ UNCHANGED <<registry, lead, bridge, popped, stray, callVars>>

TakeLock(n) ==
    /\ flock = 0
    /\ WorkStep(n, "created", "running")
    /\ flock' = n
    /\ UNCHANGED <<epoch, wrote>>

LoseLock(n) ==
    /\ flock # 0
    /\ WorkStep(n, "created", "lost")
    /\ UNCHANGED <<epoch, flock, wrote>>

CommandSucceeds(n) ==
    /\ WorkStep(n, "running", "written")
    /\ wrote' = wrote \cup {n}
    /\ UNCHANGED <<epoch, flock>>

(* Fault: a failed command is noted as a success.                          *)
FaultNoteFailure(n) ==
    /\ WorkStep(n, "running", "raised")
    /\ flock' = 0
    /\ epoch' = [epoch EXCEPT ![Process(n)] = @ + 1]
    /\ UNCHANGED wrote

CommandFails(n) ==
    /\ WorkStep(n, "running", "raised")
    /\ flock' = 0
    /\ UNCHANGED <<epoch, wrote>>

NoteSuccess(n) ==
    /\ WorkStep(n, "written", "noted")
    /\ epoch' = [epoch EXCEPT ![Process(n)] = @ + 1]
    /\ UNCHANGED <<flock, wrote>>

Release(n) ==
    /\ WorkStep(n, "noted", "returned")
    /\ flock' = 0
    /\ UNCHANGED <<epoch, wrote>>

(* _wait_for_refresh_holder takes the lock for an instant to see that it   *)
(* is free, or gives up.                                                   *)
ProbeHolder(n) ==
    /\ flock = 0
    /\ WorkStep(n, "lost", "probing")
    /\ flock' = n
    /\ UNCHANGED <<epoch, wrote>>

ProbeEnds(n) ==
    /\ WorkStep(n, "probing", "returned")
    /\ flock' = 0
    /\ UNCHANGED <<epoch, wrote>>

ProbeTimesOut(n) ==
    /\ WorkStep(n, "lost", "returned")
    /\ UNCHANGED <<epoch, flock, wrote>>

(* The leader's loop is shut down and cancels its tasks: the leader gives  *)
(* the file lock back, but nothing stops a command that runs.              *)
CancelLeader(n) ==
    /\ work[n] \in {"created", "running", "lost"}
    /\ work' = [work EXCEPT ![n] = "cancelled"]
    /\ flock' = IF flock = n THEN 0 ELSE flock
    /\ stray' = IF work[n] = "running" THEN stray \cup {n} ELSE stray
    /\ UNCHANGED <<epoch, registry, lead, bridge, popped, wrote, callVars>>

(* A command without its leader replaces the stored cookies, without the   *)
(* file lock; nobody notes the success.                                    *)
StrayWrites(n) ==
    /\ n \in stray
    /\ stray' = stray \ {n}
    /\ wrote' = wrote \cup {n}
    /\ UNCHANGED <<epoch, registry, flock, lead, work, bridge, popped, callVars>>

StrayFails(n) ==
    /\ n \in stray
    /\ stray' = stray \ {n}
    /\ UNCHANGED <<epoch, registry, flock, lead, work, bridge, popped, wrote, callVars>>

(* Fault: a cancelled leader task is not mirrored.                         *)
FaultMirrorSkipsCancelled(n) ==
    /\ TaskDone(n)
    /\ work[n] # "cancelled"
    /\ bridge[n] = "pending"
    /\ bridge' = [bridge EXCEPT ![n] = work[n]]
    /\ UNCHANGED <<epoch, registry, lead, work, popped, wrote, stray, flock, callVars>>

(* The done callback of the leader task mirrors and then pops.             *)
Mirror(n) ==
    /\ TaskDone(n)
    /\ bridge[n] = "pending"
    /\ bridge' = [bridge EXCEPT ![n] = work[n]]
    /\ UNCHANGED <<epoch, registry, lead, work, popped, wrote, stray, flock, callVars>>

(* Fault: the pop does not look whose flight is registered.                *)
FaultPopAny(n) ==
    /\ BridgeDone(n)
    /\ n \notin popped
    /\ popped' = popped \cup {n}
    /\ registry' = [registry EXCEPT ![Process(n)] = 0]
    /\ UNCHANGED <<epoch, lead, work, bridge, wrote, stray, flock, callVars>>

Pop(n) ==
    /\ BridgeDone(n)
    /\ n \notin popped
    /\ popped' = popped \cup {n}
    /\ registry' = IF registry[Process(n)] = n
                   THEN [registry EXCEPT ![Process(n)] = 0] ELSE registry
    /\ UNCHANGED <<epoch, lead, work, bridge, wrote, stray, flock, callVars>>

-----------------------------------------------------------------------------
Proceed(c) == \/ Skip(c)
              \/ Join(c)
              \/ Lead(c)
              \/ Awaited(c)
              \/ Inspect(c)
              \/ Settled(c)

Work(n) == \/ TakeLock(n)
           \/ LoseLock(n)
           \/ CommandSucceeds(n)
           \/ CommandFails(n)
           \/ NoteSuccess(n)
           \/ Release(n)
           \/ ProbeHolder(n)
           \/ ProbeEnds(n)
           \/ ProbeTimesOut(n)
           \/ Mirror(n)
           \/ Pop(n)

(* What happens to a flight without its leader task.                       *)
Abandon(n) == \/ CancelLeader(n)
              \/ StrayWrites(n)
              \/ StrayFails(n)

Next == \/ \E c \in Callers : Call(c) \/ Proceed(c) \/ CancelCaller(c) \/ Deadline(c)
        \/ \E n \in Flights : Work(n) \/ Abandon(n)

Spec == Init /\ [][Next]_vars

(* Every loop runs; commands end (the subprocess has a timeout) and so do  *)
(* the waits for the holder of the file lock.                              *)
FairSpec == /\ Spec
            /\ \A c \in Callers : WF_vars(Proceed(c))
            /\ \A n \in Flights : WF_vars(Work(n))

-----------------------------------------------------------------------------
(* Properties.                                                             *)

TypeOK == /\ epoch \in [Processes -> Nat]
          /\ registry \in [Processes -> 0 .. flights]
          /\ flights \in 0 .. calls
          /\ lead \in Seq(Callers)
          /\ work \in [Flights -> {"none", "created", "running", "lost", "written", "noted",
                                   "probing"} \cup Outcomes]
          /\ bridge \in [Flights -> {"none", "pending"} \cup Outcomes]
          /\ popped \subseteq Flights
          /\ wrote \subseteq Flights
          /\ stray \subseteq Flights
          /\ flock \in 0 .. flights
          /\ calls \in 0 .. MaxCalls
          /\ pc \in [Callers -> {"idle", "claim", "await", "inspect", "settling"}]
          /\ seen \in [Callers -> Nat]
          /\ on \in [Callers -> 0 .. flights]
          /\ \A c \in Callers : pc[c] \in {"await", "inspect", "settling"} => on[c] # 0
          /\ follows \in [Callers -> 0 .. MaxFollow]
          /\ result \in [Callers -> {"none", "reload", "raised", "cancelled", "timeout"}]
          /\ past \in [Callers -> [settled : SUBSET Flights, noted : SUBSET Flights]]

(* A flight that is not settled is the one its process has registered, so  *)
(* a process never has two of them, although a flight is settled and       *)
(* popped in two steps and another may be claimed in between.  This is     *)
(* about flights: the command of a cancelled leader outlives its flight    *)
(* and may run beside the command of the next one.                         *)
LiveIsRegistered == \A n \in Flights : bridge[n] = "pending" => registry[Process(n)] = n

(* A caller that is told to reload has stored cookies to gain: a command   *)
(* replaced them in a flight that had not been settled when the caller     *)
(* came, or its flight left the refresh to the holder of the file lock.    *)
ReloadIsFresh ==
    \A c \in Callers :
        result[c] = "reload" /\ pc[c] = "idle" =>
            \E n \in Flights \ past[c].settled :
                n \in wrote \/ (n = on[c] /\ work[n] = "returned")

(* Callers that came before a success share it: none of them starts a      *)
(* command after their process has noted the success.                      *)
NoRedundantCommand ==
    [][\A c \in Callers :
         flights' # flights /\ lead'[flights'] = c =>
             \A n \in Flights : Noted(n) /\ Process(n) = Home[c] => n \in past[c].noted]_vars

(* A caller that is cancelled stays until its flight has settled, and then *)
(* the shared command is over, so that it writes no cookies behind the     *)
(* caller's back.  The exception is a flight whose leader was cancelled    *)
(* too: its command cannot be stopped, and nobody waits for it.            *)
CancelSettles ==
    [][\A c \in Callers :
         pc[c] \in {"await", "settling"} /\ pc'[c] = "idle" /\ result'[c] = "cancelled" =>
             /\ BridgeDone(on[c])
             /\ CommandRuns(on[c]) => bridge[on[c]] = "cancelled"]_vars

(* Every call ends, whatever becomes of the leaders it follows.            *)
CallsEnd == \A c \in Callers : pc[c] # "idle" ~> pc[c] = "idle"

=============================================================================
