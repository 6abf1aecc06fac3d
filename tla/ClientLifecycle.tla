---------------------------- MODULE ClientLifecycle ----------------------------
(***************************************************************************)
(* Opening, draining and closing a client                                  *)
(* (src/src/notebooklm/_runtime/lifecycle.py), over the admission that     *)
(* CallSupervisor implements.                                              *)
(*                                                                         *)
(* Tasks call open(), drain() and close(), and run admitted work.  An open *)
(* runs as a wave: the owner's prepare task, and a rollback task when the  *)
(* open fails or its owner is cancelled.  A close runs as one task that    *)
(* every caller awaits.  Cancelling a caller never stops these tasks, but  *)
(* it does change what they do.                                            *)
(*                                                                         *)
(* The epoch numbers both kinds of wave: a generation has at most one open *)
(* wave and at most one close wave.  Transport failures other than in      *)
(* open() are logged or raised after the teardown and change nothing here; *)
(* process-exit signals are not modelled.                                  *)
(***************************************************************************)
EXTENDS Naturals, FiniteSets

CONSTANTS Tasks,      \* asyncio tasks
          Tokens,     \* admission tokens
          Transports, \* number of transports, opened in order
          MaxEpoch    \* bound on the number of generations

ASSUME LifecycleAssumption == MaxEpoch \in Nat /\ Transports \in Nat \ {0}

VARIABLES state,    \* Admission: phase of each generation
          live,     \* Admission: unsettled tokens
          res,      \* _state
          epoch,    \* _epoch
          handles,  \* transports that hold resources
          open,     \* open[e]: the open wave of generation e
          close,    \* close[e]: the close wave of generation e
          pc,       \* where each task is in open, drain or close
          at        \* the generation whose wave or idleness a task awaits

Admission == INSTANCE Admission

admissionVars == <<state, live>>
vars == <<state, live, res, epoch, handles, open, close, pc, at>>

Epochs == 1 .. MaxEpoch

(* prepare: transports still to open, then done.  rollback: the rollback   *)
(* task.  result: the wave's shared future.                                *)
OpenWave == [prepare : {"none", "running", "ok", "failed"},
             next : 1 .. Transports + 1,
             rollback : {"none", "waiting", "releasing", "marking", "done"},
             outcome : {"pending", "OPENED", "ABORTED_BY_OWNER", "FAILED"},
             result : {"pending", "OPENED", "ABORTED_BY_OWNER", "FAILED"}]

CloseWave == [phase : {"none", "stop", "hooks", "idle", "fence", "prepare",
                       "cancel", "release", "mark", "done"},
              drain : BOOLEAN,
              abort : BOOLEAN,
              timedOut : BOOLEAN]

Init == /\ Admission!Init
        /\ res = "CLOSED"
        /\ epoch = 0
        /\ handles = {}
        /\ open = [e \in Epochs |-> [prepare |-> "none", next |-> 1, rollback |-> "none",
                                     outcome |-> "pending", result |-> "pending"]]
        /\ close = [e \in Epochs |-> [phase |-> "none", drain |-> FALSE,
                                      abort |-> FALSE, timedOut |-> FALSE]]
        /\ pc = [t \in Tasks |-> "idle"]
        /\ at = [t \in Tasks |-> 0]

-----------------------------------------------------------------------------
Goto(t, label) == pc' = [pc EXCEPT ![t] = label]

Await(t, label) == /\ Goto(t, label)
                   /\ at' = [at EXCEPT ![t] = epoch]

HoldsAdmission(t) == \E k \in live : k.task = t

(* Work: an idle task enters and leaves one scope of the client.           *)
Work(t) ==
    /\ pc[t] = "idle"
    /\ \/ ~HoldsAdmission(t) /\ \E e \in Epochs, k \in Tokens : Admission!Admit(t, e, k)
       \/ \E k \in live : k.task = t /\ Admission!Settle(k)
    /\ UNCHANGED <<res, epoch, handles, open, close, pc, at>>

(* Fault: a task inside its own scope may shut the client down.            *)
FaultShutdownAlways(t) == t \in Tasks

(* assert_shutdown_allowed: drain() and close() refuse a task that holds   *)
(* admission of any generation.                                            *)
ShutdownAllowed(t) == ~HoldsAdmission(t)

Call(t, label) ==
    /\ pc[t] = "idle"
    /\ label \in {"drain", "close"} => ShutdownAllowed(t)
    /\ Goto(t, label)
    /\ UNCHANGED <<admissionVars, res, epoch, handles, open, close, at>>

(* A waiter whose shielded future is not its own to stop just leaves.      *)
Leave(t) ==
    /\ pc[t] \in {"follow", "closeAfterOpen", "drainAfterOpen", "draining", "idling"}
    /\ Goto(t, "idle")
    /\ UNCHANGED <<admissionVars, res, epoch, handles, open, close, at>>

-----------------------------------------------------------------------------
(* open()                                                                  *)

OpenNow(t) ==
    /\ pc[t] = "open"
    /\ \/ /\ res \in {"OPEN", "CLOSING"}   \* returns, or raises
          /\ Goto(t, "idle")
          /\ UNCHANGED <<res, epoch, open, at>>
       \/ /\ res = "OPENING"
          /\ Await(t, "follow")
          /\ UNCHANGED <<res, epoch, open>>
       \/ /\ res = "CLOSED"
          /\ epoch < MaxEpoch
          /\ epoch' = epoch + 1
          /\ res' = "OPENING"
          /\ open' = [open EXCEPT ![epoch + 1].prepare = "running"]
          /\ pc' = [pc EXCEPT ![t] = "own"]
          /\ at' = [at EXCEPT ![t] = epoch + 1]
       \/ /\ res = "CLOSED"                \* the model has no further generation
          /\ epoch = MaxEpoch
          /\ Goto(t, "idle")
          /\ UNCHANGED <<res, epoch, open, at>>
    /\ UNCHANGED <<admissionVars, handles, close>>

(* First step of the prepare task: the loop participants are reset and the *)
(* admission generation is prepared.                                       *)
PrepareGeneration ==
    /\ res = "OPENING"
    /\ open[epoch].prepare = "running"
    /\ Admission!Prepare(epoch)
    /\ UNCHANGED <<res, epoch, handles, open, close, pc, at>>

(* transport.open: a transport that fails or is cancelled may hold         *)
(* resources already.                                                      *)
OpenTransport ==
    /\ res = "OPENING"
    /\ open[epoch].prepare = "running"
    /\ state[epoch] = "prepared"
    /\ LET n == open[epoch].next IN
       \/ /\ open[epoch].rollback = "none"
          /\ handles' = handles \cup {n}
          /\ open' = [open EXCEPT
                       ![epoch].next = n + 1,
                       ![epoch].prepare = IF n = Transports THEN "ok" ELSE "running"]
       \/ /\ handles' \in {handles, handles \cup {n}}
          /\ open' = [open EXCEPT ![epoch].prepare = "failed"]
    /\ UNCHANGED <<admissionVars, res, epoch, close, pc, at>>

Rollback(e, outcome) ==
    open' = [open EXCEPT ![e].rollback = "waiting", ![e].outcome = outcome]

Commit(t) ==
    /\ pc[t] = "own"
    /\ open[at[t]].prepare = "ok"
    /\ Admission!StartAccepting(at[t])
    /\ res' = "OPEN"
    /\ open' = [open EXCEPT ![at[t]].result = "OPENED"]
    /\ Goto(t, "idle")
    /\ UNCHANGED <<epoch, handles, close, at>>

(* Fault: the followers of a failed open are told before it is undone.     *)
FaultFailAnnounced(t) ==
    /\ pc[t] = "own"
    /\ open[at[t]].prepare = "failed"
    /\ open' = [open EXCEPT ![at[t]].rollback = "waiting", ![at[t]].outcome = "FAILED",
                            ![at[t]].result = "FAILED"]
    /\ Goto(t, "failing")
    /\ UNCHANGED <<admissionVars, res, epoch, handles, close, at>>

FailOpen(t) ==
    /\ pc[t] = "own"
    /\ open[at[t]].prepare = "failed"
    /\ Rollback(at[t], "FAILED")
    /\ Goto(t, "failing")
    /\ UNCHANGED <<admissionVars, res, epoch, handles, close, at>>

(* The owner is cancelled while the prepare task runs or before it resumes *)
(* from it.  The loop is first in first out, so the prepare task has taken *)
(* its first step by then.                                                 *)
CancelOwner(t) ==
    /\ pc[t] = "own"
    /\ state[at[t]] = "prepared"
    /\ Rollback(at[t], "ABORTED_BY_OWNER")
    /\ Goto(t, "aborting")
    /\ UNCHANGED <<admissionVars, res, epoch, handles, close, at>>

(* An owner that failed remembers one cancellation; one that was already   *)
(* cancelled leaves the rollback at once.                                  *)
CancelCleanup(t) ==
    /\ pc[t] \in {"failing", "aborting"}
    /\ open[at[t]].rollback # "done"
    /\ Goto(t, IF pc[t] = "failing" THEN "aborting" ELSE "idle")
    /\ UNCHANGED <<admissionVars, res, epoch, handles, open, close, at>>

Cleaned(t) ==
    /\ pc[t] \in {"failing", "aborting"}
    /\ open[at[t]].rollback = "done"
    /\ Goto(t, "idle")
    /\ UNCHANGED <<admissionVars, res, epoch, handles, open, close, at>>

RollbackStep(from, to) ==
    /\ res = "OPENING"
    /\ open[epoch].rollback = from
    /\ open' = [open EXCEPT ![epoch].rollback = to]
    /\ UNCHANGED <<epoch, close, pc, at>>

RollbackPrepare == /\ RollbackStep("waiting", "releasing")
                 /\ open[epoch].prepare \in {"ok", "failed"}
                 /\ UNCHANGED <<admissionVars, res, handles>>

RollbackRelease == /\ RollbackStep("releasing", "marking")
                   /\ handles' = {}
                   /\ UNCHANGED <<admissionVars, res>>

(* Fault: the rollback forgets the admission generation.                   *)
FaultRollbackUnmarked ==
    /\ res = "OPENING"
    /\ open[epoch].rollback = "marking"
    /\ res' = "CLOSED"
    /\ open' = [open EXCEPT ![epoch].rollback = "done",
                            ![epoch].result = open[epoch].outcome]
    /\ UNCHANGED <<admissionVars, epoch, handles, close, pc, at>>

RollbackMark ==
    /\ res = "OPENING"
    /\ open[epoch].rollback = "marking"
    /\ Admission!Retire(epoch)
    /\ res' = "CLOSED"
    /\ open' = [open EXCEPT ![epoch].rollback = "done",
                            ![epoch].result = open[epoch].outcome]
    /\ UNCHANGED <<epoch, handles, close, pc, at>>

(* A follower tries again when only the owner was cancelled.               *)
Followed(t) ==
    /\ pc[t] = "follow"
    /\ open[at[t]].result # "pending"
    /\ Goto(t, IF open[at[t]].result = "ABORTED_BY_OWNER" THEN "open" ELSE "idle")
    /\ UNCHANGED <<admissionVars, res, epoch, handles, open, close, at>>

-----------------------------------------------------------------------------
(* close()                                                                 *)

(* Fault: close() starts a wave of its own while another one runs.         *)
FaultCloseAgain(t, drain) ==
    /\ pc[t] = "close"
    /\ \/ /\ res = "CLOSED"
          /\ Goto(t, "idle")
          /\ UNCHANGED <<res, close, at>>
       \/ /\ res = "OPENING"
          /\ Await(t, "closeAfterOpen")
          /\ UNCHANGED <<res, close>>
       \/ /\ res \in {"OPEN", "CLOSING"}
          /\ res' = "CLOSING"
          /\ close' = [close EXCEPT ![epoch].phase = IF drain THEN "stop" ELSE "fence",
                                    ![epoch].drain = drain]
          /\ Await(t, "closing")
    /\ UNCHANGED <<admissionVars, epoch, handles, open>>

CloseNow(t, drain) ==
    /\ pc[t] = "close"
    /\ \/ /\ res = "CLOSED"
          /\ Goto(t, "idle")
          /\ UNCHANGED <<res, close, at>>
       \/ /\ res = "OPENING"
          /\ Await(t, "closeAfterOpen")
          /\ UNCHANGED <<res, close>>
       \/ /\ res = "CLOSING"
          /\ Await(t, "closing")
          /\ UNCHANGED <<res, close>>
       \/ /\ res = "OPEN"
          /\ res' = "CLOSING"
          /\ close' = [close EXCEPT ![epoch].phase = IF drain THEN "stop" ELSE "fence",
                                    ![epoch].drain = drain]
          /\ Await(t, "closing")
    /\ UNCHANGED <<admissionVars, epoch, handles, open>>

(* A close() or drain() that found an open wave goes round its loop again, *)
(* or raises what the open failed with.                                    *)
AfterOpen(t) ==
    /\ pc[t] \in {"closeAfterOpen", "drainAfterOpen"}
    /\ open[at[t]].result # "pending"
    /\ Goto(t, IF open[at[t]].result = "FAILED" THEN "idle"
               ELSE IF pc[t] = "closeAfterOpen" THEN "close" ELSE "drain")
    /\ UNCHANGED <<admissionVars, res, epoch, handles, open, close, at>>

Closed(t) ==
    /\ pc[t] \in {"closing", "closingCancelled"}
    /\ close[at[t]].phase = "done"
    /\ Goto(t, "idle")
    /\ UNCHANGED <<admissionVars, res, epoch, handles, open, close, at>>

(* The first cancellation of a waiter ends the grace of the whole wave and *)
(* the waiter stays; the second lets it go.                                *)
CancelClosing(t) ==
    /\ pc[t] \in {"closing", "closingCancelled"}
    /\ close[at[t]].phase # "done"
    /\ IF pc[t] = "closing"
       THEN /\ close' = [close EXCEPT ![at[t]].abort = TRUE]
            /\ Goto(t, "closingCancelled")
       ELSE Goto(t, "idle") /\ UNCHANGED close
    /\ UNCHANGED <<admissionVars, res, epoch, handles, open, at>>

CloseStep(from, to) ==
    /\ res = "CLOSING"
    /\ close[epoch].phase = from
    /\ close' = [close EXCEPT ![epoch].phase = to]
    /\ UNCHANGED <<epoch, open, pc, at>>

StopAccepting == /\ CloseStep("stop", "hooks")
                 /\ Admission!StopAccepting(epoch)
                 /\ UNCHANGED <<res, handles>>

GracefulHooks == /\ CloseStep("hooks", "idle")
                 /\ UNCHANGED <<admissionVars, res, handles>>

WaitForIdle == /\ CloseStep("idle", "fence")
               /\ Admission!LiveOf(epoch) = {}
               /\ UNCHANGED <<admissionVars, res, handles>>

DrainTimeout ==
    /\ res = "CLOSING"
    /\ close[epoch].phase = "idle"
    /\ close' = [close EXCEPT ![epoch].phase = "fence", ![epoch].timedOut = TRUE]
    /\ UNCHANGED <<admissionVars, res, epoch, handles, open, pc, at>>

AbortGraceful ==
    /\ \E from \in {"stop", "hooks", "idle"} : CloseStep(from, "fence")
    /\ close[epoch].abort
    /\ UNCHANGED <<admissionVars, res, handles>>

(* Fault: teardown goes on without the fence.                              *)
FaultNoFence == /\ CloseStep("fence", "prepare")
                /\ UNCHANGED <<admissionVars, res, handles>>

BeginClosing == /\ CloseStep("fence", "prepare")
                /\ Admission!BeginClosing(epoch)
                /\ UNCHANGED <<res, handles>>

PrepareClose == /\ CloseStep("prepare", "cancel")
                /\ UNCHANGED <<admissionVars, res, handles>>

CancelHooks == /\ CloseStep("cancel", "release")
               /\ UNCHANGED <<admissionVars, res, handles>>

CloseResources == /\ CloseStep("release", "mark")
                  /\ handles' = {}
                  /\ UNCHANGED <<admissionVars, res>>

MarkClosed == /\ CloseStep("mark", "done")
              /\ Admission!Retire(epoch)
              /\ res' = "CLOSED"
              /\ UNCHANGED handles

-----------------------------------------------------------------------------
(* drain()                                                                 *)

DrainNow(t) ==
    /\ pc[t] = "drain"
    /\ \/ res = "CLOSED" /\ Goto(t, "idle") /\ UNCHANGED at
       \/ res = "OPENING" /\ Await(t, "drainAfterOpen")
       \/ res = "CLOSING" /\ Await(t, "closing")
       \/ res = "OPEN" /\ Await(t, "draining")
    /\ UNCHANGED <<admissionVars, res, epoch, handles, open, close>>

(* _join_close_race: the epoch is gone, is being closed, or still ours.    *)
JoinRace(t, otherwise) ==
    IF epoch # at[t] \/ res = "CLOSED" THEN Goto(t, "idle")
    ELSE IF res = "CLOSING" THEN Goto(t, "closing")
    ELSE Goto(t, otherwise)

CanStop(e) == Admission!Current(e) /\ state[e] \in {"accepting", "draining"}

DrainStop(t) ==
    /\ pc[t] = "draining"
    /\ IF CanStop(at[t]) THEN Admission!StopAccepting(at[t])
       ELSE UNCHANGED admissionVars
    /\ JoinRace(t, IF CanStop(at[t]) THEN "idling" ELSE "idle")
    /\ UNCHANGED <<res, epoch, handles, open, close, at>>

(* wait_for_idle returns; a generation that was reclaimed is unknown by    *)
(* now, which is the same race.                                            *)
DrainIdle(t) ==
    /\ pc[t] = "idling"
    /\ Admission!LiveOf(at[t]) = {}
    /\ JoinRace(t, "idle")
    /\ UNCHANGED <<admissionVars, res, epoch, handles, open, close, at>>

-----------------------------------------------------------------------------
Waves == \/ PrepareGeneration
         \/ OpenTransport
         \/ RollbackPrepare
         \/ RollbackRelease
         \/ RollbackMark
         \/ StopAccepting
         \/ GracefulHooks
         \/ WaitForIdle
         \/ AbortGraceful
         \/ BeginClosing
         \/ PrepareClose
         \/ CancelHooks
         \/ CloseResources
         \/ MarkClosed

(* What a task does without being told to.                                 *)
Proceed(t) == \/ OpenNow(t)
              \/ Commit(t)
              \/ FailOpen(t)
              \/ Cleaned(t)
              \/ Followed(t)
              \/ \E drain \in BOOLEAN : CloseNow(t, drain)
              \/ AfterOpen(t)
              \/ Closed(t)
              \/ DrainNow(t)
              \/ DrainStop(t)
              \/ DrainIdle(t)

Cancel(t) == \/ Leave(t)
             \/ CancelOwner(t)
             \/ CancelCleanup(t)
             \/ CancelClosing(t)

Next == \/ Waves
        \/ DrainTimeout
        \/ \E t \in Tasks : \/ Work(t)
                            \/ \E label \in {"open", "drain", "close"} : Call(t, label)
                            \/ Proceed(t)
                            \/ Cancel(t)

Spec == Init /\ [][Next]_vars

(* Every task and every wave that can step does, transports and hooks      *)
(* return, and admitted work ends whatever else its task calls.  Calls,    *)
(* cancellations and timeouts need not come.                               *)
Settling(t) == pc[t] = "idle" /\ HoldsAdmission(t) /\ Work(t)

Fairness == /\ WF_vars(Waves)
            /\ \A t \in Tasks : WF_vars(Proceed(t)) /\ SF_vars(Settling(t))

FairSpec == Spec /\ Fairness

-----------------------------------------------------------------------------
(* Properties.                                                             *)

(* The resource state, the admission generation, the transports and the    *)
(* waves describe one and the same client: nothing is admitted without     *)
(* transports and no transport outlives its generation.                    *)
Agreement ==
    /\ \A e \in Epochs : Admission!Current(e) => e = epoch
    /\ res = "CLOSED" => /\ handles = {}
                         /\ \A e \in Epochs : ~Admission!Current(e)
    /\ res = "OPENING" => state[epoch] \in {"unborn", "prepared"}
    /\ res = "OPEN" => /\ state[epoch] \in {"accepting", "draining"}
                       /\ handles = 1 .. Transports
    /\ res = "CLOSING" /\ close[epoch].phase # "mark" => handles = 1 .. Transports

(* Neither stop_accepting nor begin_closing can refuse the close wave's    *)
(* generation, whatever drain() and earlier waves did to it: the paths of  *)
(* _run_close that hand a half-drained client back as OPEN are never taken. *)
CloseNeverReopens ==
    res = "CLOSING" => /\ close[epoch].phase = "stop" => CanStop(epoch)
                       /\ close[epoch].phase = "fence" =>
                            state[epoch] \in {"accepting", "draining", "closing"}

(* What followers are told of an open is what happened: a generation that  *)
(* was not opened never admitted anything.                                 *)
OutcomesTrue ==
    \A e \in Epochs :
        /\ open[e].result = "OPENED" => /\ state[e] \notin {"unborn", "prepared"}
                                        /\ open[e].rollback = "none"
        /\ open[e].result \in {"FAILED", "ABORTED_BY_OWNER"} =>
             state[e] = "closed" /\ Admission!LiveOf(e) = {}

(* Transports lose their resources only behind a fence, after which        *)
(* nothing can be admitted to their generation; and a graceful close that  *)
(* nobody cut short and that did not time out releases them only when all  *)
(* admitted work has ended, although drain(), followers and work run       *)
(* beside it.                                                              *)
ReleaseIsFenced ==
    [][handles' \subseteq handles /\ handles' # handles =>
         /\ state[epoch] \in {"prepared", "closing"}
         /\ \/ res = "OPENING"
            \/ ~close[epoch].drain
            \/ close[epoch].abort
            \/ close[epoch].timedOut
            \/ Admission!LiveOf(epoch) = {}]_vars

(* Every open(), drain() and close() ends: no wave waits for a caller, no  *)
(* caller for work of its own, and no follower for a wave nobody finishes. *)
CallsEnd == \A t \in Tasks : pc[t] # "idle" ~> pc[t] = "idle"

=============================================================================
