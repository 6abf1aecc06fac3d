---------------------------- MODULE CallSupervisor ----------------------------
(***************************************************************************)
(* Admission, accounting and the RPC slot semaphore of one client          *)
(* (src/src/notebooklm/_runtime/call_supervisor.py).                       *)
(*                                                                         *)
(* An asyncio task runs scopes: workflows (operation_scope), leaf RPCs     *)
(* (call_scope) and, in tasks made by spawn_child, a child body.  Every    *)
(* scope holds one token of the generation it was admitted to.  A scope    *)
(* never returns its token itself: it publishes a settlement task and      *)
(* waits for it, and a cancelled scope may leave before that task runs.    *)
(*                                                                         *)
(* Between two awaits the event loop runs one task only, so each action    *)
(* is one stretch of code between suspension points.  Taking the           *)
(* generation's condition is a suspension point: on the supported Python   *)
(* versions wait_for_idle can hold it across one.                          *)
(*                                                                         *)
(* A cancellation that reaches a body may be raised, swallowed or turned   *)
(* into another exception there, so a body simply ends in either way.      *)
(***************************************************************************)
EXTENDS Integers, Sequences, FiniteSets

CONSTANTS Roots,     \* tasks of the callers
          Children,  \* tasks made by spawn_child
          Tokens,    \* identities of _AdmissionToken objects
          MaxEpoch,  \* bound on the number of generations
          Limit,     \* max_concurrent_rpcs
          MaxDepth   \* bound on the nesting of scopes in one task

ASSUME SupervisorAssumption ==
    /\ Roots \cap Children = {}
    /\ Tokens \subseteq Nat \ {0}
    /\ MaxEpoch \in Nat
    /\ Limit \in Nat \ {0}
    /\ MaxDepth \in Nat

Tasks == Roots \cup Children
Epochs == 1 .. MaxEpoch
NoToken == 0

VARIABLES current,    \* _current: its epoch, 0 for None
          lastEpoch,  \* _last_epoch
          adm,        \* AdmissionGeneration.state
          inFlight,   \* AdmissionGeneration.in_flight
          depths,     \* AdmissionGeneration.depths
          permits,    \* free permits of AdmissionGeneration.semaphore
          retired,    \* keys of _retired
          tokens,     \* the _AdmissionToken objects not yet settled
          published,  \* ids of the tokens whose settlement task exists
          stack       \* the suspended scopes of every task, innermost first

lifecycleVars == <<current, lastEpoch, adm>>
accountVars == <<inFlight, depths, retired, tokens>>
vars == <<lifecycleVars, accountVars, permits, published, stack>>

AdmissionState == {"closed", "accepting", "draining", "closing"}
Token == [id : Tokens, epoch : Epochs, task : Tasks]

(* child: the task a spawn frame waits for.  cancel: what _await_settlement *)
(* knows of cancellation: none, a first one it remembers, or one that was   *)
(* already unwinding the scope when the settlement was published.           *)
FrameRecord == [kind : {"op", "call", "child", "spawn"},
                phase : {"admitting", "queued", "gated", "starting", "reaping",
                         "body", "emitting", "settling"},
                epoch : Epochs,
                token : Tokens \cup {NoToken},
                child : SUBSET Children,
                cancel : {"none", "first", "unwinding"}]

Frame == {f \in FrameRecord :
            f.phase \notin {"admitting", "starting", "reaping"} => f.token \in Tokens}

Init == /\ current = 0
        /\ lastEpoch = 0
        /\ adm = [e \in Epochs |-> "closed"]
        /\ inFlight = [e \in Epochs |-> 0]
        /\ depths = [e \in Epochs |-> [t \in Tasks |-> 0]]
        /\ permits = [e \in Epochs |-> Limit]
        /\ retired = {}
        /\ tokens = {}
        /\ published = {}
        /\ stack = [t \in Tasks |-> <<>>]

-----------------------------------------------------------------------------
(* Frames.                                                                 *)

Top(t) == Head(stack[t])
At(t, phase) == stack[t] # <<>> /\ Top(t).phase = phase
Push(t, frame) == stack' = [stack EXCEPT ![t] = <<frame>> \o @]
Pop(t) == stack' = [stack EXCEPT ![t] = Tail(@)]
Become(t, frame) == stack' = [stack EXCEPT ![t] = <<frame>> \o Tail(@)]
To(t, phase) == Become(t, [Top(t) EXCEPT !.phase = phase])

NewFrame(kind, epoch) ==
    [kind |-> kind, phase |-> "admitting", epoch |-> epoch,
     token |-> NoToken, child |-> {}, cancel |-> "none"]

(* Code that may enter a scope: an idle caller, or the body of a workflow  *)
(* or child.  The body of a call is one transport exchange.                *)
Runs(t) == IF stack[t] = <<>> THEN t \in Roots
           ELSE Top(t).phase = "body" /\ Top(t).kind # "call"

Spawners(c) == {t \in Tasks : \E i \in 1 .. Len(stack[t]) : c \in stack[t][i].child}

(* A child is a new task object: nothing of an earlier one is left.        *)
Fresh(c) == /\ stack[c] = <<>>
            /\ Spawners(c) = {}
            /\ \A k \in tokens : k.task # c

-----------------------------------------------------------------------------
(* Accounting.                                                             *)

Frames == UNION {{stack[t][i] : i \in 1 .. Len(stack[t])} : t \in Tasks}

(* A token object lives as long as anything refers to it.                  *)
Used == {k.id : k \in tokens} \cup {f.token : f \in Frames}
HasFreeToken == \E k \in Tokens : k \notin Used
FreeToken == CHOOSE k \in Tokens : k \notin Used

(* A new token for task t: in_flight and depth move under the condition.   *)
Charge(t, e) ==
    /\ HasFreeToken
    /\ tokens' = tokens \cup {[id |-> FreeToken, epoch |-> e, task |-> t]}
    /\ inFlight' = [inFlight EXCEPT ![e] = @ + 1]
    /\ depths' = [depths EXCEPT ![e][t] = @ + 1]
    /\ UNCHANGED retired

(* Fault: only the current generation is scanned.                          *)
FaultScanCurrentOnly(t, e) == current # 0 /\ current # e /\ depths[current][t] > 0

HasOtherGenerationDepth(t, e) ==
    \E f \in retired \cup ({current} \cap Epochs) : f # e /\ depths[f][t] > 0

(* Fault: draining admits whoever asks.                                    *)
FaultAdmitDraining(t, e) == /\ ~HasOtherGenerationDepth(t, e)
                            /\ adm[e] \in {"accepting", "draining"}

CanAdmit(t, e) ==
    /\ ~HasOtherGenerationDepth(t, e)
    /\ \/ adm[e] = "accepting"
       \/ adm[e] = "draining" /\ depths[e][t] > 0

(* Fault: the condition is not fair.                                       *)
FaultUnfairCondition(t) == stack[t] # <<>>

(* The condition and the loop serve in order, and a settlement that this   *)
(* task left behind asked for the condition before the task does.          *)
HasCondition(t) ==
    \A k \in tokens : k.task = t /\ k.epoch = Top(t).epoch => k.id \notin published

CanSpawn(t, e) == depths[e][t] > 0 /\ adm[e] \in {"accepting", "draining"}

(* _settlement_tasks gains a task; the scope waits for it.                 *)
Publish(t, cancelled) ==
    /\ published' = published \cup {Top(t).token}
    /\ Become(t, [Top(t) EXCEPT
                    !.phase = "settling",
                    !.cancel = IF cancelled THEN "unwinding" ELSE "none"])

-----------------------------------------------------------------------------
(* Entering a scope.                                                       *)

(* Outside any scope spawn_child is refused at once.  A scope is entered   *)
(* only while a token, and a child, can still be named: Tokens, Children   *)
(* and MaxDepth bound the model and not the code.                          *)
BeginScope(t, kind) ==
    /\ current # 0
    /\ Runs(t)
    /\ Len(stack[t]) < MaxDepth
    /\ HasFreeToken
    /\ kind = "spawn" => stack[t] # <<>> /\ \E c \in Children : Fresh(c)
    /\ Push(t, NewFrame(kind, current))
    /\ UNCHANGED <<lifecycleVars, accountVars, permits, published>>

Admit(t) ==
    /\ At(t, "admitting")
    /\ Top(t).kind \in {"op", "call"}
    /\ HasCondition(t)
    /\ CanAdmit(t, Top(t).epoch)
    /\ Charge(t, Top(t).epoch)
    /\ Become(t, [Top(t) EXCEPT
                    !.phase = IF Top(t).kind = "call" THEN "queued" ELSE "body",
                    !.token = FreeToken])
    /\ UNCHANGED <<lifecycleVars, permits, published>>

Refuse(t) ==
    /\ At(t, "admitting")
    /\ HasCondition(t)
    /\ IF Top(t).kind = "spawn" THEN ~CanSpawn(t, Top(t).epoch)
       ELSE ~CanAdmit(t, Top(t).epoch)
    /\ Pop(t)
    /\ UNCHANGED <<lifecycleVars, accountVars, permits, published>>

CancelAdmitting(t) ==
    /\ At(t, "admitting")
    /\ Pop(t)
    /\ UNCHANGED <<lifecycleVars, accountVars, permits, published>>

(* Fault: a caller takes a permit without waiting for one.                 *)
FaultAcquireUnbounded(t) ==
    /\ At(t, "queued")
    /\ To(t, "body")
    /\ permits' = [permits EXCEPT ![Top(t).epoch] = @ - 1]
    /\ UNCHANGED <<lifecycleVars, accountVars, published>>

(* Fault: a queued call is not fenced when it is woken.                    *)
FaultAcquireUnfenced(t) ==
    /\ At(t, "queued")
    /\ permits[Top(t).epoch] > 0
    /\ To(t, "body")
    /\ permits' = [permits EXCEPT ![Top(t).epoch] = @ - 1]
    /\ UNCHANGED <<lifecycleVars, accountVars, published>>

(* A permit that arrives after the generation was fenced is given back.    *)
AcquireSlot(t) ==
    /\ At(t, "queued")
    /\ permits[Top(t).epoch] > 0
    /\ IF adm[Top(t).epoch] \in {"closing", "closed"}
       THEN To(t, "emitting") /\ UNCHANGED permits
       ELSE /\ To(t, "body")
            /\ permits' = [permits EXCEPT ![Top(t).epoch] = @ - 1]
    /\ UNCHANGED <<lifecycleVars, accountVars, published>>

(* Fault: a call that never got a permit releases one.                     *)
FaultLeaveReleases(t, cancelled) ==
    /\ At(t, "queued")
    /\ permits' = [permits EXCEPT ![Top(t).epoch] = @ + 1]
    /\ Publish(t, cancelled)
    /\ UNCHANGED <<lifecycleVars, accountVars>>

(* The queue deadline expires, or the caller is cancelled in the queue.    *)
LeaveQueue(t, cancelled) ==
    /\ At(t, "queued")
    /\ IF cancelled THEN Publish(t, TRUE)
       ELSE To(t, "emitting") /\ UNCHANGED published
    /\ UNCHANGED <<lifecycleVars, accountVars, permits>>

-----------------------------------------------------------------------------
(* Leaving a scope.                                                        *)

EndBody(t, cancelled) ==
    /\ At(t, "body")
    /\ Top(t).kind # "call"
    /\ Publish(t, cancelled)
    /\ UNCHANGED <<lifecycleVars, accountVars, permits>>

(* _complete_call: permit, then telemetry event, then settlement.  A       *)
(* cancelled call emits no event.                                          *)
EndCall(t, cancelled) ==
    /\ At(t, "body")
    /\ Top(t).kind = "call"
    /\ permits' = [permits EXCEPT ![Top(t).epoch] = @ + 1]
    /\ IF cancelled THEN Publish(t, TRUE)
       ELSE To(t, "emitting") /\ UNCHANGED published
    /\ UNCHANGED <<lifecycleVars, accountVars>>

(* The telemetry callback returns, or the call is cancelled inside it.     *)
EndEmit(t, cancelled) ==
    /\ At(t, "emitting")
    /\ Publish(t, cancelled)
    /\ UNCHANGED <<lifecycleVars, accountVars, permits>>

(* Fault: the first settlement forgets the task.                           *)
FaultDepthForgotten(n) == 0

DepthAfter(n) == IF n <= 1 THEN 0 ELSE n - 1

(* Fault: a generation that drains late stays in the table.                *)
FaultNeverReclaimed(e, left) == retired

StillRetired(e, left) ==
    IF left = 0 /\ adm[e] = "closed" THEN retired \ {e} ELSE retired

(* The settlement task: _finish_generation_token.                          *)
Land(k) ==
    /\ k.id \in published
    /\ published' = published \ {k.id}
    /\ tokens' = tokens \ {k}
    /\ depths' = [depths EXCEPT ![k.epoch][k.task] = DepthAfter(@)]
    /\ inFlight' = [inFlight EXCEPT ![k.epoch] = @ - 1]
    /\ retired' = StillRetired(k.epoch, inFlight[k.epoch] - 1)
    /\ UNCHANGED <<lifecycleVars, permits, stack>>

Return(t) ==
    /\ At(t, "settling")
    /\ Top(t).token \notin published
    /\ Pop(t)
    /\ UNCHANGED <<lifecycleVars, accountVars, permits, published>>

(* Fault: the settlement task is awaited without a shield.                 *)
FaultUnshielded(t) ==
    /\ At(t, "settling")
    /\ Top(t).token \in published
    /\ published' = published \ {Top(t).token}
    /\ Pop(t)
    /\ UNCHANGED <<lifecycleVars, accountVars, permits>>

(* The first cancellation of a waiter is remembered; a second one, or any  *)
(* one while the scope was unwinding from a cancellation, abandons it.     *)
CancelSettling(t) ==
    /\ At(t, "settling")
    /\ Top(t).token \in published
    /\ IF Top(t).cancel = "none"
       THEN Become(t, [Top(t) EXCEPT !.cancel = "first"])
       ELSE Pop(t)
    /\ UNCHANGED <<lifecycleVars, accountVars, permits, published>>

-----------------------------------------------------------------------------
(* Child tasks.                                                            *)

SpawnChild(t, c) ==
    /\ At(t, "admitting")
    /\ Top(t).kind = "spawn"
    /\ HasCondition(t)
    /\ Fresh(c)
    /\ CanSpawn(t, Top(t).epoch)
    /\ Charge(c, Top(t).epoch)
    /\ stack' = [stack EXCEPT
         ![t] = <<[Top(t) EXCEPT !.phase = "starting", !.child = {c}]>> \o Tail(@),
         ![c] = <<[NewFrame("child", Top(t).epoch) EXCEPT
                     !.phase = "gated", !.token = FreeToken]>>]
    /\ UNCHANGED <<lifecycleVars, permits, published>>

(* The child's first step: the gate is open by the time it runs.           *)
StartChild(c) ==
    /\ At(c, "gated")
    /\ To(c, "body")
    /\ UNCHANGED <<lifecycleVars, accountVars, permits, published>>

SpawnReturn(t) ==
    /\ At(t, "starting")
    /\ \A c \in Top(t).child : ~At(c, "gated")
    /\ Pop(t)
    /\ UNCHANGED <<lifecycleVars, accountVars, permits, published>>

(* The parent is cancelled while it waits for the start: it cancels the    *)
(* child and gathers it.  The loop is first in first out, so the child's   *)
(* first step, scheduled by create_task, comes before.                     *)
CancelSpawn(t) ==
    /\ At(t, "starting")
    /\ \A c \in Top(t).child : ~At(c, "gated")
    /\ To(t, "reaping")
    /\ UNCHANGED <<lifecycleVars, accountVars, permits, published>>

Reaped(t) ==
    /\ At(t, "reaping")
    /\ \A c \in Top(t).child : stack[c] = <<>>
    /\ Pop(t)
    /\ UNCHANGED <<lifecycleVars, accountVars, permits, published>>

(* Fault: the parent does not settle for a child that never ran.           *)
FaultShutdownLeaks(t, c) ==
    /\ At(t, "starting")
    /\ c \in Top(t).child
    /\ At(c, "gated")
    /\ stack' = [stack EXCEPT ![t] = Tail(@), ![c] = <<>>]
    /\ UNCHANGED <<lifecycleVars, accountVars, permits, published>>

(* Every task of the loop is cancelled before the child's first step: the  *)
(* child's code never runs and the parent settles the child's token.       *)
ShutdownSpawn(t, c) ==
    /\ At(t, "starting")
    /\ c \in Top(t).child
    /\ At(c, "gated")
    /\ published' = published \cup {Top(c).token}
    /\ stack' = [stack EXCEPT
         ![t] = <<[Top(t) EXCEPT !.phase = "settling", !.token = Top(c).token,
                                 !.child = {}, !.cancel = "unwinding"]>> \o Tail(@),
         ![c] = <<>>]
    /\ UNCHANGED <<lifecycleVars, accountVars, permits>>

-----------------------------------------------------------------------------
(* Generations, moved by ClientLifecycle.                                  *)

PrepareGeneration(e) ==
    /\ current = 0
    /\ e = lastEpoch + 1
    /\ e \notin retired
    /\ current' = e
    /\ lastEpoch' = e
    /\ UNCHANGED <<adm, accountVars, permits, published, stack>>

Transition(from, to) ==
    /\ current # 0
    /\ adm[current] \in from
    /\ adm' = [adm EXCEPT ![current] = to]
    /\ UNCHANGED <<current, lastEpoch, accountVars, permits, published, stack>>

StartAccepting == Transition({"closed"}, "accepting")
StopAccepting == Transition({"accepting", "draining"}, "draining")
BeginClosing == Transition({"accepting", "draining", "closing"}, "closing")

(* The lifecycle retires a generation it never started, or a fenced one.   *)
MarkClosed ==
    /\ current # 0
    /\ adm[current] \in {"closed", "closing"}
    /\ adm' = [adm EXCEPT ![current] = "closed"]
    /\ retired' = IF inFlight[current] > 0 THEN retired \cup {current} ELSE retired
    /\ current' = 0
    /\ UNCHANGED <<lastEpoch, inFlight, depths, tokens, permits, published, stack>>

(* The last generation is gone and no task runs.                           *)
Rest == /\ current = 0
        /\ lastEpoch = MaxEpoch
        /\ tokens = {}
        /\ \A t \in Tasks : stack[t] = <<>>
        /\ UNCHANGED vars

Lifecycle == \/ \E e \in Epochs : PrepareGeneration(e)
             \/ StartAccepting
             \/ StopAccepting
             \/ BeginClosing
             \/ MarkClosed

Scope(t) == \/ \E kind \in {"op", "call", "spawn"} : BeginScope(t, kind)
            \/ Admit(t)
            \/ Refuse(t)
            \/ CancelAdmitting(t)
            \/ AcquireSlot(t)
            \/ \E cancelled \in BOOLEAN :
                  \/ LeaveQueue(t, cancelled)
                  \/ EndBody(t, cancelled)
                  \/ EndCall(t, cancelled)
                  \/ EndEmit(t, cancelled)
            \/ Return(t)
            \/ CancelSettling(t)

Spawning(t) == \/ \E c \in Children : SpawnChild(t, c) \/ ShutdownSpawn(t, c)
               \/ SpawnReturn(t)
               \/ CancelSpawn(t)
               \/ Reaped(t)

Next == \/ Lifecycle
        \/ \E t \in Tasks : Scope(t) \/ Spawning(t)
        \/ \E c \in Children : StartChild(c)
        \/ \E k \in tokens : Land(k)
        \/ Rest

Spec == Init /\ [][Next]_vars

-----------------------------------------------------------------------------
(* Fairness.  A task that may step does.  The semaphore wakes its waiters  *)
(* in order, and a body ends at every depth although inner scopes may be   *)
(* entered again and again: both are strong.  So is admission, because the *)
(* names of the model may run out for a while.  Nothing else need happen:  *)
(* no caller has to begin a scope, no cancellation or timeout to arrive.   *)

EndLevel(t, d) == /\ Len(stack[t]) = d
                  /\ \E cancelled \in BOOLEAN : EndBody(t, cancelled) \/ EndCall(t, cancelled)

Fairness ==
    /\ \A t \in Tasks :
          /\ SF_vars(Admit(t) \/ Refuse(t) \/ \E c \in Children : SpawnChild(t, c))
          /\ SF_vars(AcquireSlot(t))
          /\ \A d \in 1 .. MaxDepth : SF_vars(EndLevel(t, d))
          /\ WF_vars(EndEmit(t, FALSE))
          /\ WF_vars(Return(t))
          /\ WF_vars(SpawnReturn(t) \/ Reaped(t))
    /\ \A c \in Children : WF_vars(StartChild(c))
    /\ WF_vars(\E k \in tokens : Land(k))

FairSpec == Spec /\ Fairness

-----------------------------------------------------------------------------
(* Properties.                                                             *)

TokensOf(e) == {k \in tokens : k.epoch = e}
TokensHeld(e, t) == {k \in tokens : k.epoch = e /\ k.task = t}

Fenced(e) == adm[e] \in {"draining", "closing"} \/ (e <= lastEpoch /\ e # current)
Idle(e) == inFlight[e] = 0

(* Every variable keeps its range; counters never go below zero.           *)
TypeOK == /\ current \in {0} \cup Epochs
          /\ lastEpoch \in {0} \cup Epochs
          /\ adm \in [Epochs -> AdmissionState]
          /\ inFlight \in [Epochs -> Nat]
          /\ depths \in [Epochs -> [Tasks -> Nat]]
          /\ permits \in [Epochs -> Nat]
          /\ retired \subseteq Epochs
          /\ tokens \subseteq Token
          /\ published \subseteq Tokens
          /\ stack \in [Tasks -> Seq(Frame)]

(* in_flight and depths of a generation count exactly the tokens that have *)
(* not been settled, whichever of scope, child, parent or settlement task  *)
(* returns them and in whatever order: no leak and no double return.       *)
CountersExact ==
    \A e \in Epochs :
        /\ inFlight[e] = Cardinality(TokensOf(e))
        /\ \A t \in Tasks : depths[e][t] = Cardinality(TokensHeld(e, t))

(* _retired holds exactly the past generations with unsettled tokens: late *)
(* settlement finds its counters there, and a drained one is reclaimed.    *)
RetiredExact ==
    retired = {e \in Epochs : e <= lastEpoch /\ e # current /\ ~Idle(e)}

(* The accounting of a generation, current or retired, is exact.           *)
AccountsExact == CountersExact /\ RetiredExact

(* A task never works for two resource generations at once, however late   *)
(* its settlement and however often the client is reopened meanwhile.      *)
OneGenerationPerTask ==
    \A j, k \in tokens : j.task = k.task => j.epoch = k.epoch

(* Every unsettled token has someone who will return it: the one scope     *)
(* that holds it, or a settlement task that exists.                        *)
EveryTokenHeld ==
    \A k \in tokens :
        \/ k.id \in published
        \/ \E i \in 1 .. Len(stack[k.task]) : stack[k.task][i].token = k.id

(* The semaphore's permits and the calls inside it always add up to        *)
(* max_concurrent_rpcs, through timeouts, cancellation and fenced calls.   *)
PermitsExact ==
    \A e \in Epochs :
        permits[e] + Cardinality({t \in Tasks : /\ At(t, "body")
                                                /\ Top(t).kind = "call"
                                                /\ Top(t).epoch = e}) = Limit

(* Whatever is held will be returned: no cancellation, timeout or shutdown *)
(* between two steps leaks a token or a permit, or returns one twice.      *)
NothingLeaks == EveryTokenHeld /\ PermitsExact

(* Once a fenced generation has no work it never has work again: drain()   *)
(* and close() may act on the moment in which wait_for_idle returned.      *)
IdleStays == [][\A e \in Epochs : Fenced(e) /\ Idle(e) => Idle(e)']_vars

(* While a generation drains, only a task inside one of its scopes enters  *)
(* another: settlements left behind by re-cancelled scopes keep the task's *)
(* depth for a while, and never let it start work anew.                    *)
DrainAdmitsNestedOnly ==
    [][\A t \in Tasks :
         At(t, "admitting") /\ (At(t, "body") \/ At(t, "queued"))'
           /\ tokens' # tokens /\ adm[Top(t).epoch] = "draining"
         => \E i \in 2 .. Len(stack[t]) : stack[t][i].epoch = Top(t).epoch]_vars

(* Transport I/O starts in the current generation only: a call that waited *)
(* for its slot while the client was closed or reopened does not run.      *)
StartsOnCurrent ==
    [][\A t \in Tasks : At(t, "queued") /\ At(t, "body")' => Top(t).epoch = current]_vars

(* A fenced generation becomes idle: neither nested work nor spawned       *)
(* children nor abandoned settlements hold up a drain for ever.            *)
Quiesces == \A e \in Epochs : Fenced(e) ~> Idle(e)

=============================================================================
