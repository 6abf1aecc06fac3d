------------------------------ MODULE AuthRefresh ------------------------------
(***************************************************************************)
(* Requests that meet an expired session, and the refresh they share       *)
(* (src/src/notebooklm/_web/transport: auth.py, session_auth.py,           *)
(* middleware/auth_refresh.py, middleware/retry.py, executor.py,           *)
(* runtime.py; _runtime/auth_refresh_retry.py and retry_budget.py).        *)
(*                                                                         *)
(* A call is admitted to a resource generation, builds its envelope from   *)
(* the current tokens and sends it.  Three layers may send it again: the   *)
(* retry middleware after a 429, a 5xx or a network failure; the refresh   *)
(* middleware after a 401; the executor after a decoded auth error.  The   *)
(* last two await one shared refresh task.  client.refresh_auth() runs the *)
(* same refresh beside it.  close() fences the generation and cancels the  *)
(* task; open() starts the next generation.                                *)
(*                                                                         *)
(* Tokens are versions: each refresh that publishes makes a new one.  The  *)
(* server answers what it likes.  The critical sections of the two asyncio *)
(* locks hold no await, so each is part of one step.                       *)
(***************************************************************************)
EXTENDS Naturals, Sequences

CONSTANTS Callers,    \* asyncio tasks that use the client
          Kinds,      \* the kinds of call they make
          MaxCalls,   \* bound on the number of calls
          MaxEpoch,   \* bound on the number of generations
          MaxRate,    \* rate_limit_max_retries
          MaxServer,  \* server_error_max_retries
          MaxRungs    \* rungs of the recovery ladder

AllKinds == {"read",      \* an RPC that may be sent again
             "mutation",  \* disable_internal_retries
             "chat",      \* disable_read_timeout_retries, no executor
             "refresh",   \* refresh_auth()
             "headless"}  \* refresh_auth(allow_headless=True)

ASSUME AuthRefreshAssumption == /\ {MaxCalls, MaxEpoch, MaxRate, MaxServer, MaxRungs} \subseteq Nat
                                /\ MaxEpoch > 0
                                /\ Kinds \subseteq AllKinds
                                /\ Callers \cap Nat = {}

VARIABLES phase,   \* of the client
          epoch,   \* the latest generation
          tokens,  \* version of auth.csrf_token and auth.session_id
          tasks,   \* every shared refresh task so far; the slot holds the last
          body,    \* body[r]: how far the refresh run by r has come
          rungs,   \* rungs[r]: rungs it has climbed
          calls,   \* number of calls so far
          call     \* call[c]: the call c is in

refreshVars == <<tokens, tasks, body, rungs>>
vars == <<phase, epoch, refreshVars, calls, call>>

(* A refresh is run by a task (a number) or by a caller of its own.        *)
Runners == (1 .. MaxCalls) \cup Callers
Running == {"gated", "fetch", "rung", "save"}
Ended == {"ok", "expired", "error", "cancelled"}

Idle == [kind |-> "none", pc |-> "idle", begun |-> 0, gen |-> 0, carried |-> 0, posts |-> 0,
         wrote |-> FALSE, refreshes |-> 0, spent |-> FALSE, rate |-> 0, server |-> 0,
         layer |-> "none", on |-> 0, ended |-> 0]

Init == /\ phase = "open"
        /\ epoch = 1
        /\ tokens = 1
        /\ tasks = << >>
        /\ body = [r \in Runners |-> "none"]
        /\ rungs = [r \in Runners |-> 0]
        /\ calls = 0
        /\ call = [c \in Callers |-> Idle]

-----------------------------------------------------------------------------
(* Generations.                                                            *)

(* assert_epoch: the coordinator and the Kernel are fenced together.       *)
Active(e) == e = epoch /\ phase \in {"open", "closing"}

Slot == Len(tasks)
Unfinished(n) == body[n] \in Running

(* Fault: a finished task is joined.                                       *)
FaultJoinEnded == Slot > 0

Joinable == Slot > 0 /\ Unfinished(Slot)

TasksEnded == IF Slot > 0 /\ Unfinished(Slot) THEN Slot - 1 ELSE Slot

Goto(c, label) == call' = [call EXCEPT ![c].pc = label]
Finish(c) == call' = [call EXCEPT ![c] = Idle]

EpochOf(r) == IF r \in Callers THEN call[r].gen ELSE tasks[r].epoch

-----------------------------------------------------------------------------
(* The body of a refresh: refresh_auth_session.                            *)

(* The rungs are counted while they may still be climbed.                  *)
To(r, stage, climbed) ==
    /\ body' = [body EXCEPT ![r] = stage]
    /\ rungs' = [rungs EXCEPT ![r] = IF stage \in {"fetch", "rung"} THEN climbed ELSE 0]

TaskStarts(n) ==
    /\ body[n] = "gated"
    /\ ~tasks[n].cancelling
    /\ To(n, IF Active(tasks[n].epoch) THEN "fetch" ELSE "error", 0)
    /\ UNCHANGED <<phase, epoch, tokens, tasks, calls, call>>

CanGoOn(r) == r \in DOMAIN tasks => ~tasks[r].cancelling

(* Fault: the answer is used without asking whether the epoch is retired.  *)
FaultMayPublish(r) == CanGoOn(r)

MayPublish(r) == CanGoOn(r) /\ Active(EpochOf(r))

(* The homepage gives new tokens, published before the next await.         *)
FetchSucceeds(r) ==
    /\ body[r] = "fetch"
    /\ MayPublish(r)
    /\ tokens' = tokens + 1
    /\ tasks' = IF r \in Callers THEN tasks ELSE [tasks EXCEPT ![r].published = tokens + 1]
    /\ To(r, "save", 0)
    /\ UNCHANGED <<phase, epoch, calls, call>>

RungLeft(r) == rungs[r] < MaxRungs

(* The homepage rejects the session, which the rungs may mend; or there is *)
(* no usable answer.  "expired" stands for every ValueError: an access     *)
(* gate or a page of another host raises one without climbing.             *)
FetchFails(r) ==
    /\ body[r] = "fetch"
    /\ MayPublish(r)
    /\ \/ \E failure \in {"error", "expired"} : To(r, failure, 0)
       \/ To(r, IF RungLeft(r) THEN "rung" ELSE "expired", rungs[r])
    /\ UNCHANGED <<phase, epoch, tokens, tasks, calls, call>>

(* Fault: a rung may be climbed again.                                     *)
FaultClimb(r) == rungs[r]

Climb(r) == rungs[r] + 1

(* A rung mends the session, leaves it to the next one, or raises.         *)
RungReturns(r) ==
    /\ body[r] = "rung"
    /\ CanGoOn(r)
    /\ Active(EpochOf(r))
    /\ \/ To(r, "fetch", Climb(r))
       \/ To(r, IF Climb(r) < MaxRungs THEN "rung" ELSE "expired", Climb(r))
       \/ \E failure \in {"error", "expired"} : To(r, failure, 0)
    /\ UNCHANGED <<phase, epoch, tokens, tasks, calls, call>>

(* The new tokens stay, even if the jar could not be saved.                *)
SaveReturns(r) ==
    /\ body[r] = "save"
    /\ CanGoOn(r)
    /\ Active(EpochOf(r))
    /\ To(r, "ok", 0) \/ To(r, "error", 0)
    /\ UNCHANGED <<phase, epoch, tokens, tasks, calls, call>>

(* Any of these awaits returns into a retired generation: RuntimeError.    *)
FindsRetired(r) ==
    /\ body[r] \in {"fetch", "rung", "save"}
    /\ CanGoOn(r)
    /\ ~Active(EpochOf(r))
    /\ To(r, "error", 0)
    /\ UNCHANGED <<phase, epoch, tokens, tasks, calls, call>>

(* The cancelled task ends; its result carries the CancelledError, or the  *)
(* RuntimeError of the check a rung makes in its finally.                  *)
TaskCancelled(n) ==
    /\ body[n] \in Running
    /\ tasks[n].cancelling
    /\ \/ To(n, "cancelled", 0)
       \/ body[n] = "rung" /\ To(n, "error", 0)
    /\ UNCHANGED <<phase, epoch, tokens, tasks, calls, call>>

BodyStep(r) == \/ FetchSucceeds(r)
               \/ FetchFails(r)
               \/ RungReturns(r)
               \/ SaveReturns(r)
               \/ FindsRetired(r)

TaskStep(n) == \/ TaskStarts(n)
               \/ BodyStep(n)
               \/ TaskCancelled(n)

-----------------------------------------------------------------------------
(* Calls: admission, the envelope and the POST.                            *)

(* perform_authed_post and refresh_auth: admitted while the client is      *)
(* open.  A request builds its envelope; refresh_auth() starts a refresh.  *)
Begin(c, kind) ==
    /\ call[c].pc = "idle"
    /\ calls < MaxCalls
    /\ phase = "open"
    /\ calls' = calls + 1
    /\ call' = [call EXCEPT ![c] = [Idle EXCEPT
                    !.kind = kind, !.begun = epoch, !.gen = epoch,
                    !.pc = CASE kind = "refresh" -> "own"
                             [] kind = "headless" -> "claim"
                             [] OTHER -> "ready",
                    !.layer = IF kind = "headless" THEN "explicit" ELSE "none",
                    !.ended = IF kind = "headless" THEN TasksEnded ELSE 0]]
    /\ IF kind = "refresh" THEN To(c, "fetch", 0) ELSE UNCHANGED <<body, rungs>>
    /\ UNCHANGED <<phase, epoch, tokens, tasks>>

(* Fault: a later attempt sends the envelope of the first one.             *)
FaultEnvelope(c) == IF call[c].posts = 0 THEN tokens ELSE call[c].carried

(* refresh_request_for_current_auth rebuilds the envelope whatever the     *)
(* attempt, so those made on the way to the terminal never matter.         *)
Envelope(c) == tokens

(* terminal: nothing is awaited between the check, the rebuild, the POST.  *)
Post(c) ==
    /\ call[c].pc = "ready"
    /\ Active(call[c].gen)
    /\ call' = [call EXCEPT ![c].pc = "posted", ![c].carried = Envelope(c), ![c].posts = @ + 1]
    /\ UNCHANGED <<phase, epoch, refreshVars, calls>>

PostRefused(c) ==
    /\ call[c].pc = "ready"
    /\ ~Active(call[c].gen)
    /\ Finish(c)
    /\ UNCHANGED <<phase, epoch, refreshVars, calls>>

(* An answer that no layer acts on ends the call.                          *)
Answered(c) ==
    /\ call[c].pc = "posted"
    /\ Finish(c)
    /\ UNCHANGED <<phase, epoch, refreshVars, calls>>

(* Fault: the flag of a mutation is not consulted.                         *)
FaultMayReplay(c, failure) ==
    \/ call[c].kind # "chat"
    \/ failure = "unsent"

(* disable_internal_retries forbids every replay; a chat turn is sent      *)
(* again only if nothing of it was sent.                                   *)
MayReplay(c, failure) ==
    \/ call[c].kind = "read"
    \/ call[c].kind = "chat" /\ failure = "unsent"

(* An attempt that reached the server may have been carried out.           *)
Writes(c) == call[c].kind \in {"mutation", "chat"}

(* RetryMiddleware: a 429, or a 5xx or network failure, before the         *)
(* deadline; the counters belong to the logical call.                      *)
RetryLater(c, failure) ==
    /\ call[c].pc = "posted"
    /\ MayReplay(c, failure)
    /\ IF failure = "rate" THEN call[c].rate < MaxRate ELSE call[c].server < MaxServer
    /\ call' = [call EXCEPT ![c].pc = "backoff",
                            ![c].rate = IF failure = "rate" THEN @ + 1 ELSE @,
                            ![c].server = IF failure = "rate" THEN @ ELSE @ + 1,
                            ![c].wrote = @ \/ (Writes(c) /\ failure # "unsent")]
    /\ UNCHANGED <<phase, epoch, refreshVars, calls>>

(* The sleep ends; the original request goes down the chain again, unless  *)
(* the deadline has passed.                                                *)
Backoff(c) ==
    /\ call[c].pc = "backoff"
    /\ Goto(c, "ready") \/ Finish(c)
    /\ UNCHANGED <<phase, epoch, refreshVars, calls>>

-----------------------------------------------------------------------------
(* Calls: the refresh.                                                     *)

(* A 401 refreshes once, for a mutation never, for a chat turn without     *)
(* sending it again; a decoded auth error only if it may be replayed, and  *)
(* then the allowance is claimed at once.                                  *)
MayRefresh(c, layer) == /\ ~call[c].spent
                        /\ \/ call[c].kind = "read"
                           \/ call[c].kind = "chat" /\ layer = "wire"

Rejected(c, layer) ==
    /\ call[c].pc = "posted"
    /\ MayRefresh(c, layer)
    /\ call' = [call EXCEPT ![c].pc = "claim",
                            ![c].layer = layer,
                            ![c].spent = layer = "decoded",
                            ![c].wrote = Writes(c),
                            ![c].ended = TasksEnded]
    /\ UNCHANGED <<phase, epoch, refreshVars, calls>>

(* await_refresh joins the task in the slot or replaces it.                *)
Join(c) ==
    /\ call[c].pc = "claim"
    /\ Active(call[c].gen)
    /\ Joinable
    /\ EpochOf(Slot) = call[c].gen
    /\ call' = [call EXCEPT ![c].pc = "refreshing", ![c].on = Slot, ![c].refreshes = @ + 1]
    /\ UNCHANGED <<phase, epoch, refreshVars, calls>>

Create(c) ==
    /\ call[c].pc = "claim"
    /\ Active(call[c].gen)
    /\ ~Joinable
    /\ tasks' = Append(tasks, [epoch |-> call[c].gen, published |-> 0, cancelling |-> FALSE])
    /\ body' = [body EXCEPT ![Slot + 1] = "gated"]
    /\ call' = [call EXCEPT ![c].pc = "refreshing", ![c].on = Slot + 1, ![c].refreshes = @ + 1]
    /\ UNCHANGED <<phase, epoch, tokens, rungs, calls>>

(* The generation is retired, or the task belongs to another one.          *)
ClaimRefused(c) ==
    /\ call[c].pc = "claim"
    /\ \/ ~Active(call[c].gen)
       \/ Joinable /\ EpochOf(Slot) # call[c].gen
    /\ Finish(c)
    /\ UNCHANGED <<phase, epoch, refreshVars, calls>>

(* A refresh that succeeded uses up the allowance of the call.             *)
Spends(c) == TRUE

Succeeded(c) == body[call[c].on] = "ok" /\ Active(call[c].gen)

(* The shielded wait is over.                                              *)
Refreshed(c) ==
    /\ call[c].pc = "refreshing"
    /\ Succeeded(c)
    /\ IF call[c].kind = "read"
       THEN call' = [call EXCEPT ![c].pc = "resume", ![c].spent = Spends(c), ![c].ended = 0]
       ELSE Finish(c)
    /\ UNCHANGED <<phase, epoch, refreshVars, calls>>

(* The error of the task is raised; refresh_auth(allow_headless=True)      *)
(* answers a ValueError with a refresh of its own.                         *)
RefreshFailed(c) ==
    /\ call[c].pc = "refreshing"
    /\ body[call[c].on] \in Ended
    /\ ~Succeeded(c)
    /\ IF call[c].kind = "headless" /\ body[call[c].on] = "expired" /\ Active(call[c].gen)
       THEN Goto(c, "own") /\ To(c, "fetch", 0)
       ELSE Finish(c) /\ UNCHANGED <<body, rungs>>
    /\ UNCHANGED <<phase, epoch, tokens, tasks, calls>>

(* The pause after a refresh ends: the middleware rebuilds the request.    *)
Rebuild(c) ==
    /\ call[c].pc = "resume"
    /\ call[c].layer = "wire"
    /\ IF Active(call[c].gen)
       THEN call' = [call EXCEPT ![c].pc = "ready", ![c].layer = "none"]
       ELSE Finish(c)
    /\ UNCHANGED <<phase, epoch, refreshVars, calls>>

(* Fault: the second leg counts its retries afresh.                        *)
FaultLeg(c) == [call[c] EXCEPT !.rate = 0, !.server = 0]

(* Admission with expected_epoch: while the client is open or, for a call  *)
(* inside an operation of its own, while it drains.                        *)
Admits(c) == Active(call[c].gen)
Leg(c) == call[c]

(* try_refresh_and_retry: the whole RPC again, under the same allowances.  *)
Readmit(c) ==
    /\ call[c].pc = "resume"
    /\ call[c].layer = "decoded"
    /\ Admits(c)
    /\ call' = [call EXCEPT ![c] = [Leg(c) EXCEPT !.pc = "ready", !.layer = "none", !.gen = epoch]]
    /\ UNCHANGED <<phase, epoch, refreshVars, calls>>

(* The deadline has passed, or admission refuses.                          *)
GiveUp(c) ==
    /\ call[c].pc = "resume"
    /\ call[c].layer = "decoded"
    /\ Finish(c)
    /\ UNCHANGED <<phase, epoch, refreshVars, calls>>

(* refresh_auth() returns or raises.                                       *)
OwnRefreshEnds(c) ==
    /\ call[c].pc = "own"
    /\ body[c] \in Ended
    /\ Finish(c)
    /\ To(c, "none", 0)
    /\ UNCHANGED <<phase, epoch, tokens, tasks, calls>>

(* The wait is shielded: the task goes on.                                 *)
Cancelled(c) == tasks

CancelCall(c) ==
    /\ call[c].pc # "idle"
    /\ Finish(c)
    /\ tasks' = Cancelled(c)
    /\ IF call[c].pc = "own" THEN To(c, "none", 0) ELSE UNCHANGED <<body, rungs>>
    /\ UNCHANGED <<phase, epoch, tokens, calls>>

CallStep(c) == \/ Post(c) \/ PostRefused(c) \/ Answered(c)
               \/ \E failure \in {"rate", "server", "unsent"} : RetryLater(c, failure)
               \/ Backoff(c)
               \/ \E layer \in {"wire", "decoded"} : Rejected(c, layer)
               \/ Join(c) \/ Create(c) \/ ClaimRefused(c)
               \/ Refreshed(c) \/ RefreshFailed(c)
               \/ Rebuild(c) \/ Readmit(c) \/ GiveUp(c)
               \/ OwnRefreshEnds(c)

-----------------------------------------------------------------------------
(* The lifecycle of the client.                                            *)

(* close() admits no more; it may wait for calls, within a limit.          *)
BeginClose ==
    /\ phase = "open"
    /\ phase' = "closing"
    /\ UNCHANGED <<epoch, refreshVars, calls, call>>

(* prepare_close fences and cancels before its first await.                *)
Fence ==
    /\ phase = "closing"
    /\ phase' = "fenced"
    /\ tasks' = IF Joinable THEN [tasks EXCEPT ![Slot].cancelling = TRUE] ELSE tasks
    /\ UNCHANGED <<epoch, tokens, body, rungs, calls, call>>

(* Fault: the cancelled task is not awaited.                               *)
FaultSettled == TRUE

Settled == ~Joinable

Closed ==
    /\ phase = "fenced"
    /\ Settled
    /\ phase' = "closed"
    /\ UNCHANGED <<epoch, refreshVars, calls, call>>

Open ==
    /\ phase = "closed"
    /\ epoch < MaxEpoch
    /\ phase' = "open"
    /\ epoch' = epoch + 1
    /\ UNCHANGED <<refreshVars, calls, call>>

Next == \/ \E c \in Callers : \/ \E kind \in Kinds : Begin(c, kind)
                              \/ CallStep(c)
                              \/ BodyStep(c)
                              \/ CancelCall(c)
        \/ \E n \in 1 .. Len(tasks) : TaskStep(n)
        \/ BeginClose
        \/ Fence
        \/ Closed
        \/ Open

Spec == Init /\ [][Next]_vars

(* Requests and the rungs have timeouts, sleeps end, and the event loop    *)
(* runs whatever is ready; nobody has to call, cancel, close or reopen.    *)
Fairness == /\ \A c \in Callers : WF_vars(CallStep(c)) /\ WF_vars(BodyStep(c))
            /\ \A n \in 1 .. MaxCalls : WF_vars(n \in DOMAIN tasks /\ TaskStep(n))
            /\ WF_vars(Closed)

FairSpec == Spec /\ Fairness

-----------------------------------------------------------------------------
(* Properties.                                                             *)

(* However requests fail, callers leave and generations change, at most    *)
(* one shared refresh task is unfinished: the one in the slot.  It belongs *)
(* to the current generation, is gone before the client is closed, so that *)
(* no later generation meets it, and is cancelled by the close of its      *)
(* generation only, never by a caller that its siblings wait beside.       *)
OneSharedRefresh == \A n \in 1 .. Slot :
    Unfinished(n) => /\ n = Slot
                     /\ tasks[n].epoch = epoch
                     /\ phase # "closed"
                     /\ tasks[n].cancelling => ~Active(epoch)

(* A rejected call waits for a refresh that had not ended when it was      *)
(* rejected: an older success does not count as its answer.                *)
AwaitsLiveRefresh == \A c \in Callers :
    call[c].pc = "refreshing" => call[c].on > call[c].ended

(* After the refresh it waited for, every attempt of a call, whichever     *)
(* layer makes it, carries tokens at least as new as that refresh made.    *)
RetryIsFresh == \A c \in Callers :
    call[c].pc = "posted" /\ call[c].refreshes > 0
        => call[c].carried >= tasks[call[c].on].published

(* However many legs and layers retry a call, it stays one call: it awaits *)
(* one refresh at most, is sent at most once, once more after its refresh  *)
(* and once per allowed retry, and always in the generation it began in.   *)
LegsShareOneCall == \A c \in Callers :
    /\ call[c].refreshes <= 1
    /\ call[c].posts <= 2 + MaxRate + MaxServer
    /\ call[c].gen = call[c].begun

(* A mutation or a chat turn is never on the wire again once an attempt    *)
(* of it may have reached the server.                                      *)
NotReplayed == \A c \in Callers :
    call[c].pc \in {"ready", "posted"} => ~call[c].wrote

(* Tokens are replaced only by a refresh of the generation that is active  *)
(* when they are written: one that close() overtook publishes nothing.     *)
RetiredPublishesNothing ==
    [][tokens' # tokens =>
         \E r \in Runners : body[r] = "fetch" /\ body'[r] = "save" /\ Active(EpochOf(r))]_vars

(* Every call ends, also when close() takes away the refresh it waits for. *)
CallsEnd == \A c \in Callers : call[c].pc # "idle" ~> call[c].pc = "idle"

=============================================================================
