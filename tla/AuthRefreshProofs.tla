--------------------------- MODULE AuthRefreshProofs ---------------------------
(***************************************************************************)
(* Safety of the shared refresh and of the retries around it, for any      *)
(* number of callers, calls, generations, retries and rungs; and that      *)
(* every call ends, for the retries and rungs the program has by default.  *)
(***************************************************************************)
EXTENDS AuthRefresh, FiniteSetTheorems, TLAPS

USE AuthRefreshAssumption DEF Slot, Runners

Stages == {"none"} \cup Running \cup Ended

Task == [epoch : Nat, published : Nat, cancelling : BOOLEAN]

Places == {"idle", "ready", "posted", "backoff", "claim", "refreshing", "resume", "own"}

Call == [kind : AllKinds \cup {"none"}, pc : Places, begun : Nat, gen : Nat, carried : Nat,
         posts : Nat, wrote : BOOLEAN, refreshes : Nat, spent : BOOLEAN, rate : Nat,
         server : Nat, layer : {"none", "explicit", "wire", "decoded"}, on : Nat, ended : Nat]

Types == /\ phase \in {"open", "closing", "fenced", "closed"}
         /\ epoch \in Nat
         /\ tokens \in Nat
         /\ tasks \in Seq(Task)
         /\ body \in [Runners -> Stages]
         /\ calls \in 0 .. MaxCalls
         /\ call \in [Callers -> Call]

(* Tasks that do not exist have not run; no task published a version that  *)
(* the client does not have.                                               *)
Sound == /\ \A n \in 1 .. MaxCalls : n > Slot => body[n] = "none"
         /\ \A n \in 1 .. Slot : tasks[n].published <= tokens

(* A call that has awaited no refresh may still start one: there is room   *)
(* for its task.                                                           *)
Owing == {c \in Callers : call[c].pc # "idle" /\ call[c].refreshes = 0}

Counts == IsFiniteSet(Owing) /\ Slot + Cardinality(Owing) <= calls

(* The refresh of a call: not yet, awaited, or over and its allowance gone. *)
Refresh(k) ==
    \/ k.refreshes = 0 /\ k.pc \notin {"refreshing", "resume"}
    \/ /\ k.refreshes = 1 /\ k.on \in 1 .. Slot /\ k.pc # "claim"
       /\ \/ k.pc = "refreshing" /\ k.on > k.ended
          \/ k.pc # "refreshing" /\ body[k.on] \in Ended
       /\ k.pc \in {"ready", "posted", "backoff", "resume"} => k.spent
       /\ k.pc = "posted" => k.carried >= tasks[k.on].published

(* A rejected call knows refreshes that are over.                          *)
Looked(k) == k.pc = "claim" => /\ k.ended <= Slot
                               /\ \A n \in 1 .. k.ended : ~Unfinished(n)

(* Attempts are paid for by retries, by the refresh and by the call itself. *)
Paid(k) == /\ k.rate <= MaxRate /\ k.server <= MaxServer
           /\ k.posts <= k.rate + k.server
                           + (IF k.pc \in {"ready", "posted", "backoff"} THEN k.refreshes ELSE 0)
                           + (IF k.pc \in {"ready", "backoff"} THEN 0 ELSE 1)

(* What may have been carried out is not on its way to the wire.           *)
Kept(k) == /\ k.gen = k.begun
           /\ k.wrote => k.pc \in {"idle", "claim", "refreshing", "own"} /\ k.kind # "read"

Fit(k) == Refresh(k) /\ Looked(k) /\ Paid(k) /\ Kept(k)

AInv == Types /\ Sound /\ Counts /\ OneSharedRefresh /\ \A c \in Callers : Fit(call[c])

-----------------------------------------------------------------------------
LEMMA Bounds == MaxCalls \in Nat /\ MaxEpoch \in Nat /\ MaxRate \in Nat /\ MaxServer \in Nat
OBVIOUS

LEMMA IdleFits == Idle \in Call /\ Fit(Idle)
BY DEF Idle, Call, Places, AllKinds, Fit, Refresh, Looked, Paid, Kept

LEMMA InvInit == Init => AInv
<1> SUFFICES ASSUME Init PROVE AInv
  OBVIOUS
<1>1. Types
  BY IdleFits DEF Init, Types, Stages
<1>2. Owing = {}
  BY DEF Init, Owing, Idle
<1>3. Counts
  BY <1>2, FS_EmptySet DEF Counts, Init
<1>4. Sound /\ OneSharedRefresh
  BY DEF Init, Sound, OneSharedRefresh
<1> QED BY <1>1, <1>3, <1>4, IdleFits DEF Init, AInv

(* A step of one call that leaves the shared tasks alone.                  *)
LEMMA CallerKeeps ==
    ASSUME AInv, NEW c \in Callers, NEW k \in Call,
           UNCHANGED <<phase, epoch, tokens, tasks, calls>>,
           call' = [call EXCEPT ![c] = k],
           Fit(k),
           k.pc # "idle" /\ k.refreshes = 0 => c \in Owing,
           body' \in [Runners -> Stages],
           \A n \in 1 .. MaxCalls : body'[n] = body[n]
    PROVE  AInv'
<1>1. Slot \in Nat /\ Slot <= MaxCalls
  BY FS_CardinalityType DEF AInv, Types, Counts
<1>2. Types'
  BY DEF AInv, Types
<1>3. Sound' /\ OneSharedRefresh'
  BY <1>1 DEF AInv, Sound, OneSharedRefresh, Unfinished, Active
<1>4. Owing' \subseteq Owing
  BY DEF AInv, Types, Owing
<1>5. Counts'
  <2>1. /\ IsFiniteSet(Owing') /\ Cardinality(Owing') <= Cardinality(Owing)
        /\ Cardinality(Owing) \in Nat /\ Cardinality(Owing') \in Nat
    BY <1>4, FS_Subset, FS_CardinalityType DEF AInv, Counts
  <2> QED BY <2>1, <1>1 DEF AInv, Counts, Types
<1>6. ASSUME NEW d \in Callers PROVE Fit(call[d])'
  <2>1. Fit(call'[d])
    BY DEF AInv, Types
  <2>2. call'[d].on \in Nat /\ call'[d].ended \in Nat
    BY DEF AInv, Types, Call
  <2>3. \A n \in 1 .. Slot : n \in 1 .. MaxCalls /\ body'[n] = body[n]
    BY <1>1, Bounds
  <2>4. Refresh(call[d])'
    BY <2>1, <2>2, <2>3 DEF Fit, Refresh
  <2>5. Looked(call[d])'
    BY <1>1, <2>1, <2>2, <2>3 DEF Fit, Looked, Unfinished
  <2> QED BY <2>1, <2>4, <2>5 DEF Fit, Paid, Kept
<1> QED BY <1>2, <1>3, <1>5, <1>6 DEF AInv

-----------------------------------------------------------------------------
(* Calls.                                                                  *)

(* A call that ends leaves the rest as it is.                              *)
LEMMA FinishKeeps ==
    ASSUME AInv, NEW c \in Callers, Finish(c), UNCHANGED <<phase, epoch, tokens, tasks, calls>>,
           UNCHANGED body \/ \E stage \in Stages : body' = [body EXCEPT ![c] = stage]
    PROVE  AInv'
<1>1. body' \in [Runners -> Stages] /\ \A n \in 1 .. MaxCalls : body'[n] = body[n]
  BY DEF AInv, Types
<1>2. Idle.pc = "idle"
  BY DEF Idle
<1> QED BY <1>1, <1>2, IdleFits, CallerKeeps DEF Finish

LEMMA PostKeeps ==
    ASSUME AInv, NEW c \in Callers, Post(c)
    PROVE  AInv'
<1> DEFINE k == call[c]
           new == [k EXCEPT !.pc = "posted", !.carried = tokens, !.posts = k.posts + 1]
<1>1. k \in Call /\ Fit(k) /\ k.pc = "ready" /\ tokens \in Nat
      /\ k.rate \in Nat /\ k.server \in Nat /\ k.posts \in Nat /\ k.refreshes \in Nat /\ k.ended \in Nat
  BY DEF AInv, Types, Call, Post, Envelope
<1>2. call' = [call EXCEPT ![c] = new] /\ UNCHANGED <<phase, epoch, tokens, tasks, body, calls>>
  BY DEF Post, Envelope, refreshVars
<1>3. new \in Call
  <2>1. tokens \in Nat /\ k.posts + 1 \in Nat
    BY <1>1 DEF AInv, Types, Call
  <2> QED BY <1>1, <2>1 DEF Call, Places
<1>4. new.pc = "posted" /\ new.carried = tokens /\ new.posts = k.posts + 1
      /\ new.kind = k.kind /\ new.begun = k.begun /\ new.gen = k.gen /\ new.wrote = k.wrote
      /\ new.refreshes = k.refreshes /\ new.spent = k.spent /\ new.rate = k.rate
      /\ new.server = k.server /\ new.on = k.on /\ new.ended = k.ended
  BY <1>1 DEF Call
<1> HIDE DEF new
<1>5. Fit(new)
  <2>1. /\ k.refreshes \in {0, 1} /\ (k.refreshes = 1 => k.pc # "claim")
        /\ (k.pc = "resume" => k.refreshes = 1)
        /\ (k.refreshes = 1 /\ k.pc \in {"ready", "posted", "backoff", "resume"} => k.spent)
    BY <1>1 DEF Fit, Refresh
  <2>2. Refresh(new)
    BY <1>1, <1>4, <2>1 DEF Fit, Refresh, AInv, Types, Sound
  <2>3. Looked(new)
    BY <1>1, <1>4, <2>1 DEF Fit, Looked, AInv, Types
  <2>4. Paid(new)
    <3>1. k.rate <= MaxRate /\ k.server <= MaxServer /\ k.posts <= k.rate + k.server + k.refreshes
      BY <1>1, <2>1 DEF Fit, Paid
    <3> QED BY <1>1, <1>4, <2>1, <3>1, Bounds DEF Paid
  <2>5. Kept(new)
    BY <1>1, <1>4, <2>1 DEF Fit, Kept
  <2> QED BY <2>2, <2>3, <2>4, <2>5 DEF Fit
<1>6. new.pc # "idle" /\ new.refreshes = 0 => c \in Owing
  BY <1>1, <1>4 DEF Owing
<1> QED BY <1>2, <1>3, <1>5, <1>6, CallerKeeps DEF AInv, Types

LEMMA RetryLaterKeeps ==
    ASSUME AInv, NEW c \in Callers, NEW failure \in {"rate", "server", "unsent"}, RetryLater(c, failure)
    PROVE  AInv'
<1> DEFINE k == call[c]
           new == [k EXCEPT !.pc = "backoff",
                            !.rate = (IF failure = "rate" THEN k.rate + 1 ELSE k.rate),
                            !.server = (IF failure = "rate" THEN k.server ELSE k.server + 1),
                            !.wrote = (k.wrote \/ (Writes(c) /\ failure # "unsent"))]
<1>1. k \in Call /\ Fit(k) /\ k.pc = "posted"
      /\ k.rate \in Nat /\ k.server \in Nat /\ k.posts \in Nat /\ k.refreshes \in Nat /\ k.ended \in Nat
  BY DEF AInv, Types, Call, RetryLater
<1>2. call' = [call EXCEPT ![c] = new] /\ UNCHANGED <<phase, epoch, tokens, tasks, body, calls>>
  BY DEF RetryLater, refreshVars
<1>3. new \in Call
  <2>1. k.rate + 1 \in Nat /\ k.server + 1 \in Nat
    <3>1. k.rate \in Nat /\ k.server \in Nat
      BY <1>1
    <3> QED BY ONLY <3>1
  <2>2. (k.wrote \/ (Writes(c) /\ failure # "unsent")) \in BOOLEAN
    OBVIOUS
  <2> QED BY <1>1, <2>1, <2>2 DEF Call, Places
<1>4. new.pc = "backoff" /\ new.rate = (IF failure = "rate" THEN k.rate + 1 ELSE k.rate)
      /\ new.server = (IF failure = "rate" THEN k.server ELSE k.server + 1)
      /\ new.wrote = (k.wrote \/ (Writes(c) /\ failure # "unsent")) /\ new.kind = k.kind
      /\ new.begun = k.begun /\ new.gen = k.gen /\ new.carried = k.carried
      /\ new.posts = k.posts /\ new.refreshes = k.refreshes /\ new.spent = k.spent
      /\ new.on = k.on /\ new.ended = k.ended
  BY <1>1 DEF Call
<1> HIDE DEF new
<1>5. Fit(new)
  <2>1. /\ k.refreshes \in {0, 1} /\ (k.refreshes = 1 => k.pc # "claim")
        /\ (k.pc = "resume" => k.refreshes = 1)
        /\ (k.refreshes = 1 /\ k.pc \in {"ready", "posted", "backoff", "resume"} => k.spent)
    BY <1>1 DEF Fit, Refresh
  <2>2. Refresh(new)
    BY <1>1, <1>4, <2>1 DEF Fit, Refresh, AInv, Types, Sound, RetryLater, MayReplay, Writes
  <2>3. Looked(new)
    BY <1>1, <1>4, <2>1 DEF Fit, Looked, AInv, Types, RetryLater, MayReplay, Writes
  <2>4. Paid(new)
    <3>1. k.rate <= MaxRate /\ k.server <= MaxServer /\ k.posts <= k.rate + k.server + k.refreshes + 1
      BY <1>1, <2>1 DEF Fit, Paid, RetryLater, MayReplay, Writes
    <3>2. /\ new.pc = "backoff" /\ new.posts = k.posts /\ new.refreshes = k.refreshes
          /\ new.rate \in Nat /\ new.server \in Nat
          /\ new.rate <= MaxRate /\ new.server <= MaxServer
          /\ new.rate + new.server = k.rate + k.server + 1
      <4>1. CASE failure = "rate"
        <5>1. new.rate = k.rate + 1 /\ new.server = k.server
          BY <1>4, <4>1
        <5>2. k.rate < MaxRate
          BY <4>1 DEF RetryLater
        <5> QED BY <1>1, <1>4, <3>1, <5>1, <5>2, Bounds
      <4>2. CASE failure # "rate"
        <5>1. new.rate = k.rate /\ new.server = k.server + 1
          BY <1>4, <4>2
        <5>2. k.server < MaxServer
          BY <4>2 DEF RetryLater
        <5> QED BY <1>1, <1>4, <3>1, <5>1, <5>2, Bounds
      <4> QED BY <4>1, <4>2
    <3> QED BY <1>1, <3>1, <3>2 DEF Paid
  <2>5. Kept(new)
    BY <1>1, <1>4, <2>1 DEF Fit, Kept, RetryLater, MayReplay, Writes
  <2> QED BY <2>2, <2>3, <2>4, <2>5 DEF Fit
<1>6. new.pc # "idle" /\ new.refreshes = 0 => c \in Owing
  BY <1>1, <1>4 DEF Owing
<1> QED BY <1>2, <1>3, <1>5, <1>6, CallerKeeps DEF AInv, Types

LEMMA BackoffKeeps ==
    ASSUME AInv, NEW c \in Callers, call[c].pc = "backoff", Goto(c, "ready"),
           UNCHANGED <<phase, epoch, refreshVars, calls>>
    PROVE  AInv'
<1> DEFINE k == call[c]
           new == [k EXCEPT !.pc = "ready"]
<1>1. k \in Call /\ Fit(k) /\ k.pc = "backoff"
      /\ k.rate \in Nat /\ k.server \in Nat /\ k.posts \in Nat /\ k.refreshes \in Nat /\ k.ended \in Nat
  BY DEF AInv, Types, Call, Goto
<1>2. call' = [call EXCEPT ![c] = new] /\ UNCHANGED <<phase, epoch, tokens, tasks, body, calls>>
  BY DEF Goto, refreshVars
<1>3. new \in Call
  BY <1>1 DEF Call, Places
<1>4. new.pc = "ready" /\ new.kind = k.kind /\ new.begun = k.begun /\ new.gen = k.gen
      /\ new.carried = k.carried /\ new.posts = k.posts /\ new.wrote = k.wrote
      /\ new.refreshes = k.refreshes /\ new.spent = k.spent /\ new.rate = k.rate
      /\ new.server = k.server /\ new.on = k.on /\ new.ended = k.ended
  BY <1>1 DEF Call
<1> HIDE DEF new
<1>5. Fit(new)
  <2>1. /\ k.refreshes \in {0, 1} /\ (k.refreshes = 1 => k.pc # "claim")
        /\ (k.pc = "resume" => k.refreshes = 1)
        /\ (k.refreshes = 1 /\ k.pc \in {"ready", "posted", "backoff", "resume"} => k.spent)
    BY <1>1 DEF Fit, Refresh
  <2>2. Refresh(new)
    BY <1>1, <1>4, <2>1 DEF Fit, Refresh, AInv, Types, Sound
  <2>3. Looked(new)
    BY <1>1, <1>4, <2>1 DEF Fit, Looked, AInv, Types
  <2>4. Paid(new)
    <3>1. k.rate <= MaxRate /\ k.server <= MaxServer /\ k.posts <= k.rate + k.server + k.refreshes
      BY <1>1, <2>1 DEF Fit, Paid
    <3> QED BY <1>1, <1>4, <2>1, <3>1, Bounds DEF Paid
  <2>5. Kept(new)
    BY <1>1, <1>4, <2>1 DEF Fit, Kept
  <2> QED BY <2>2, <2>3, <2>4, <2>5 DEF Fit
<1>6. new.pc # "idle" /\ new.refreshes = 0 => c \in Owing
  BY <1>1, <1>4 DEF Owing
<1> QED BY <1>2, <1>3, <1>5, <1>6, CallerKeeps DEF AInv, Types

LEMMA RejectedKeeps ==
    ASSUME AInv, NEW c \in Callers, NEW layer \in {"wire", "decoded"}, Rejected(c, layer)
    PROVE  AInv'
<1> DEFINE k == call[c]
           new == [k EXCEPT !.pc = "claim", !.layer = layer,
                            !.spent = (layer = "decoded"),
                            !.wrote = Writes(c), !.ended = TasksEnded]
<1>1. k \in Call /\ Fit(k) /\ k.pc = "posted" /\ MayRefresh(c, layer)
      /\ k.rate \in Nat /\ k.server \in Nat /\ k.posts \in Nat /\ k.refreshes \in Nat /\ k.ended \in Nat
  BY DEF AInv, Types, Call, Rejected
<1>2. call' = [call EXCEPT ![c] = new] /\ UNCHANGED <<phase, epoch, tokens, tasks, body, calls>>
  BY DEF Rejected, refreshVars
<1>3. new \in Call
  <2>1. TasksEnded \in Nat /\ Writes(c) \in BOOLEAN
    BY <1>1 DEF TasksEnded, Writes, AInv, Types, Call
  <2> QED BY <1>1, <2>1 DEF Call, Places
<1>4. new.pc = "claim" /\ new.layer = layer /\ new.spent = (layer = "decoded")
      /\ new.wrote = Writes(c) /\ new.ended = TasksEnded /\ new.kind = k.kind
      /\ new.begun = k.begun /\ new.gen = k.gen /\ new.carried = k.carried
      /\ new.posts = k.posts /\ new.refreshes = k.refreshes /\ new.rate = k.rate
      /\ new.server = k.server /\ new.on = k.on
  BY <1>1 DEF Call
<1> HIDE DEF new
<1>5. Fit(new)
  <2>1. /\ k.refreshes \in {0, 1} /\ (k.refreshes = 1 => k.pc # "claim")
        /\ (k.pc = "resume" => k.refreshes = 1)
        /\ (k.refreshes = 1 /\ k.pc \in {"ready", "posted", "backoff", "resume"} => k.spent)
    BY <1>1 DEF Fit, Refresh
  <2>2. Refresh(new)
    BY <1>1, <1>4, <2>1 DEF Fit, Refresh, MayRefresh
  <2>3. Looked(new)
    BY <1>1, <1>4, <2>1 DEF Fit, Looked, AInv, Types, TasksEnded, MayRefresh, Writes, OneSharedRefresh
  <2>4. Paid(new)
    <3>1. k.rate <= MaxRate /\ k.server <= MaxServer /\ k.posts <= k.rate + k.server + 1 /\ k.refreshes = 0
      BY <1>1, <2>1 DEF Fit, Paid, TasksEnded, MayRefresh, Writes, OneSharedRefresh
    <3> QED BY <1>1, <1>4, <2>1, <3>1, Bounds DEF Paid
  <2>5. Kept(new)
    BY <1>1, <1>4, <2>1 DEF Fit, Kept, TasksEnded, MayRefresh, Writes, OneSharedRefresh
  <2> QED BY <2>2, <2>3, <2>4, <2>5 DEF Fit
<1>6. new.pc # "idle" /\ new.refreshes = 0 => c \in Owing
  BY <1>1, <1>4 DEF Owing
<1> QED BY <1>2, <1>3, <1>5, <1>6, CallerKeeps DEF AInv, Types

LEMMA JoinKeeps ==
    ASSUME AInv, NEW c \in Callers, Join(c)
    PROVE  AInv'
<1> DEFINE k == call[c]
           new == [k EXCEPT !.pc = "refreshing", !.on = Slot,
                            !.refreshes = k.refreshes + 1]
<1>1. k \in Call /\ Fit(k) /\ k.pc = "claim" /\ Slot > 0 /\ Unfinished(Slot)
      /\ k.rate \in Nat /\ k.server \in Nat /\ k.posts \in Nat /\ k.refreshes \in Nat /\ k.ended \in Nat
  BY DEF AInv, Types, Call, Join, Joinable
<1>2. call' = [call EXCEPT ![c] = new] /\ UNCHANGED <<phase, epoch, tokens, tasks, body, calls>>
  BY DEF Join, Joinable, refreshVars
<1>3. new \in Call
  <2>1. Slot \in Nat /\ k.refreshes + 1 \in Nat
    BY <1>1 DEF AInv, Types, Call
  <2> QED BY <1>1, <2>1 DEF Call, Places
<1>4. new.pc = "refreshing" /\ new.on = Slot /\ new.refreshes = k.refreshes + 1
      /\ new.kind = k.kind /\ new.begun = k.begun /\ new.gen = k.gen
      /\ new.carried = k.carried /\ new.posts = k.posts /\ new.wrote = k.wrote
      /\ new.spent = k.spent /\ new.rate = k.rate /\ new.server = k.server
      /\ new.ended = k.ended
  BY <1>1 DEF Call
<1> HIDE DEF new
<1>5. Fit(new)
  <2>1. /\ k.refreshes \in {0, 1} /\ (k.refreshes = 1 => k.pc # "claim")
        /\ (k.pc = "resume" => k.refreshes = 1)
        /\ (k.refreshes = 1 /\ k.pc \in {"ready", "posted", "backoff", "resume"} => k.spent)
    BY <1>1 DEF Fit, Refresh
  <2>2. Refresh(new)
    BY <1>1, <1>4, <2>1 DEF Fit, Refresh, AInv, Types, Sound, Looked
  <2>3. Looked(new)
    BY <1>1, <1>4, <2>1 DEF Fit, Looked, AInv, Types, Looked
  <2>4. Paid(new)
    <3>1. k.rate <= MaxRate /\ k.server <= MaxServer /\ k.posts <= k.rate + k.server + 1
      BY <1>1, <2>1 DEF Fit, Paid, Looked
    <3> QED BY <1>1, <1>4, <2>1, <3>1, Bounds DEF Paid
  <2>5. Kept(new)
    BY <1>1, <1>4, <2>1 DEF Fit, Kept, Looked
  <2> QED BY <2>2, <2>3, <2>4, <2>5 DEF Fit
<1>6. new.pc # "idle" /\ new.refreshes = 0 => c \in Owing
  BY <1>1, <1>4 DEF Owing
<1> QED BY <1>2, <1>3, <1>5, <1>6, CallerKeeps DEF AInv, Types

LEMMA RefreshedKeeps ==
    ASSUME AInv, NEW c \in Callers, Refreshed(c), call[c].kind = "read"
    PROVE  AInv'
<1> DEFINE k == call[c]
           new == [k EXCEPT !.pc = "resume", !.spent = TRUE, !.ended = 0]
<1>1. k \in Call /\ Fit(k) /\ k.pc = "refreshing" /\ body[k.on] = "ok" /\ k.kind = "read"
      /\ k.rate \in Nat /\ k.server \in Nat /\ k.posts \in Nat /\ k.refreshes \in Nat /\ k.ended \in Nat
  BY DEF AInv, Types, Call, Refreshed, Spends, Succeeded
<1>2. call' = [call EXCEPT ![c] = new] /\ UNCHANGED <<phase, epoch, tokens, tasks, body, calls>>
  BY DEF Refreshed, Spends, Succeeded, refreshVars
<1>3. new \in Call
  BY <1>1 DEF Call, Places
<1>4. new.pc = "resume" /\ new.spent = TRUE /\ new.ended = 0 /\ new.kind = k.kind
      /\ new.begun = k.begun /\ new.gen = k.gen /\ new.carried = k.carried
      /\ new.posts = k.posts /\ new.wrote = k.wrote /\ new.refreshes = k.refreshes
      /\ new.rate = k.rate /\ new.server = k.server /\ new.on = k.on
  BY <1>1 DEF Call
<1> HIDE DEF new
<1>5. Fit(new)
  <2>1. /\ k.refreshes \in {0, 1} /\ (k.refreshes = 1 => k.pc # "claim")
        /\ (k.pc = "resume" => k.refreshes = 1)
        /\ (k.refreshes = 1 /\ k.pc \in {"ready", "posted", "backoff", "resume"} => k.spent)
    BY <1>1 DEF Fit, Refresh
  <2>2. Refresh(new)
    BY <1>1, <1>4, <2>1 DEF Fit, Refresh, AInv, Types, Sound, Ended
  <2>3. Looked(new)
    BY <1>1, <1>4, <2>1 DEF Fit, Looked, AInv, Types, Ended
  <2>4. Paid(new)
    <3>1. k.rate <= MaxRate /\ k.server <= MaxServer /\ k.posts <= k.rate + k.server + 1
      BY <1>1, <2>1 DEF Fit, Paid, Ended
    <3> QED BY <1>1, <1>4, <2>1, <3>1, Bounds DEF Paid
  <2>5. Kept(new)
    BY <1>1, <1>4, <2>1 DEF Fit, Kept, Ended
  <2> QED BY <2>2, <2>3, <2>4, <2>5 DEF Fit
<1>6. new.pc # "idle" /\ new.refreshes = 0 => c \in Owing
  BY <1>1, <1>4 DEF Owing
<1> QED BY <1>2, <1>3, <1>5, <1>6, CallerKeeps DEF AInv, Types

LEMMA RebuildKeeps ==
    ASSUME AInv, NEW c \in Callers, Rebuild(c), Active(call[c].gen)
    PROVE  AInv'
<1> DEFINE k == call[c]
           new == [k EXCEPT !.pc = "ready", !.layer = "none"]
<1>1. k \in Call /\ Fit(k) /\ k.pc = "resume"
      /\ k.rate \in Nat /\ k.server \in Nat /\ k.posts \in Nat /\ k.refreshes \in Nat /\ k.ended \in Nat
  BY DEF AInv, Types, Call, Rebuild
<1>2. call' = [call EXCEPT ![c] = new] /\ UNCHANGED <<phase, epoch, tokens, tasks, body, calls>>
  BY DEF Rebuild, refreshVars
<1>3. new \in Call
  BY <1>1 DEF Call, Places
<1>4. new.pc = "ready" /\ new.layer = "none" /\ new.kind = k.kind /\ new.begun = k.begun
      /\ new.gen = k.gen /\ new.carried = k.carried /\ new.posts = k.posts
      /\ new.wrote = k.wrote /\ new.refreshes = k.refreshes /\ new.spent = k.spent
      /\ new.rate = k.rate /\ new.server = k.server /\ new.on = k.on /\ new.ended = k.ended
  BY <1>1 DEF Call
<1> HIDE DEF new
<1>5. Fit(new)
  <2>1. /\ k.refreshes \in {0, 1} /\ (k.refreshes = 1 => k.pc # "claim")
        /\ (k.pc = "resume" => k.refreshes = 1)
        /\ (k.refreshes = 1 /\ k.pc \in {"ready", "posted", "backoff", "resume"} => k.spent)
    BY <1>1 DEF Fit, Refresh
  <2>2. Refresh(new)
    BY <1>1, <1>4, <2>1 DEF Fit, Refresh, AInv, Types, Sound
  <2>3. Looked(new)
    BY <1>1, <1>4, <2>1 DEF Fit, Looked, AInv, Types
  <2>4. Paid(new)
    <3>1. k.rate <= MaxRate /\ k.server <= MaxServer /\ k.posts <= k.rate + k.server + 1 /\ k.refreshes = 1
      BY <1>1, <2>1 DEF Fit, Paid
    <3> QED BY <1>1, <1>4, <2>1, <3>1, Bounds DEF Paid
  <2>5. Kept(new)
    BY <1>1, <1>4, <2>1 DEF Fit, Kept
  <2> QED BY <2>2, <2>3, <2>4, <2>5 DEF Fit
<1>6. new.pc # "idle" /\ new.refreshes = 0 => c \in Owing
  BY <1>1, <1>4 DEF Owing
<1> QED BY <1>2, <1>3, <1>5, <1>6, CallerKeeps DEF AInv, Types

LEMMA ReadmitKeeps ==
    ASSUME AInv, NEW c \in Callers, Readmit(c)
    PROVE  AInv'
<1> DEFINE k == call[c]
           new == [k EXCEPT !.pc = "ready", !.layer = "none", !.gen = epoch]
<1>1. k \in Call /\ Fit(k) /\ k.pc = "resume" /\ epoch = k.gen /\ epoch \in Nat
      /\ k.rate \in Nat /\ k.server \in Nat /\ k.posts \in Nat /\ k.refreshes \in Nat /\ k.ended \in Nat
  BY DEF AInv, Types, Call, Readmit, Leg, Admits, Active
<1>2. call' = [call EXCEPT ![c] = new] /\ UNCHANGED <<phase, epoch, tokens, tasks, body, calls>>
  BY DEF Readmit, Leg, Admits, Active, refreshVars
<1>3. new \in Call
  BY <1>1 DEF Call, Places
<1>4. new.pc = "ready" /\ new.layer = "none" /\ new.gen = epoch /\ new.kind = k.kind
      /\ new.begun = k.begun /\ new.carried = k.carried /\ new.posts = k.posts
      /\ new.wrote = k.wrote /\ new.refreshes = k.refreshes /\ new.spent = k.spent
      /\ new.rate = k.rate /\ new.server = k.server /\ new.on = k.on /\ new.ended = k.ended
  BY <1>1 DEF Call
<1> HIDE DEF new
<1>5. Fit(new)
  <2>1. /\ k.refreshes \in {0, 1} /\ (k.refreshes = 1 => k.pc # "claim")
        /\ (k.pc = "resume" => k.refreshes = 1)
        /\ (k.refreshes = 1 /\ k.pc \in {"ready", "posted", "backoff", "resume"} => k.spent)
    BY <1>1 DEF Fit, Refresh
  <2>2. Refresh(new)
    BY <1>1, <1>4, <2>1 DEF Fit, Refresh, AInv, Types, Sound
  <2>3. Looked(new)
    BY <1>1, <1>4, <2>1 DEF Fit, Looked, AInv, Types
  <2>4. Paid(new)
    <3>1. k.rate <= MaxRate /\ k.server <= MaxServer /\ k.posts <= k.rate + k.server + 1 /\ k.refreshes = 1
      BY <1>1, <2>1 DEF Fit, Paid
    <3> QED BY <1>1, <1>4, <2>1, <3>1, Bounds DEF Paid
  <2>5. Kept(new)
    BY <1>1, <1>4, <2>1 DEF Fit, Kept
  <2> QED BY <2>2, <2>3, <2>4, <2>5 DEF Fit
<1>6. new.pc # "idle" /\ new.refreshes = 0 => c \in Owing
  BY <1>1, <1>4 DEF Owing
<1> QED BY <1>2, <1>3, <1>5, <1>6, CallerKeeps DEF AInv, Types

-----------------------------------------------------------------------------
(* Refreshes.                                                              *)
LEMMA Sizes ==
    ASSUME AInv
    PROVE  /\ Slot \in Nat /\ Cardinality(Owing) \in Nat /\ calls \in Nat
           /\ Slot <= calls /\ calls <= MaxCalls
           /\ \A n \in 1 .. Slot : n \in 1 .. MaxCalls /\ n \in Runners /\ tasks[n] \in Task
<1>1. Slot \in Nat /\ Cardinality(Owing) \in Nat /\ calls \in Nat
  BY FS_CardinalityType DEF AInv, Types, Counts
<1>2. Slot <= calls /\ calls <= MaxCalls
  BY <1>1, Bounds DEF AInv, Types, Counts
<1> QED BY <1>1, <1>2, Bounds DEF AInv, Types

(* The steps of a refresh, whoever runs it.                                *)
LEMMA ProgressKeeps ==
    ASSUME AInv, NEW r \in Runners, NEW stage \in Stages,
           body[r] \in Running, body' = [body EXCEPT ![r] = stage],
           UNCHANGED <<phase, epoch, calls, call>>,
           tokens' \in Nat, tokens' >= tokens,
           \/ tasks' = tasks
           \/ r \in 1 .. Slot /\ tasks' = [tasks EXCEPT ![r].published = tokens']
    PROVE  AInv'
<1>1. tasks' \in Seq(Task) /\ Slot' = Slot
      /\ \A n \in 1 .. Slot : /\ tasks'[n].epoch = tasks[n].epoch
                              /\ tasks'[n].cancelling = tasks[n].cancelling
                              /\ tasks'[n].published <= tokens'
                              /\ n # r => tasks'[n].published = tasks[n].published
  <2>1. CASE tasks' = tasks
    <3>1. \A n \in 1 .. Slot : tasks[n].published \in Nat /\ tasks[n].published <= tokens
      BY Sizes DEF AInv, Sound, Task
    <3> QED BY <2>1, <3>1 DEF AInv, Types
  <2>2. CASE r \in 1 .. Slot /\ tasks' = [tasks EXCEPT ![r].published = tokens']
    <3>1. [tasks[r] EXCEPT !.published = tokens'] \in Task
      BY <2>2, Sizes DEF Task
    <3>2. tasks' \in Seq(Task) /\ Slot' = Slot
      BY <2>2, <3>1 DEF AInv, Types
    <3>3. \A n \in 1 .. Slot : tasks'[n] = IF n = r THEN [tasks[r] EXCEPT !.published = tokens']
                                                    ELSE tasks[n]
      BY <2>2 DEF AInv, Types
    <3>4. \A n \in 1 .. Slot : tasks[n].published \in Nat /\ tasks[n].published <= tokens
      BY Sizes DEF AInv, Sound, Task
    <3>5. \A n \in 1 .. Slot : tasks'[n].published = IF n = r THEN tokens' ELSE tasks[n].published
      BY <3>3, Sizes DEF Task
    <3>6. \A n \in 1 .. Slot : /\ tasks'[n].epoch = tasks[n].epoch
                               /\ tasks'[n].cancelling = tasks[n].cancelling
      <4>1. tasks[r] \in Task
        BY <2>2, Sizes
      <4>2. [tasks[r] EXCEPT !.published = tokens'].epoch = tasks[r].epoch
            /\ [tasks[r] EXCEPT !.published = tokens'].cancelling = tasks[r].cancelling
        BY <4>1 DEF Task
      <4> QED BY <3>3, <4>2
    <3> QED BY <3>2, <3>4, <3>5, <3>6 DEF AInv, Types
  <2> QED BY <2>1, <2>2
<1>2. \A n \in Runners : body'[n] = IF n = r THEN stage ELSE body[n]
  BY DEF AInv, Types
<1>3. Types'
  BY <1>1 DEF AInv, Types
<1>4. Sound'
  <2>1. body[r] # "none"
    BY DEF Running
  <2> QED BY <1>1, <1>2, <2>1 DEF AInv, Sound
<1>5. Counts'
  BY <1>1 DEF AInv, Counts, Owing
<1>6. OneSharedRefresh'
  <2>1. ASSUME NEW n \in 1 .. Slot, Unfinished(n)' PROVE Unfinished(n)
    BY <1>2, <2>1, Sizes DEF Unfinished
  <2> QED BY <1>1, <2>1 DEF AInv, OneSharedRefresh, Active
<1>7. ASSUME NEW d \in Callers PROVE Fit(call[d])'
  <2>1. Fit(call[d]) /\ call'[d] = call[d] /\ call[d].on \in Nat /\ call[d].ended \in Nat
    BY DEF AInv, Types, Call
  <2>2. \A n \in 1 .. Slot : body[n] \in Ended => body'[n] = body[n] /\ n # r
    BY <1>2, Sizes DEF Running, Ended
  <2>3. \A n \in 1 .. Slot : ~Unfinished(n) => ~Unfinished(n)'
    BY <1>2, Sizes DEF Unfinished
  <2>4. Refresh(call[d])'
    BY <1>1, <2>1, <2>2 DEF Fit, Refresh
  <2>5. Looked(call[d])'
    BY <1>1, <2>1, <2>3, Sizes DEF Fit, Looked
  <2> QED BY <2>1, <2>4, <2>5 DEF Fit, Paid, Kept
<1> QED BY <1>3, <1>4, <1>5, <1>6, <1>7 DEF AInv

LEMMA RunKeeps ==
    ASSUME AInv, NEW r \in Runners, r \in Callers \/ r \in 1 .. Slot,
           BodyStep(r) \/ (r \in 1 .. Slot /\ TaskStep(r))
    PROVE  AInv'
<1> USE DEF To, Running, Ended, Stages
<1>1. tokens \in Nat
  BY DEF AInv, Types
<1>2. CASE FetchSucceeds(r)
  <2>1. \/ tasks' = tasks
        \/ r \in 1 .. Slot /\ tasks' = [tasks EXCEPT ![r].published = tokens']
    <3>1. tasks' = IF r \in Callers THEN tasks ELSE [tasks EXCEPT ![r].published = tokens + 1]
      BY <1>2 DEF FetchSucceeds
    <3>2. tokens' = tokens + 1
      BY <1>2 DEF FetchSucceeds
    <3> QED BY <3>1, <3>2
  <2>2. tokens' \in Nat /\ tokens' >= tokens /\ body' = [body EXCEPT ![r] = "save"]
        /\ body[r] = "fetch" /\ UNCHANGED <<phase, epoch, calls, call>>
    BY <1>1, <1>2 DEF FetchSucceeds
  <2>3. body[r] \in Running /\ "save" \in Stages
    BY <2>2
  <2> HIDE DEF To, Running, Ended, Stages
  <2> QED BY <2>1, <2>2, <2>3, ProgressKeeps
<1>3. ASSUME \/ FetchFails(r) \/ RungReturns(r) \/ SaveReturns(r) \/ FindsRetired(r)
             \/ TaskStarts(r) \/ TaskCancelled(r)
      PROVE  AInv'
  <2>1. UNCHANGED <<phase, epoch, tokens, tasks, calls, call>> /\ body[r] \in Running
    BY <1>3 DEF FetchFails, RungReturns, SaveReturns, FindsRetired, TaskStarts, TaskCancelled
  <2>2. \E stage \in Stages : body' = [body EXCEPT ![r] = stage]
    BY <1>3 DEF FetchFails, RungReturns, SaveReturns, FindsRetired, TaskStarts, TaskCancelled
  <2>3. PICK stage \in Stages : body' = [body EXCEPT ![r] = stage]
    BY <2>2
  <2> HIDE DEF To, Running, Ended, Stages
  <2>4. tokens' \in Nat /\ tokens' >= tokens /\ tasks' = tasks
    BY <1>1, <2>1
  <2> QED BY <2>1, <2>3, <2>4, ProgressKeeps
<1> QED BY <1>2, <1>3 DEF BodyStep, TaskStep

-----------------------------------------------------------------------------
(* The calls of the others, when tasks are at most added.                  *)
LEMMA OthersFit ==
    ASSUME AInv, NEW d \in Callers, call'[d] = call[d], Slot' \in Nat, Slot' >= Slot,
           \A n \in 1 .. Slot : body'[n] = body[n] /\ tasks'[n].published = tasks[n].published
    PROVE  Fit(call[d])'
<1>1. Fit(call[d]) /\ call[d].on \in Nat /\ call[d].ended \in Nat /\ Slot \in Nat
  BY Sizes DEF AInv, Types, Call
<1>2. Refresh(call[d])'
  BY <1>1 DEF Fit, Refresh
<1>3. Looked(call[d])'
  <2>1. \A n \in 1 .. Slot : ~Unfinished(n) => ~Unfinished(n)'
    BY DEF Unfinished
  <2>2. ASSUME call[d].pc = "claim" PROVE \A n \in 1 .. call[d].ended : n \in 1 .. Slot /\ ~Unfinished(n)
    BY <1>1, <2>2 DEF Fit, Looked
  <2>3. ASSUME call[d].pc = "claim" PROVE call[d].ended <= Slot'
    BY <1>1, <2>3 DEF Fit, Looked
  <2> QED BY <2>1, <2>2, <2>3 DEF Looked
<1> QED BY <1>1, <1>2, <1>3 DEF Fit, Paid, Kept

LEMMA CreateKeeps ==
    ASSUME AInv, NEW c \in Callers, Create(c)
    PROVE  AInv'
<1> DEFINE k == call[c]
           new == [k EXCEPT !.pc = "refreshing", !.on = Slot + 1, !.refreshes = k.refreshes + 1]
           task == [epoch |-> k.gen, published |-> 0, cancelling |-> FALSE]
<1>1. k \in Call /\ Fit(k) /\ k.pc = "claim" /\ k.refreshes = 0 /\ c \in Owing
      /\ k.rate \in Nat /\ k.server \in Nat /\ k.posts \in Nat /\ k.ended \in Nat /\ k.gen \in Nat
  BY DEF AInv, Types, Call, Create, Fit, Refresh, Owing
<1>2. /\ call' = [call EXCEPT ![c] = new] /\ tasks' = Append(tasks, task)
      /\ body' = [body EXCEPT ![Slot + 1] = "gated"]
      /\ UNCHANGED <<phase, epoch, tokens, calls>> /\ Active(k.gen) /\ ~Joinable
  BY DEF Create
<1>3. IsFiniteSet(Owing) /\ Cardinality(Owing \ {c}) = Cardinality(Owing) - 1
      /\ IsFiniteSet(Owing \ {c})
  BY <1>1, FS_RemoveElement DEF AInv, Counts
<1>4. Cardinality(Owing \ {c}) \in Nat
  BY <1>3, FS_CardinalityType
<1>5. Slot + 1 \in 1 .. MaxCalls /\ Slot + 1 <= calls
  BY <1>3, <1>4, Sizes, Bounds DEF AInv, Counts
<1>6. new \in Call
  <2>1. Slot + 1 \in Nat /\ k.refreshes + 1 \in Nat
    BY <1>1, Sizes
  <2> QED BY <1>1, <2>1 DEF Call, Places
<1>7. new.pc = "refreshing" /\ new.on = Slot + 1 /\ new.refreshes = 1 /\ new.ended = k.ended
      /\ new.rate = k.rate /\ new.server = k.server /\ new.posts = k.posts /\ new.gen = k.gen
      /\ new.begun = k.begun /\ new.wrote = k.wrote /\ new.kind = k.kind
  BY <1>1 DEF Call
<1> HIDE DEF new
<1>8. task \in Task /\ tasks' \in Seq(Task) /\ Slot' = Slot + 1 /\ tasks'[Slot + 1] = task
      /\ \A n \in 1 .. Slot : tasks'[n] = tasks[n]
  <2>1. task \in Task
    BY <1>1 DEF Task
  <2> QED BY <1>2, <2>1 DEF AInv, Types
<1>9. \A n \in 1 .. MaxCalls : body'[n] = IF n = Slot + 1 THEN "gated" ELSE body[n]
  BY <1>2 DEF AInv, Types
<1>10. Types'
  BY <1>2, <1>6, <1>8 DEF AInv, Types, Stages, Running
<1>11. Sound'
  <2>1. task.published = 0 /\ tokens \in Nat
    BY DEF AInv, Types
  <2>2. \A n \in 1 .. Slot + 1 : tasks'[n].published <= tokens
    BY <1>8, <2>1, Sizes DEF AInv, Sound
  <2> QED BY <1>2, <1>8, <1>9, <2>2, Sizes DEF AInv, Sound
<1>12. Counts'
  <2>1. Owing' = Owing \ {c}
    BY <1>2, <1>7 DEF AInv, Types, Owing
  <2> QED BY <1>2, <1>3, <1>4, <1>8, <2>1, Sizes DEF AInv, Counts
<1>13. OneSharedRefresh'
  <2>1. \A n \in 1 .. Slot : ~Unfinished(n)
    BY <1>2, Sizes DEF AInv, OneSharedRefresh, Joinable
  <2>2. \A n \in 1 .. Slot : ~Unfinished(n)'
    BY <1>9, <2>1, Sizes DEF Unfinished
  <2>3. task.epoch = epoch /\ task.cancelling = FALSE /\ phase # "closed"
    BY <1>2 DEF Active
  <2> QED BY <1>2, <1>8, <2>2, <2>3, Sizes DEF OneSharedRefresh
<1>14. ASSUME NEW d \in Callers PROVE Fit(call[d])'
  <2>1. CASE d = c
    <3>1. call'[d] = new
      BY <1>2, <2>1 DEF AInv, Types
    <3>2. k.ended <= Slot /\ k.rate <= MaxRate /\ k.server <= MaxServer
          /\ k.posts <= k.rate + k.server + 1 /\ k.gen = k.begun
          /\ (k.wrote => k.kind # "read")
      BY <1>1 DEF Fit, Looked, Paid, Kept
    <3>3. Refresh(call[d])'
      <4>1. Slot' = Slot + 1
        BY <1>8
      <4>2. k.ended \in Nat /\ k.ended <= Slot /\ Slot \in Nat
        BY <1>1, <3>2, Sizes
      <4>3. Slot + 1 > k.ended /\ Slot + 1 \in 1 .. Slot'
        <5> HIDE DEF k
        <5> QED BY <4>1, <4>2
      <4> QED BY <1>7, <3>1, <4>3 DEF Refresh
    <3>6. Looked(call[d])'
      BY <1>7, <3>1 DEF Looked
    <3>4. Paid(call[d])'
      BY <1>1, <1>7, <3>1, <3>2, Bounds DEF Paid
    <3>5. Kept(call[d])'
      BY <1>7, <3>1, <3>2 DEF Kept
    <3> QED BY <3>3, <3>4, <3>5, <3>6 DEF Fit
  <2>2. CASE d # c
    <3>1. call'[d] = call[d]
      BY <1>2, <2>2 DEF AInv, Types
    <3> QED BY <1>8, <1>9, <3>1, OthersFit, Sizes
  <2> QED BY <2>1, <2>2
<1> QED BY <1>10, <1>11, <1>12, <1>13, <1>14 DEF AInv

-----------------------------------------------------------------------------
(* A call begins.                                                          *)
LEMMA BeginKeeps ==
    ASSUME AInv, NEW c \in Callers, NEW kind \in Kinds, Begin(c, kind)
    PROVE  AInv'
<1> DEFINE new == [Idle EXCEPT
                      !.kind = kind, !.begun = epoch, !.gen = epoch,
                      !.pc = CASE kind = "refresh" -> "own"
                               [] kind = "headless" -> "claim"
                               [] OTHER -> "ready",
                      !.layer = IF kind = "headless" THEN "explicit" ELSE "none",
                      !.ended = IF kind = "headless" THEN TasksEnded ELSE 0]
<1>1. /\ call' = [call EXCEPT ![c] = new] /\ calls' = calls + 1 /\ calls < MaxCalls
      /\ UNCHANGED <<phase, epoch, tokens, tasks>>
      /\ body' = body \/ body' = [body EXCEPT ![c] = "fetch"]
  BY DEF Begin, To
<1>2. kind \in AllKinds /\ epoch \in Nat /\ Slot \in Nat /\ calls \in Nat
  BY Sizes DEF AInv, Types
<1>3. /\ TasksEnded \in Nat /\ TasksEnded <= Slot
      /\ \A n \in 1 .. TasksEnded : ~Unfinished(n)
  BY <1>2 DEF AInv, OneSharedRefresh, TasksEnded
<1>4. /\ new.pc \in {"own", "claim", "ready"} /\ new.refreshes = 0 /\ new.posts = 0
      /\ new.rate = 0 /\ new.server = 0 /\ new.wrote = FALSE
      /\ new.gen = epoch /\ new.begun = epoch
      /\ new.pc = "claim" => new.ended = TasksEnded
  BY <1>2 DEF Idle, AllKinds
<1>5. new \in Call
  BY <1>2, <1>3 DEF Idle, Call, Places, AllKinds
<1> HIDE DEF new
<1>6. Fit(new)
  <2>1. Looked(new)
    BY <1>3, <1>4 DEF Looked
  <2>2. Refresh(new) /\ Paid(new) /\ Kept(new)
    BY <1>2, <1>4, Bounds DEF Refresh, Paid, Kept
  <2> QED BY <2>1, <2>2 DEF Fit
<1>7. body' \in [Runners -> Stages] /\ \A n \in 1 .. MaxCalls : body'[n] = body[n]
  <2>1. c \notin 1 .. MaxCalls /\ "fetch" \in Stages
    BY DEF Stages, Running
  <2> QED BY <1>1, <2>1 DEF AInv, Types
<1>8. Types'
  BY <1>1, <1>2, <1>5, <1>7, Bounds DEF AInv, Types
<1>9. Sound' /\ OneSharedRefresh'
  BY <1>1, <1>7, Sizes DEF AInv, Sound, OneSharedRefresh, Unfinished, Active
<1>10. Counts'
  <2>1. Owing' \subseteq Owing \cup {c}
    BY <1>1 DEF AInv, Types, Owing
  <2>2. IsFiniteSet(Owing \cup {c}) /\ Cardinality(Owing \cup {c}) <= Cardinality(Owing) + 1
        /\ Cardinality(Owing \cup {c}) \in Nat
    <3>1. IsFiniteSet(Owing) /\ Cardinality(Owing) \in Nat
      BY FS_CardinalityType DEF AInv, Counts
    <3>2. IsFiniteSet(Owing \cup {c})
          /\ \/ Cardinality(Owing \cup {c}) = Cardinality(Owing)
             \/ Cardinality(Owing \cup {c}) = Cardinality(Owing) + 1
      BY <3>1, FS_AddElement
    <3> QED BY <3>1, <3>2
  <2>3. IsFiniteSet(Owing') /\ Cardinality(Owing') <= Cardinality(Owing \cup {c})
        /\ Cardinality(Owing') \in Nat
    BY <2>1, <2>2, FS_Subset, FS_CardinalityType
  <2>4. Slot + Cardinality(Owing) <= calls /\ Cardinality(Owing) \in Nat
    BY Sizes DEF AInv, Counts
  <2> QED BY <1>1, <1>2, <2>2, <2>3, <2>4 DEF Counts
<1>11. ASSUME NEW d \in Callers PROVE Fit(call[d])'
  <2>1. CASE d = c
    <3>1. call'[d] = new
      BY <1>1, <2>1 DEF AInv, Types
    <3>2. Looked(call[d])'
      BY <1>1, <1>3, <1>4, <1>7, <3>1, Sizes DEF Looked, Unfinished
    <3> QED BY <1>4, <1>6, <3>1, <3>2 DEF Fit, Refresh, Paid, Kept
  <2>2. CASE d # c
    <3>1. call'[d] = call[d]
      BY <1>1, <2>2 DEF AInv, Types
    <3> QED BY <1>1, <1>7, <3>1, OthersFit, Sizes
  <2> QED BY <2>1, <2>2
<1> QED BY <1>8, <1>9, <1>10, <1>11 DEF AInv

(* refresh_auth(allow_headless=True) goes on with a refresh of its own.    *)
LEMMA OwnKeeps ==
    ASSUME AInv, NEW c \in Callers, call[c].pc = "refreshing", body[call[c].on] \in Ended,
           Goto(c, "own"), body' = [body EXCEPT ![c] = "fetch"],
           UNCHANGED <<phase, epoch, tokens, tasks, calls>>
    PROVE  AInv'
<1> DEFINE k == call[c]
           new == [k EXCEPT !.pc = "own"]
<1>1. k \in Call /\ Fit(k) /\ call' = [call EXCEPT ![c] = new]
  BY DEF AInv, Types, Goto
<1>2. new \in Call /\ new.pc = "own" /\ new.refreshes = k.refreshes /\ new.on = k.on
      /\ new.rate = k.rate /\ new.server = k.server /\ new.posts = k.posts
      /\ new.gen = k.gen /\ new.begun = k.begun /\ new.wrote = k.wrote /\ new.kind = k.kind
  BY <1>1 DEF Call, Places
<1> HIDE DEF new
<1>3. Fit(new)
  <2>1. Refresh(new) /\ new.refreshes # 0
    BY <1>1, <1>2 DEF Fit, Refresh
  <2>2. Looked(new) /\ Kept(new)
    BY <1>1, <1>2 DEF Fit, Looked, Kept
  <2>3. Paid(new)
    BY <1>1, <1>2 DEF Fit, Paid
  <2> QED BY <2>1, <2>2, <2>3 DEF Fit
<1>4. new.refreshes # 0
  BY <1>1, <1>2 DEF Fit, Refresh
<1>5. body' \in [Runners -> Stages] /\ \A n \in 1 .. MaxCalls : body'[n] = body[n]
  BY DEF AInv, Types, Stages, Running
<1> QED BY <1>1, <1>2, <1>3, <1>4, <1>5, CallerKeeps

-----------------------------------------------------------------------------
(* The lifecycle of the client.                                            *)
LEMMA LifecycleKeeps ==
    ASSUME AInv, BeginClose \/ Fence \/ Closed \/ Open
    PROVE  AInv'
<1>1. /\ UNCHANGED <<tokens, body, calls, call>> /\ epoch' \in Nat
      /\ phase' \in {"open", "closing", "fenced", "closed"}
  BY DEF AInv, Types, BeginClose, Fence, Closed, Open, refreshVars
<1>2. /\ tasks' \in Seq(Task) /\ Slot' = Slot
      /\ \A n \in 1 .. Slot : tasks'[n].published = tasks[n].published
  <2>1. CASE tasks' = tasks
    BY <2>1 DEF AInv, Types
  <2>2. CASE Joinable /\ tasks' = [tasks EXCEPT ![Slot].cancelling = TRUE]
    <3>1. Slot \in 1 .. Slot /\ tasks[Slot] \in Task
      BY <2>2, Sizes DEF Joinable
    <3>2. [tasks[Slot] EXCEPT !.cancelling = TRUE] \in Task
          /\ [tasks[Slot] EXCEPT !.cancelling = TRUE].published = tasks[Slot].published
      BY <3>1 DEF Task
    <3> QED BY <2>2, <3>1, <3>2 DEF AInv, Types
  <2> QED BY <2>1, <2>2 DEF BeginClose, Fence, Closed, Open, refreshVars
<1>3. OneSharedRefresh'
  <2>1. CASE BeginClose
    BY <2>1 DEF AInv, OneSharedRefresh, BeginClose, refreshVars, Unfinished, Active
  <2>2. CASE Fence
    <3>1. \A n \in 1 .. Slot : tasks'[n].epoch = tasks[n].epoch
      <4>1. CASE tasks' = tasks
        BY <4>1
      <4>2. CASE Joinable /\ tasks' = [tasks EXCEPT ![Slot].cancelling = TRUE]
        <5>1. Slot \in 1 .. Slot /\ tasks[Slot] \in Task
          BY <4>2, Sizes DEF Joinable
        <5>2. [tasks[Slot] EXCEPT !.cancelling = TRUE].epoch = tasks[Slot].epoch
          BY <5>1 DEF Task
        <5> QED BY <4>2, <5>1, <5>2 DEF AInv, Types
      <4> QED BY <2>2, <4>1, <4>2 DEF Fence
    <3>2. phase' = "fenced" /\ epoch' = epoch /\ body' = body
      BY <2>2 DEF Fence
    <3> QED BY <1>2, <3>1, <3>2 DEF AInv, OneSharedRefresh, Unfinished, Active
  <2>3. ASSUME Closed \/ Open PROVE \A n \in 1 .. Slot : ~Unfinished(n)
    BY <2>3, Sizes DEF AInv, OneSharedRefresh, Closed, Settled, Joinable, Open
  <2> QED BY <1>1, <1>2, <2>1, <2>2, <2>3 DEF OneSharedRefresh, Unfinished
<1>4. Types' /\ Sound' /\ Counts'
  BY <1>1, <1>2 DEF AInv, Types, Sound, Counts, Owing
<1>5. ASSUME NEW d \in Callers PROVE Fit(call[d])'
  BY <1>1, <1>2, OthersFit, Sizes
<1> QED BY <1>3, <1>4, <1>5 DEF AInv

-----------------------------------------------------------------------------
LEMMA CallKeeps ==
    ASSUME AInv, NEW c \in Callers, CallStep(c) \/ CancelCall(c)
    PROVE  AInv'
<1> USE DEF refreshVars
<1>1. CASE Post(c)
  BY <1>1, PostKeeps
<1>2. CASE PostRefused(c) \/ Answered(c) \/ ClaimRefused(c) \/ GiveUp(c)
  BY <1>2, FinishKeeps DEF PostRefused, Answered, ClaimRefused, GiveUp
<1>3. ASSUME NEW failure \in {"rate", "server", "unsent"}, RetryLater(c, failure) PROVE AInv'
  BY <1>3, RetryLaterKeeps
<1>4. CASE Backoff(c)
  BY <1>4, BackoffKeeps, FinishKeeps DEF Backoff
<1>5. ASSUME NEW layer \in {"wire", "decoded"}, Rejected(c, layer) PROVE AInv'
  BY <1>5, RejectedKeeps
<1>6. CASE Join(c)
  BY <1>6, JoinKeeps
<1>7. CASE Create(c)
  BY <1>7, CreateKeeps
<1>8. CASE Refreshed(c)
  BY <1>8, RefreshedKeeps, FinishKeeps DEF Refreshed
<1>9. CASE RefreshFailed(c)
  <2>1. CASE Goto(c, "own") /\ To(c, "fetch", 0)
    BY <1>9, <2>1, OwnKeeps DEF RefreshFailed, To
  <2>2. CASE Finish(c) /\ UNCHANGED <<body, rungs>>
    BY <1>9, <2>2, FinishKeeps DEF RefreshFailed
  <2> QED BY <1>9, <2>1, <2>2 DEF RefreshFailed
<1>10. CASE Rebuild(c)
  BY <1>10, RebuildKeeps, FinishKeeps DEF Rebuild
<1>11. CASE Readmit(c)
  BY <1>11, ReadmitKeeps
<1>12. CASE OwnRefreshEnds(c) \/ CancelCall(c)
  <2>1. UNCHANGED body \/ body' = [body EXCEPT ![c] = "none"]
    BY <1>12 DEF OwnRefreshEnds, CancelCall, To
  <2>2. Finish(c) /\ UNCHANGED <<phase, epoch, tokens, tasks, calls>>
    BY <1>12 DEF OwnRefreshEnds, CancelCall, Cancelled
  <2> QED BY <2>1, <2>2, FinishKeeps DEF Stages
<1> QED BY <1>1, <1>2, <1>3, <1>4, <1>5, <1>6, <1>7, <1>8, <1>9, <1>10, <1>11, <1>12 DEF CallStep

LEMMA Stutter == AInv /\ UNCHANGED vars => AInv'
BY DEF vars, refreshVars, AInv, Types, Sound, Counts, Owing, OneSharedRefresh, Unfinished, Active,
       Fit, Refresh, Looked, Paid, Kept

LEMMA InvNext == AInv /\ [Next]_vars => AInv'
<1> SUFFICES ASSUME AInv, [Next]_vars PROVE AInv'
  OBVIOUS
<1>1. ASSUME NEW c \in Callers, NEW kind \in Kinds, Begin(c, kind) PROVE AInv'
  BY <1>1, BeginKeeps
<1>2. ASSUME NEW c \in Callers, CallStep(c) \/ CancelCall(c) PROVE AInv'
  BY <1>2, CallKeeps
<1>3. ASSUME NEW c \in Callers, BodyStep(c) PROVE AInv'
  BY <1>3, RunKeeps
<1>4. ASSUME NEW n \in 1 .. Len(tasks), TaskStep(n) PROVE AInv'
  BY <1>4, RunKeeps, Sizes
<1>5. CASE BeginClose \/ Fence \/ Closed \/ Open
  BY <1>5, LifecycleKeeps
<1>6. CASE UNCHANGED vars
  BY <1>6, Stutter
<1> QED BY <1>1, <1>2, <1>3, <1>4, <1>5, <1>6 DEF Next

-----------------------------------------------------------------------------
(* What the calls and the shared tasks look like in every reachable state. *)
THEOREM Invariance == Spec => []AInv
<1> QED BY InvInit, InvNext, PTL DEF Spec

(* At most one shared refresh task is unfinished, whatever callers and the *)
(* client do: the one in the slot of await_refresh, of the generation that *)
(* is current, never left behind by a close, and cancelled only by it.     *)
THEOREM RefreshIsShared == Spec => []OneSharedRefresh
<1>1. AInv => OneSharedRefresh
  BY DEF AInv
<1> QED BY <1>1, Invariance, PTL

(* A rejected call never awaits a refresh that had ended before its        *)
(* rejection.                                                              *)
THEOREM RejectionIsAnswered == Spec => []AwaitsLiveRefresh
<1>1. AInv => AwaitsLiveRefresh
  BY DEF AInv, Fit, Refresh, AwaitsLiveRefresh
<1> QED BY <1>1, Invariance, PTL

(* What a call sends after its refresh carries tokens at least that new,   *)
(* whichever layer sends it.                                               *)
THEOREM RetriesAreFresh == Spec => []RetryIsFresh
<1>1. AInv => RetryIsFresh
  BY DEF AInv, Fit, Refresh, RetryIsFresh
<1> QED BY <1>1, Invariance, PTL

(* The legs of a call share one refresh and one allowance of retries, for  *)
(* every value of the two allowances.                                      *)
THEOREM AttemptsAreBounded == Spec => []LegsShareOneCall
<1>1. ASSUME AInv, NEW c \in Callers
      PROVE  /\ call[c].refreshes <= 1 /\ call[c].gen = call[c].begun
             /\ call[c].posts <= 2 + MaxRate + MaxServer
  <2>1. call[c].rate \in Nat /\ call[c].server \in Nat /\ call[c].posts \in Nat
    BY <1>1 DEF AInv, Types, Call
  <2>2. call[c].refreshes \in {0, 1}
    BY <1>1 DEF AInv, Fit, Refresh
  <2>3. Paid(call[c]) /\ call[c].gen = call[c].begun
    BY <1>1 DEF AInv, Fit, Kept
  <2>4. call[c].posts <= call[c].rate + call[c].server + 2
    BY <2>1, <2>2, <2>3 DEF Paid
  <2> QED BY <2>1, <2>2, <2>3, <2>4, Bounds DEF Paid
<1>2. AInv => LegsShareOneCall
  BY <1>1 DEF LegsShareOneCall
<1> QED BY <1>2, Invariance, PTL

(* A write that may have been carried out is not sent again.               *)
THEOREM WritesGoOutOnce == Spec => []NotReplayed
<1>1. AInv => NotReplayed
  BY DEF AInv, Fit, Kept, NotReplayed
<1> QED BY <1>1, Invariance, PTL

(* Tokens are replaced only inside the generation that asked for them.     *)
THEOREM PublishesInItsGeneration == Spec => RetiredPublishesNothing
<1> DEFINE Publishes == tokens' # tokens =>
             \E r \in Runners : body[r] = "fetch" /\ body'[r] = "save" /\ Active(EpochOf(r))
<1>1. ASSUME AInv, NEW r \in Runners, FetchSucceeds(r) PROVE Publishes
  BY <1>1 DEF FetchSucceeds, MayPublish, To, AInv, Types
<1>2. ASSUME AInv, [Next]_vars, tokens' # tokens PROVE \E r \in Runners : FetchSucceeds(r)
  <2> USE DEF refreshVars
  <2>1. ASSUME NEW c \in Callers, NEW kind \in Kinds, Begin(c, kind) PROVE tokens' = tokens
    BY <2>1 DEF Begin
  <2>2. ASSUME NEW c \in Callers, CallStep(c) \/ CancelCall(c) PROVE tokens' = tokens
    BY <2>2 DEF CallStep, CancelCall, Post, PostRefused, Answered, RetryLater, Backoff, Rejected,
                Join, Create, ClaimRefused, Refreshed, RefreshFailed, Rebuild, Readmit, GiveUp,
                OwnRefreshEnds
  <2>3. ASSUME NEW r \in Runners, BodyStep(r) PROVE FetchSucceeds(r)
    BY <1>2, <2>3 DEF BodyStep, FetchFails, RungReturns, SaveReturns, FindsRetired
  <2>4. ASSUME NEW n \in 1 .. Len(tasks), TaskStep(n) PROVE n \in Runners /\ FetchSucceeds(n)
    BY <1>2, <2>3, <2>4, Sizes DEF TaskStep, TaskStarts, TaskCancelled
  <2>5. BeginClose \/ Fence \/ Closed \/ Open \/ UNCHANGED vars => tokens' = tokens
    BY DEF BeginClose, Fence, Closed, Open, vars
  <2>6. ASSUME NEW c \in Callers, BodyStep(c) PROVE c \in Runners /\ FetchSucceeds(c)
    BY <2>3, <2>6
  <2> QED BY <1>2, <2>1, <2>2, <2>4, <2>5, <2>6 DEF Next
<1>3. AInv /\ [Next]_vars => [Publishes]_vars
  BY <1>1, <1>2
<1> QED BY <1>3, Invariance, PTL DEF Spec, RetiredPublishesNothing

-----------------------------------------------------------------------------
(* Liveness.  The fairness is that of FairSpec, with the conditions under  *)
(* which a call and the run of a refresh can step written out.             *)
RunStep(r) == IF r \in Callers THEN BodyStep(r) ELSE r \in 1 .. Slot /\ TaskStep(r)

CanRun(r) == body[r] \in Running

CanCall(c) == \/ call[c].pc \in {"ready", "posted", "backoff", "claim", "resume"}
              \/ call[c].pc = "refreshing" /\ body[call[c].on] \in Ended
              \/ call[c].pc = "own" /\ body[c] \in Ended

Runs(r) == []<>~CanRun(r) \/ []<><<RunStep(r)>>_vars
Steps(c) == []<>~CanCall(c) \/ []<><<CallStep(c)>>_vars

Scheduled == /\ \A r \in Runners : Runs(r)
             /\ \A c \in Callers : Steps(c)

(* The rungs of a refresh are numbered; a caller runs a refresh while it   *)
(* waits for its own, and then only; a task that was created has a body.   *)
Ladder == /\ rungs \in [Runners -> Nat]
          /\ \A r \in Runners : /\ body[r] = "fetch" => rungs[r] <= MaxRungs
                                /\ body[r] = "rung" => rungs[r] < MaxRungs

Owned == \A c \in Callers : IF call[c].pc = "own" THEN body[c] \notin {"none", "gated"}
                                                  ELSE body[c] = "none"

Started == \A n \in 1 .. Slot : body[n] # "none"

WInv == AInv /\ Ladder /\ Owned /\ Started

-----------------------------------------------------------------------------
(* What becomes of a call in one step of its own.  The retries and the     *)
(* refresh that it has used are counted, and only these steps count.       *)
Used(k) == k.rate + k.server + k.refreshes

Onward(k, l) == /\ Used(l) = Used(k)
                /\ \/ k.pc = "backoff" /\ l.pc = "ready"
                   \/ k.pc = "ready" /\ l.pc = "posted"
                   \/ k.pc = "posted" /\ l.pc = "claim"
                   \/ k.pc = "refreshing" /\ l.pc = "resume"
                   \/ k.pc = "refreshing" /\ l.pc = "own"
                   \/ k.pc = "resume" /\ l.pc = "ready"

Again(k, l) == /\ Used(l) = Used(k) + 1
               /\ \/ k.pc = "posted" /\ l.pc = "backoff"
                  \/ k.pc = "claim" /\ l.pc = "refreshing"

Becomes(c, l) == /\ call' = [call EXCEPT ![c] = l]
                 /\ l = Idle \/ Onward(call[c], l) \/ Again(call[c], l)

(* What it does to the refreshes: nothing, a new task, a refresh of its    *)
(* own, or the end of that.                                                *)
Refreshes(c, l) ==
    \/ UNCHANGED <<tasks, body, rungs>> /\ (call[c].pc # "own" /\ l.pc # "own")
    \/ /\ Create(c)
       /\ l.pc # "own"
    \/ /\ call[c].pc # "own" /\ l.pc = "own"
       /\ To(c, "fetch", 0)
       /\ UNCHANGED tasks
    \/ /\ call[c].pc = "own" /\ l.pc = "idle"
       /\ To(c, "none", 0)
       /\ UNCHANGED tasks

Lands(c) == \E l \in Call : Becomes(c, l) /\ Refreshes(c, l)

LEMMA CallBecomes ==
    ASSUME AInv, NEW c \in Callers, CallStep(c) \/ CancelCall(c)
    PROVE  Lands(c)
<1> DEFINE k == call[c]
<1> USE DEF Lands, Becomes, Refreshes, refreshVars
<1>1. k \in Call /\ k.rate \in Nat /\ k.server \in Nat /\ k.refreshes \in Nat /\ Slot \in Nat
  BY Sizes DEF AInv, Types, Call
<1>2. Idle \in Call /\ Idle.pc = "idle"
  BY IdleFits DEF Idle
<1>3. CASE Finish(c) /\ UNCHANGED <<tasks, body, rungs>> /\ k.pc # "own"
  BY <1>2, <1>3 DEF Finish
<1>4. CASE \/ PostRefused(c) \/ Answered(c) \/ ClaimRefused(c) \/ GiveUp(c)
           \/ (Backoff(c) \/ Refreshed(c) \/ Rebuild(c)) /\ Finish(c)
           \/ RefreshFailed(c) /\ Finish(c) /\ UNCHANGED <<body, rungs>>
           \/ CancelCall(c) /\ k.pc # "own"
  BY <1>3, <1>4 DEF PostRefused, Answered, ClaimRefused, GiveUp, Backoff, Refreshed, Rebuild,
                    RefreshFailed, CancelCall, Cancelled
<1>5. CASE OwnRefreshEnds(c) \/ (CancelCall(c) /\ k.pc = "own")
  BY <1>2, <1>5 DEF OwnRefreshEnds, CancelCall, Cancelled, Finish
<1>6. CASE Post(c)
  <2> DEFINE l == [k EXCEPT !.pc = "posted", !.carried = tokens, !.posts = k.posts + 1]
  <2>1. l \in Call
    <3>1. tokens \in Nat /\ k.posts + 1 \in Nat
      BY <1>1 DEF AInv, Types, Call
    <3> QED BY <1>1, <3>1 DEF Call, Places
  <2>2. Onward(k, l)
    BY <1>1, <1>6 DEF Onward, Used, Call, Post
  <2>3. l.pc = "posted" /\ k.pc = "ready" /\ call' = [call EXCEPT ![c] = l]
        /\ UNCHANGED <<tasks, body, rungs>>
    BY <1>1, <1>6 DEF Post, Envelope, Call
  <2> HIDE DEF k, l
  <2> QED BY <2>1, <2>2, <2>3 DEF k
<1>7. ASSUME NEW failure \in {"rate", "server", "unsent"}, RetryLater(c, failure)
      PROVE  Lands(c)
  <2> DEFINE rate == IF failure = "rate" THEN k.rate + 1 ELSE k.rate
             server == IF failure = "rate" THEN k.server ELSE k.server + 1
             wrote == k.wrote \/ (Writes(c) /\ failure # "unsent")
             l == [k EXCEPT !.pc = "backoff", !.rate = rate, !.server = server, !.wrote = wrote]
  <2>0. rate \in Nat /\ server \in Nat /\ rate + server = k.rate + k.server + 1
    <3>0. k.rate \in Nat /\ k.server \in Nat
      BY <1>1
    <3>1. CASE failure = "rate"
      BY ONLY <3>0, <3>1
    <3>2. CASE failure # "rate"
      BY ONLY <3>0, <3>2
    <3> QED BY <3>1, <3>2
  <2>1. l \in Call
    <3>1. wrote \in BOOLEAN
      OBVIOUS
    <3> HIDE DEF rate, server, wrote
    <3> QED BY <1>1, <2>0, <3>1 DEF Call, Places
  <2>2. Again(k, l)
    <3>1. k.pc = "posted"
      BY <1>7 DEF RetryLater
    <3>2. l.pc = "backoff" /\ l.rate = rate /\ l.server = server
          /\ l.refreshes = k.refreshes
      BY <1>1 DEF Call
    <3> HIDE DEF k, l, rate, server
    <3>3. k.rate \in Nat /\ k.server \in Nat /\ k.refreshes \in Nat
      BY <1>1
    <3>4. l.rate + l.server + l.refreshes = k.rate + k.server + k.refreshes + 1
      BY ONLY <2>0, <3>2, <3>3
    <3> QED BY <3>1, <3>2, <3>4 DEF Again, Used
  <2>3. l.pc = "backoff" /\ k.pc = "posted" /\ call' = [call EXCEPT ![c] = l]
        /\ UNCHANGED <<tasks, body, rungs>>
    BY <1>1, <1>7 DEF RetryLater, Call
  <2> HIDE DEF k, l
  <2> QED BY <2>1, <2>2, <2>3 DEF k
<1>8. CASE Backoff(c) /\ Goto(c, "ready")
  <2> DEFINE l == [k EXCEPT !.pc = "ready"]
  <2>1. l \in Call
    BY <1>1 DEF Call, Places
  <2>2. Onward(k, l)
    BY <1>1, <1>8 DEF Onward, Used, Call, Backoff
  <2>3. l.pc = "ready" /\ k.pc = "backoff" /\ call' = [call EXCEPT ![c] = l]
        /\ UNCHANGED <<tasks, body, rungs>>
    BY <1>1, <1>8 DEF Backoff, Goto, Call
  <2> HIDE DEF k, l
  <2> QED BY <2>1, <2>2, <2>3 DEF k
<1>9. ASSUME NEW layer \in {"wire", "decoded"}, Rejected(c, layer)
      PROVE  Lands(c)
  <2> DEFINE l == [k EXCEPT !.pc = "claim", !.layer = layer, !.spent = layer = "decoded",
                            !.wrote = Writes(c), !.ended = TasksEnded]
  <2>1. l \in Call
    <3>1. TasksEnded \in Nat /\ Writes(c) \in BOOLEAN
      BY <1>1 DEF TasksEnded, Writes
    <3> QED BY <1>1, <3>1 DEF Call, Places
  <2>2. Onward(k, l)
    BY <1>1, <1>9 DEF Onward, Used, Call, Rejected
  <2>3. l.pc = "claim" /\ k.pc = "posted" /\ call' = [call EXCEPT ![c] = l]
        /\ UNCHANGED <<tasks, body, rungs>>
    BY <1>1, <1>9 DEF Rejected, Call
  <2> HIDE DEF k, l
  <2> QED BY <2>1, <2>2, <2>3 DEF k
<1>10. CASE Join(c) \/ Create(c)
  <2>1. PICK n \in {Slot, Slot + 1} :
          call' = [call EXCEPT ![c] = [k EXCEPT !.pc = "refreshing", !.on = n,
                                                !.refreshes = k.refreshes + 1]]
    BY <1>10 DEF Join, Create
  <2> DEFINE l == [k EXCEPT !.pc = "refreshing", !.on = n, !.refreshes = k.refreshes + 1]
  <2>0. n \in Nat /\ k.refreshes + 1 \in Nat
    BY <1>1
  <2>2. l \in Call
    BY <1>1, <2>0 DEF Call, Places
  <2>3. Again(k, l)
    <3>1. k.pc = "claim"
      BY <1>10 DEF Join, Create
    <3>2. l.pc = "refreshing" /\ l.rate = k.rate /\ l.server = k.server
          /\ l.refreshes = k.refreshes + 1
      BY <1>1 DEF Call
    <3> HIDE DEF k, l, Lands, Becomes, Refreshes, refreshVars
    <3>0. k.rate \in Nat /\ k.server \in Nat /\ k.refreshes \in Nat
      BY <1>1
    <3>3. l.rate + l.server + l.refreshes = k.rate + k.server + k.refreshes + 1
      BY ONLY <3>0, <3>2
    <3> QED BY <3>1, <3>2, <3>3 DEF Again, Used
  <2>4. l.pc = "refreshing" /\ k.pc = "claim" /\ call' = [call EXCEPT ![c] = l]
    BY <1>1, <1>10, <2>1 DEF Join, Create, Call
  <2>5. UNCHANGED <<tasks, body, rungs>> \/ Create(c)
    BY <1>10 DEF Join
  <2> HIDE DEF k, l
  <2> QED BY <2>2, <2>3, <2>4, <2>5 DEF k
<1>11. CASE Refreshed(c) /\ k.kind = "read"
  <2> DEFINE l == [k EXCEPT !.pc = "resume", !.spent = TRUE, !.ended = 0]
  <2>1. l \in Call
    BY <1>1 DEF Call, Places
  <2>2. Onward(k, l)
    BY <1>1, <1>11 DEF Onward, Used, Call, Refreshed
  <2>3. l.pc = "resume" /\ k.pc = "refreshing" /\ call' = [call EXCEPT ![c] = l]
        /\ UNCHANGED <<tasks, body, rungs>>
    BY <1>1, <1>11 DEF Refreshed, Spends, Call
  <2> HIDE DEF k, l
  <2> QED BY <2>1, <2>2, <2>3 DEF k
<1>12. CASE RefreshFailed(c) /\ Goto(c, "own") /\ To(c, "fetch", 0)
  <2> DEFINE l == [k EXCEPT !.pc = "own"]
  <2>1. l \in Call
    BY <1>1 DEF Call, Places
  <2>2. Onward(k, l)
    BY <1>1, <1>12 DEF Onward, Used, Call, RefreshFailed
  <2>3. l.pc = "own" /\ k.pc = "refreshing" /\ call' = [call EXCEPT ![c] = l]
        /\ To(c, "fetch", 0) /\ UNCHANGED tasks
    BY <1>1, <1>12 DEF RefreshFailed, Goto, Call
  <2> HIDE DEF k, l
  <2> QED BY <2>1, <2>2, <2>3 DEF k
<1>13. CASE Rebuild(c) /\ Active(k.gen)
  <2> DEFINE l == [k EXCEPT !.pc = "ready", !.layer = "none"]
  <2>1. l \in Call
    BY <1>1 DEF Call, Places
  <2>2. Onward(k, l)
    BY <1>1, <1>13 DEF Onward, Used, Call, Rebuild
  <2>3. l.pc = "ready" /\ k.pc = "resume" /\ call' = [call EXCEPT ![c] = l]
        /\ UNCHANGED <<tasks, body, rungs>>
    BY <1>1, <1>13 DEF Rebuild, Call
  <2> HIDE DEF k, l
  <2> QED BY <2>1, <2>2, <2>3 DEF k
<1>14. CASE Readmit(c)
  <2> DEFINE l == [k EXCEPT !.pc = "ready", !.layer = "none", !.gen = epoch]
  <2>1. l \in Call
    BY <1>1 DEF Call, Places, AInv, Types
  <2>2. Onward(k, l)
    BY <1>1, <1>14 DEF Onward, Used, Call, Readmit
  <2>3. l.pc = "ready" /\ k.pc = "resume" /\ call' = [call EXCEPT ![c] = l]
        /\ UNCHANGED <<tasks, body, rungs>>
    BY <1>1, <1>14 DEF Readmit, Leg, Call
  <2> HIDE DEF k, l
  <2> QED BY <2>1, <2>2, <2>3 DEF k
<1>15. CASE Refreshed(c)
  BY <1>4, <1>11, <1>15 DEF Refreshed
<1>16. CASE RefreshFailed(c)
  BY <1>4, <1>12, <1>16 DEF RefreshFailed
<1>17. CASE Rebuild(c)
  BY <1>4, <1>13, <1>17 DEF Rebuild
<1>18. CASE Backoff(c)
  BY <1>4, <1>8, <1>18 DEF Backoff
<1>19. CASE CancelCall(c)
  BY <1>4, <1>5, <1>19
<1> HIDE DEF k, Lands, Becomes, Refreshes, refreshVars
<1>20. CASE Post(c) \/ \E failure \in {"rate", "server", "unsent"} : RetryLater(c, failure)
  BY <1>6, <1>7, <1>20
<1>21. CASE \E layer \in {"wire", "decoded"} : Rejected(c, layer)
  BY <1>9, <1>21
<1>22. CASE PostRefused(c) \/ Answered(c) \/ ClaimRefused(c) \/ GiveUp(c) \/ OwnRefreshEnds(c)
  BY <1>4, <1>5, <1>22
<1> QED BY <1>10, <1>14, <1>15, <1>16, <1>17, <1>18, <1>19, <1>20, <1>21, <1>22 DEF CallStep

-----------------------------------------------------------------------------
(* What becomes of the run of a refresh in one step of its own.            *)
RunMove(r, stage, m) ==
    \/ body[r] = "gated" /\ stage = "fetch" /\ m = 0
    \/ body[r] = "fetch" /\ stage = "rung" /\ m = rungs[r] /\ m < MaxRungs
    \/ body[r] = "rung" /\ stage = "fetch" /\ m = rungs[r] + 1
    \/ body[r] = "rung" /\ stage = "rung" /\ m = rungs[r] + 1 /\ m < MaxRungs
    \/ body[r] = "fetch" /\ stage = "save" /\ m = 0
    \/ body[r] \in Running /\ stage \in Ended /\ m = 0

LEMMA RunBecomes ==
    ASSUME AInv, NEW r \in Runners, r \in Callers \/ r \in 1 .. Slot,
           BodyStep(r) \/ (r \in 1 .. Slot /\ TaskStep(r))
    PROVE  /\ UNCHANGED call /\ Slot' = Slot
           /\ \E stage \in Stages, m \in {0, rungs[r], rungs[r] + 1} :
                 /\ body' = [body EXCEPT ![r] = stage]
                 /\ rungs' = [rungs EXCEPT ![r] = m]
                 /\ RunMove(r, stage, m)
<1> USE DEF Stages, Running, Ended
<1>1. UNCHANGED call /\ Slot' = Slot
  <2>1. CASE FetchSucceeds(r) /\ r \notin Callers
    <3>1. tasks' = [tasks EXCEPT ![r].published = tokens + 1] /\ tasks[r] \in Task
          /\ tokens + 1 \in Nat /\ r \in 1 .. Slot
      BY <2>1, Sizes DEF FetchSucceeds, AInv, Types
    <3>2. [tasks[r] EXCEPT !.published = tokens + 1] \in Task
      BY <3>1 DEF Task
    <3> QED BY <2>1, <3>1, <3>2 DEF FetchSucceeds, AInv, Types
  <2>2. CASE FetchSucceeds(r) /\ r \in Callers
    BY <2>2 DEF FetchSucceeds
  <2>3. CASE \/ FetchFails(r) \/ RungReturns(r) \/ SaveReturns(r) \/ FindsRetired(r)
             \/ TaskStarts(r) \/ TaskCancelled(r)
    BY <2>3 DEF FetchFails, RungReturns, SaveReturns, FindsRetired, TaskStarts, TaskCancelled
  <2> QED BY <2>1, <2>2, <2>3 DEF BodyStep, TaskStep
<1> DEFINE Moved == \E stage \in Stages, m \in {0, rungs[r], rungs[r] + 1} :
                        /\ body' = [body EXCEPT ![r] = stage]
                        /\ rungs' = [rungs EXCEPT ![r] = m]
                        /\ RunMove(r, stage, m)
<1> USE DEF RunMove, To
<1>2. CASE FetchSucceeds(r)
  BY <1>2 DEF FetchSucceeds
<1>3. CASE FetchFails(r)
  BY <1>3 DEF FetchFails, RungLeft
<1>4. CASE RungReturns(r)
  <2>1. CASE To(r, "fetch", rungs[r] + 1)
    BY <1>4, <2>1 DEF RungReturns
  <2>2. CASE To(r, "rung", rungs[r] + 1) /\ rungs[r] + 1 < MaxRungs
    BY <1>4, <2>2 DEF RungReturns
  <2>3. CASE \E m \in {0, rungs[r] + 1} : To(r, "expired", m) \/ To(r, "error", m)
    BY <1>4, <2>3 DEF RungReturns
  <2> QED BY <1>4, <2>1, <2>2, <2>3 DEF RungReturns, Climb
<1>5. CASE SaveReturns(r) \/ FindsRetired(r)
  BY <1>5 DEF SaveReturns, FindsRetired
<1>6. CASE TaskStarts(r)
  BY <1>6 DEF TaskStarts
<1>7. CASE TaskCancelled(r)
  BY <1>7 DEF TaskCancelled
<1> HIDE DEF Moved
<1> QED BY <1>1, <1>2, <1>3, <1>4, <1>5, <1>6, <1>7 DEF BodyStep, TaskStep, Moved

-----------------------------------------------------------------------------
LEMMA WInit == Init => Ladder /\ Owned /\ Started
BY Bounds DEF Init, Ladder, Owned, Started, Idle

LEMMA RunKeepsW ==
    ASSUME WInv, NEW r \in Runners, r \in Callers \/ r \in 1 .. Slot,
           BodyStep(r) \/ (r \in 1 .. Slot /\ TaskStep(r))
    PROVE  Ladder' /\ Owned' /\ Started'
<1>1. UNCHANGED call /\ Slot' = Slot
  BY RunBecomes DEF WInv
<1>2. PICK stage \in Stages, m \in {0, rungs[r], rungs[r] + 1} :
          /\ body' = [body EXCEPT ![r] = stage]
          /\ rungs' = [rungs EXCEPT ![r] = m]
          /\ RunMove(r, stage, m)
  BY RunBecomes DEF WInv
<1>3. /\ \A s \in Runners : body'[s] = IF s = r THEN stage ELSE body[s]
      /\ \A s \in Runners : rungs'[s] = IF s = r THEN m ELSE rungs[s]
      /\ m \in Nat /\ rungs[r] \in Nat
  <2>1. body \in [Runners -> Stages] /\ rungs \in [Runners -> Nat]
    BY DEF WInv, AInv, Types, Ladder
  <2>2. rungs[r] \in Nat
    BY <2>1
  <2>3. m \in Nat
    BY <2>2
  <2>4. \A s \in Runners : body'[s] = IF s = r THEN stage ELSE body[s]
    BY <1>2, <2>1
  <2>5. \A s \in Runners : rungs'[s] = IF s = r THEN m ELSE rungs[s]
    BY <1>2, <2>1
  <2> QED BY <2>2, <2>3, <2>4, <2>5
<1>4. stage \notin {"none", "gated"} /\ body[r] # "none"
  BY <1>2 DEF RunMove, Running, Ended
<1>5. /\ stage = "fetch" => m <= MaxRungs
      /\ stage = "rung" => m < MaxRungs
  BY <1>2, <1>3, Bounds DEF RunMove, Ended, WInv, Ladder
<1>6. Ladder'
  <2>1. rungs' \in [Runners -> Nat]
    BY <1>2, <1>3 DEF WInv, Ladder
  <2>2. ASSUME NEW s \in Runners
        PROVE  /\ body'[s] = "fetch" => rungs'[s] <= MaxRungs
               /\ body'[s] = "rung" => rungs'[s] < MaxRungs
    <3>1. CASE s = r
      <4>1. body'[s] = stage /\ rungs'[s] = m
        BY <1>3, <3>1
      <4> QED BY <1>5, <4>1
    <3>2. CASE s # r
      <4>1. body'[s] = body[s] /\ rungs'[s] = rungs[s]
        BY <1>3, <3>2
      <4> QED BY <4>1 DEF WInv, Ladder
    <3> QED BY <3>1, <3>2
  <2> QED BY <2>1, <2>2 DEF Ladder
<1>7. Owned'
  BY <1>1, <1>3, <1>4 DEF WInv, Owned
<1>8. Started'
  BY <1>1, <1>3, <1>4, Sizes DEF WInv, Started
<1> QED BY <1>1, <1>6, <1>7, <1>8 DEF WInv

(* A call that awaited no refresh finds a place for its task.              *)
LEMMA TaskFits ==
    ASSUME AInv, NEW c \in Callers, Create(c)
    PROVE  Slot + 1 \in Runners
<1>1. c \in Owing
  BY DEF AInv, Fit, Refresh, Create, Owing
<1>2. IsFiniteSet(Owing) /\ Owing # {} /\ Cardinality(Owing) # 0
  BY <1>1, FS_EmptySet DEF AInv, Counts
<1> QED BY <1>2, Sizes, Bounds DEF AInv, Counts

LEMMA CallKeepsW ==
    ASSUME WInv, NEW c \in Callers, CallStep(c) \/ CancelCall(c)
    PROVE  Ladder' /\ Owned' /\ Started'
<1>1. PICK l \in Call : Becomes(c, l) /\ Refreshes(c, l)
  BY CallBecomes DEF WInv, Lands
<1>2. \A d \in Callers : call'[d] = IF d = c THEN l ELSE call[d]
  BY <1>1 DEF WInv, AInv, Types, Becomes
<1>3. /\ body \in [Runners -> Stages] /\ rungs \in [Runners -> Nat] /\ c \in Runners
      /\ MaxRungs \in Nat /\ Slot \in Nat
      /\ \A n \in 1 .. Slot : n \in Runners
      /\ \A n \in 1 .. Slot + 1 : n \notin Callers
  <2>1. MaxRungs \in Nat
    OBVIOUS
  <2>2. Slot \in Nat /\ \A n \in 1 .. Slot : n \in Runners
    BY Sizes DEF WInv
  <2>3. \A n \in Nat : n \notin Callers
    OBVIOUS
  <2>4. body \in [Runners -> Stages] /\ rungs \in [Runners -> Nat]
    BY DEF WInv, AInv, Types, Ladder
  <2> QED BY <2>1, <2>2, <2>3, <2>4
<1>4. CASE UNCHANGED <<tasks, body, rungs>> /\ (call[c].pc # "own" /\ l.pc # "own")
  BY <1>2, <1>4 DEF WInv, Ladder, Owned, Started
<1>5. CASE Create(c) /\ l.pc # "own"
  <2>1. /\ body' = [body EXCEPT ![Slot + 1] = "gated"] /\ rungs' = rungs
        /\ Slot' = Slot + 1 /\ call[c].pc = "claim"
    BY <1>5 DEF Create, WInv, AInv, Types
  <2>2. \A r \in Runners : body'[r] = IF r = Slot + 1 THEN "gated" ELSE body[r]
    BY <1>3, <2>1
  <2>3. Slot + 1 \notin Callers
    BY <1>3
  <2>4. Ladder'
    BY <2>1, <2>2 DEF WInv, Ladder
  <2>5. Owned'
    BY <1>2, <1>5, <2>1, <2>2, <2>3 DEF WInv, Owned
  <2>6. Slot + 1 \in Runners
    BY <1>5, TaskFits DEF WInv
  <2>7. \A n \in 1 .. Slot' : n = Slot + 1 \/ n \in 1 .. Slot
    BY <1>3, <2>1
  <2>8. \A n \in 1 .. Slot : body[n] # "none" /\ n \in Runners
    BY <1>3 DEF WInv, Started
  <2>9. Started'
    <3> SUFFICES ASSUME NEW n \in 1 .. Slot' PROVE body'[n] # "none"
      BY DEF Started
    <3> QED BY <2>2, <2>6, <2>7, <2>8
  <2> QED BY <2>4, <2>5, <2>9
<1>6. ASSUME NEW stage \in {"fetch", "none"}, To(c, stage, 0), UNCHANGED tasks,
             l.pc = "own" <=> stage = "fetch"
      PROVE  Ladder' /\ Owned' /\ Started'
  <2>1. /\ \A r \in Runners : body'[r] = IF r = c THEN stage ELSE body[r]
        /\ \A r \in Runners : rungs'[r] = IF r = c THEN 0 ELSE rungs[r]
        /\ rungs' \in [Runners -> Nat]
    BY <1>3, <1>6 DEF To
  <2>0. 0 <= MaxRungs /\ stage # "rung"
    BY <1>3, <1>6
  <2>2. Ladder'
    BY <2>0, <2>1 DEF WInv, Ladder
  <2>3. Owned'
    BY <1>2, <1>6, <2>1 DEF WInv, Owned
  <2>4. Started'
    BY <1>3, <1>6, <2>1 DEF WInv, Started
  <2> QED BY <2>2, <2>3, <2>4
<1>7. Refreshes(c, l) => \/ UNCHANGED <<tasks, body, rungs>> /\ (call[c].pc # "own" /\ l.pc # "own")
                         \/ Create(c) /\ l.pc # "own"
                         \/ \E stage \in {"fetch", "none"} :
                                To(c, stage, 0) /\ UNCHANGED tasks /\ (l.pc = "own" <=> stage = "fetch")
  BY DEF Refreshes
<1> QED BY <1>1, <1>4, <1>5, <1>6, <1>7

LEMMA BeginKeepsW ==
    ASSUME WInv, NEW c \in Callers, NEW kind \in Kinds, Begin(c, kind)
    PROVE  Ladder' /\ Owned' /\ Started'
<1> DEFINE l == [Idle EXCEPT
                    !.kind = kind, !.begun = epoch, !.gen = epoch,
                    !.pc = CASE kind = "refresh" -> "own"
                             [] kind = "headless" -> "claim"
                             [] OTHER -> "ready",
                    !.layer = IF kind = "headless" THEN "explicit" ELSE "none",
                    !.ended = IF kind = "headless" THEN TasksEnded ELSE 0]
<1>1. \A d \in Callers : call'[d] = IF d = c THEN l ELSE call[d]
  BY DEF WInv, AInv, Types, Begin
<1>2. /\ l.kind = kind
      /\ l.pc = IF kind = "refresh" THEN "own" ELSE IF kind = "headless" THEN "claim" ELSE "ready"
  BY DEF Idle
<1> HIDE DEF l
<1>3. /\ body \in [Runners -> Stages] /\ rungs \in [Runners -> Nat] /\ c \in Runners
      /\ MaxRungs \in Nat /\ tasks' = tasks /\ call[c].pc = "idle"
      /\ \A n \in 1 .. Slot : n \in Runners /\ n \notin Callers
  <2>1. \A n \in 1 .. Slot : n \in Runners
    BY Sizes DEF WInv
  <2> QED BY <2>1 DEF WInv, AInv, Types, Ladder, Begin
<1>4. CASE kind # "refresh"
  BY <1>1, <1>2, <1>3, <1>4 DEF Begin, WInv, Ladder, Owned, Started
<1>5. CASE kind = "refresh"
  <2>1. /\ \A r \in Runners : body'[r] = IF r = c THEN "fetch" ELSE body[r]
        /\ \A r \in Runners : rungs'[r] = IF r = c THEN 0 ELSE rungs[r]
        /\ rungs' \in [Runners -> Nat]
    BY <1>3, <1>5 DEF To, Begin
  <2>0. 0 <= MaxRungs
    BY <1>3
  <2>2. Ladder'
    BY <2>0, <2>1 DEF WInv, Ladder
  <2>3. Owned'
    BY <1>1, <1>2, <1>5, <2>1 DEF WInv, Owned
  <2>4. Started'
    BY <1>3, <2>1 DEF WInv, Started
  <2> QED BY <2>2, <2>3, <2>4
<1> QED BY <1>4, <1>5

LEMMA LifecycleKeepsW ==
    ASSUME WInv, BeginClose \/ Fence \/ Closed \/ Open \/ UNCHANGED vars
    PROVE  /\ UNCHANGED <<call, body, rungs>> /\ Slot' = Slot
           /\ Ladder' /\ Owned' /\ Started'
<1>1. UNCHANGED <<call, body, rungs>>
  BY DEF BeginClose, Fence, Closed, Open, vars, refreshVars
<1>2. Slot' = Slot
  <2>1. CASE tasks' = tasks
    BY <2>1
  <2>2. CASE Fence /\ Joinable
    <3>1. /\ tasks' = [tasks EXCEPT ![Slot].cancelling = TRUE] /\ tasks \in Seq(Task)
          /\ tasks[Slot] \in Task
      BY <2>2, Sizes DEF Fence, Joinable, WInv, AInv, Types
    <3>2. [tasks[Slot] EXCEPT !.cancelling = TRUE] \in Task
      BY <3>1 DEF Task
    <3> QED BY <3>1, <3>2
  <2> QED BY <2>1, <2>2 DEF BeginClose, Fence, Closed, Open, vars, refreshVars
<1> QED BY <1>1, <1>2 DEF WInv, Ladder, Owned, Started

LEMMA WKeeps ==
    ASSUME WInv, [Next]_vars
    PROVE  Ladder' /\ Owned' /\ Started'
<1>1. ASSUME NEW c \in Callers, BodyStep(c)
      PROVE  Ladder' /\ Owned' /\ Started'
  BY <1>1, RunKeepsW
<1>2. ASSUME NEW n \in 1 .. Slot, TaskStep(n)
      PROVE  Ladder' /\ Owned' /\ Started'
  BY <1>2, RunKeepsW, Sizes DEF WInv
<1> QED BY <1>1, <1>2, BeginKeepsW, CallKeepsW, LifecycleKeepsW DEF Next

LEMMA WInvHolds == Spec => []WInv
<1>1. WInv /\ [Next]_vars /\ AInv' => WInv'
  BY WKeeps DEF WInv
<1>2. Init /\ AInv => WInv
  BY WInit DEF WInv
<1> QED BY <1>1, <1>2, Invariance, PTL DEF Spec

-----------------------------------------------------------------------------
(* The run of a refresh, stage by stage: at one rung of the ladder, saving, *)
(* or over.                                                                *)
RunAt(r, stage, m) == body[r] = stage /\ rungs[r] = m
Rung(r, m) == body[r] \in {"fetch", "rung"} /\ rungs[r] = m
Gated(r) == body[r] = "gated"
Saving(r) == body[r] = "save"
Over(r) == body[r] \notin Running

Finishes(r) == [](CanRun(r) => <>Over(r))
RungPasses(r, m) == [](Rung(r, m) => <>(Rung(r, m + 1) \/ Saving(r) \/ Over(r)))

RunStays(r) == UNCHANGED <<body[r], rungs[r]>>

RunMoves(r) == \E stage \in Stages, m \in {0, rungs[r], rungs[r] + 1} :
                   /\ RunMove(r, stage, m)
                   /\ body'[r] = stage
                   /\ rungs'[r] = m

(* Only its own steps take the run of a refresh on; a caller that leaves   *)
(* drops its own.                                                          *)
LEMMA OneRunMoves ==
    ASSUME WInv, NEW r \in Runners, ~Over(r), [Next]_vars
    PROVE  RunStays(r) \/ RunMoves(r) \/ Over(r)'
<1>1. /\ body \in [Runners -> Stages] /\ rungs \in [Runners -> Nat]
      /\ \A n \in 1 .. Slot : n \in Runners
  <2>1. \A n \in 1 .. Slot : n \in Runners
    BY Sizes DEF WInv
  <2> QED BY <2>1 DEF WInv, AInv, Types, Ladder
<1>2. ASSUME NEW s \in Runners, s \in Callers \/ s \in 1 .. Slot,
             BodyStep(s) \/ (s \in 1 .. Slot /\ TaskStep(s))
      PROVE  RunStays(r) \/ RunMoves(r)
  <2>1. PICK stage \in Stages, m \in {0, rungs[s], rungs[s] + 1} :
            /\ body' = [body EXCEPT ![s] = stage]
            /\ rungs' = [rungs EXCEPT ![s] = m]
            /\ RunMove(s, stage, m)
    BY <1>2, RunBecomes DEF WInv
  <2>2. CASE s = r
    BY <1>1, <2>1, <2>2 DEF RunMoves
  <2>3. CASE s # r
    BY <1>1, <2>1, <2>3 DEF RunStays
  <2> QED BY <2>2, <2>3
<1>3. ASSUME NEW c \in Callers, NEW stage \in {"fetch", "none"}, To(c, stage, 0),
             c = r => stage = "none"
      PROVE  RunStays(r) \/ Over(r)'
  <2>1. c \in Runners
    OBVIOUS
  <2> QED BY <1>1, <1>3, <2>1 DEF To, RunStays, Over, Running
<1>4. \A c \in Callers : call[c].pc # "own" => c # r
  BY DEF WInv, Owned, Over, Running
<1>5. ASSUME NEW c \in Callers, NEW kind \in Kinds, Begin(c, kind)
      PROVE  RunStays(r) \/ Over(r)'
  BY <1>3, <1>4, <1>5 DEF Begin, RunStays
<1>6. ASSUME NEW c \in Callers, CallStep(c) \/ CancelCall(c)
      PROVE  RunStays(r) \/ Over(r)'
  <2>1. PICK l \in Call : Refreshes(c, l)
    BY <1>6, CallBecomes DEF WInv, Lands
  <2>2. CASE Create(c)
    <3>1. Slot + 1 \in Runners
      BY <2>2, TaskFits DEF WInv
    <3>2. body[Slot + 1] = "none"
      <4>1. Slot \in Nat /\ Slot + 1 \notin Callers
        BY Sizes DEF WInv
      <4> QED BY <3>1, <4>1 DEF WInv, AInv, Sound
    <3>3. r # Slot + 1
      BY <3>2 DEF Over, Running
    <3> QED BY <1>1, <2>2, <3>1, <3>3 DEF Create, RunStays
  <2> QED BY <1>3, <1>4, <2>1, <2>2 DEF Refreshes, RunStays
<1>7. CASE BeginClose \/ Fence \/ Closed \/ Open \/ UNCHANGED vars
  BY <1>7, LifecycleKeepsW DEF RunStays
<1>8. ASSUME NEW c \in Callers, BodyStep(c)
      PROVE  RunStays(r) \/ RunMoves(r)
  BY <1>2, <1>8
<1>9. ASSUME NEW n \in 1 .. Slot, TaskStep(n)
      PROVE  RunStays(r) \/ RunMoves(r)
  BY <1>1, <1>2, <1>9
<1> QED BY <1>5, <1>6, <1>7, <1>8, <1>9 DEF Next

LEMMA RunSteps ==
    ASSUME WInv, NEW r \in Runners, NEW m \in Nat, [Next]_vars
    PROVE  /\ Gated(r) => Gated(r)' \/ Rung(r, 0)' \/ Over(r)'
           /\ RunAt(r, "fetch", m) => \/ RunAt(r, "fetch", m)' \/ RunAt(r, "rung", m)'
                                      \/ Saving(r)' \/ Over(r)'
           /\ RunAt(r, "rung", m) => RunAt(r, "rung", m)' \/ Rung(r, m + 1)' \/ Over(r)'
           /\ Saving(r) => Saving(r)' \/ Over(r)'
<1> USE DEF Gated, Rung, RunAt, Saving, Over, Running, Ended
<1>1. CASE Over(r) \/ Over(r)'
  BY <1>1
<1>2. CASE RunStays(r)
  BY <1>2 DEF RunStays
<1>3. CASE RunMoves(r)
  BY <1>3 DEF RunMoves, RunMove
<1> HIDE DEF Gated, Rung, RunAt, Saving, Over, Running, Ended
<1> QED BY <1>1, <1>2, <1>3, OneRunMoves

(* Each stage is one step of the run.                                      *)
LEMMA RunEnds ==
    ASSUME WInv, NEW r \in Runners, NEW m \in Nat, RunStep(r)
    PROVE  /\ Gated(r) => ~Gated(r)'
           /\ RunAt(r, "fetch", m) => ~RunAt(r, "fetch", m)'
           /\ RunAt(r, "rung", m) => ~RunAt(r, "rung", m)'
           /\ Saving(r) => ~Saving(r)'
<1>1. PICK stage \in Stages, k \in {0, rungs[r], rungs[r] + 1} :
          /\ body' = [body EXCEPT ![r] = stage]
          /\ rungs' = [rungs EXCEPT ![r] = k]
          /\ RunMove(r, stage, k)
  BY RunBecomes DEF WInv, RunStep
<1>2. /\ body'[r] = stage /\ rungs'[r] = k
      /\ rungs[r] \in Nat
  BY <1>1 DEF WInv, AInv, Types, Ladder
<1> QED BY <1>1, <1>2 DEF RunMove, Gated, RunAt, Saving, Running, Ended

(* The run leaves a rung for the next, or for the end.                     *)
LEMMA RungPassed ==
    ASSUME NEW r \in Runners
    PROVE  []WInv /\ [][Next]_vars /\ Runs(r) => \A m \in Nat : RungPasses(r, m)
<1> SUFFICES ASSUME NEW m \in Nat
             PROVE  []WInv /\ [][Next]_vars /\ Runs(r) => RungPasses(r, m)
  OBVIOUS
<1>1. WInv /\ [Next]_vars =>
          /\ RunAt(r, "fetch", m) => \/ RunAt(r, "fetch", m)' \/ RunAt(r, "rung", m)'
                                     \/ Saving(r)' \/ Over(r)'
          /\ RunAt(r, "rung", m) => RunAt(r, "rung", m)' \/ Rung(r, m + 1)' \/ Over(r)'
  BY RunSteps
<1>2. WInv /\ <<RunStep(r)>>_vars => /\ RunAt(r, "fetch", m) => ~RunAt(r, "fetch", m)'
                                     /\ RunAt(r, "rung", m) => ~RunAt(r, "rung", m)'
  BY RunEnds
<1>3. RunAt(r, "fetch", m) \/ RunAt(r, "rung", m) => CanRun(r)
  BY DEF RunAt, CanRun, Running
<1>4. Rung(r, m) <=> RunAt(r, "fetch", m) \/ RunAt(r, "rung", m)
  BY DEF Rung, RunAt
<1> QED BY <1>1, <1>2, <1>3, <1>4, PTL DEF Runs, RungPasses

(* Every refresh that runs is over in the end: it is saved, or it fails on *)
(* one of the rungs.                                                       *)
LEMMA RunIsOver ==
    ASSUME MaxRungs <= 6
    PROVE  []WInv /\ [][Next]_vars /\ Scheduled => \A r \in Runners : Finishes(r)
<1> SUFFICES ASSUME NEW r \in Runners
             PROVE  []WInv /\ [][Next]_vars /\ Scheduled => Finishes(r)
  OBVIOUS
<1>1. []WInv /\ [][Next]_vars /\ Runs(r) => \A m \in Nat : RungPasses(r, m)
  BY RungPassed
<1>2. (\A m \in Nat : RungPasses(r, m)) =>
          /\ RungPasses(r, 0) /\ RungPasses(r, 1) /\ RungPasses(r, 2) /\ RungPasses(r, 3)
          /\ RungPasses(r, 4) /\ RungPasses(r, 5) /\ RungPasses(r, 6)
  OBVIOUS
<1>3. /\ Rung(r, 0 + 1) <=> Rung(r, 1)
      /\ Rung(r, 1 + 1) <=> Rung(r, 2)
      /\ Rung(r, 2 + 1) <=> Rung(r, 3)
      /\ Rung(r, 3 + 1) <=> Rung(r, 4)
      /\ Rung(r, 4 + 1) <=> Rung(r, 5)
      /\ Rung(r, 5 + 1) <=> Rung(r, 6)
      /\ Rung(r, 6 + 1) <=> Rung(r, 7)
  BY DEF Rung
<1>4. WInv => ~Rung(r, 7)
  BY Bounds DEF WInv, Ladder, Rung
<1>5. WInv /\ CanRun(r) =>
          \/ Gated(r) \/ Saving(r)
          \/ Rung(r, 0) \/ Rung(r, 1) \/ Rung(r, 2) \/ Rung(r, 3)
          \/ Rung(r, 4) \/ Rung(r, 5) \/ Rung(r, 6)
  <2> SUFFICES ASSUME WInv, CanRun(r), ~Gated(r), ~Saving(r)
               PROVE  \E m \in {0, 1, 2, 3, 4, 5, 6} : Rung(r, m)
    BY DEF Gated
  <2>1. body[r] \in {"fetch", "rung"}
    BY DEF CanRun, Running, Gated, Saving
  <2>2. rungs[r] \in Nat /\ rungs[r] <= MaxRungs
    BY <2>1, Bounds DEF WInv, Ladder
  <2>3. rungs[r] \in {0, 1, 2, 3, 4, 5, 6}
    BY <2>2, Bounds
  <2> QED BY <2>1, <2>3 DEF Rung
<1>6. WInv /\ [Next]_vars => /\ Gated(r) => Gated(r)' \/ Rung(r, 0)' \/ Over(r)'
                             /\ Saving(r) => Saving(r)' \/ Over(r)'
  BY RunSteps
<1>7. WInv /\ <<RunStep(r)>>_vars => /\ Gated(r) => ~Gated(r)'
                                     /\ Saving(r) => ~Saving(r)'
  BY RunEnds
<1>8. Gated(r) \/ Saving(r) => CanRun(r)
  BY DEF Gated, Saving, CanRun, Running
<1>9. Scheduled => Runs(r)
  BY DEF Scheduled
<1> QED BY <1>1, <1>2, <1>3, <1>4, <1>5, <1>6, <1>7, <1>8, <1>9, PTL DEF Runs, RungPasses, Finishes

-----------------------------------------------------------------------------
(* A call, by the place it is at and the retries and refreshes it used.    *)
Busy(c, j) == call[c].pc # "idle" /\ Used(call[c]) = j
At(c, j, place) == call[c].pc = place /\ Used(call[c]) = j
Awaits(c, j, n) == At(c, j, "refreshing") /\ call[c].on = n
OwnOver(c, j) == At(c, j, "own") /\ body[c] \in Ended
TaskOver(n) == body[n] \in Ended
Left(c) == call[c].pc = "idle"

(* A call uses another retry or its refresh, or it ends.                   *)
Passes(c, j) == [](Busy(c, j) => <>(Busy(c, j + 1) \/ Left(c)))

(* A refresh that is over stays so for those that await it.                *)
LEMMA OverStays ==
    ASSUME WInv, NEW n \in 1 .. MaxCalls, TaskOver(n), [Next]_vars
    PROVE  TaskOver(n)'
<1>1. /\ body \in [Runners -> Stages] /\ n \in Runners /\ n \notin Callers
      /\ body[n] \notin Running \cup {"none"}
      /\ \A m \in 1 .. Slot : m \in Runners
  <2>1. \A m \in 1 .. Slot : m \in Runners
    BY Sizes DEF WInv
  <2> QED BY <2>1, Bounds DEF WInv, AInv, Types, TaskOver, Ended, Running
<1>2. ASSUME NEW s \in Runners, s \in Callers \/ s \in 1 .. Slot,
             BodyStep(s) \/ (s \in 1 .. Slot /\ TaskStep(s))
      PROVE  body'[n] = body[n]
  <2>1. PICK stage \in Stages, m \in {0, rungs[s], rungs[s] + 1} :
            body' = [body EXCEPT ![s] = stage] /\ RunMove(s, stage, m)
    BY <1>2, RunBecomes DEF WInv
  <2>2. s # n
    BY <1>1, <2>1 DEF RunMove, Running
  <2> QED BY <1>1, <2>1, <2>2
<1>3. ASSUME NEW c \in Callers, NEW stage \in {"fetch", "none"}, To(c, stage, 0)
      PROVE  body'[n] = body[n]
  BY <1>1, <1>3 DEF To
<1>4. ASSUME NEW c \in Callers, NEW kind \in Kinds, Begin(c, kind)
      PROVE  body'[n] = body[n]
  BY <1>3, <1>4 DEF Begin
<1>5. ASSUME NEW c \in Callers, CallStep(c) \/ CancelCall(c)
      PROVE  body'[n] = body[n]
  <2>1. PICK l \in Call : Refreshes(c, l)
    BY <1>5, CallBecomes DEF WInv, Lands
  <2>2. CASE Create(c)
    <3>1. Slot + 1 \in Runners
      BY <2>2, TaskFits DEF WInv
    <3>2. body[Slot + 1] = "none"
      <4>1. Slot \in Nat /\ Slot + 1 \notin Callers
        BY Sizes DEF WInv
      <4> QED BY <3>1, <4>1 DEF WInv, AInv, Sound
    <3> QED BY <1>1, <2>2, <3>1, <3>2 DEF Create
  <2> QED BY <1>3, <2>1, <2>2 DEF Refreshes
<1>6. BeginClose \/ Fence \/ Closed \/ Open \/ UNCHANGED vars => body'[n] = body[n]
  BY LifecycleKeepsW
<1>7. ASSUME NEW c \in Callers, BodyStep(c)
      PROVE  body'[n] = body[n]
  BY <1>2, <1>7
<1>8. ASSUME NEW m \in 1 .. Slot, TaskStep(m)
      PROVE  body'[n] = body[n]
  BY <1>1, <1>2, <1>8
<1>9. body'[n] = body[n]
  BY <1>4, <1>5, <1>6, <1>7, <1>8 DEF Next
<1> QED BY <1>9 DEF TaskOver

(* What a step does to a call that has begun.                              *)
LEMMA OneCallMoves ==
    ASSUME WInv, NEW c \in Callers, ~Left(c), [Next]_vars
    PROVE  call'[c] = call[c] \/ (\E l \in Call : Becomes(c, l) /\ call'[c] = l)
<1>1. call \in [Callers -> Call]
  BY DEF WInv, AInv, Types
<1>2. ASSUME NEW d \in Callers, CallStep(d) \/ CancelCall(d)
      PROVE  call'[c] = call[c] \/ (\E l \in Call : Becomes(c, l) /\ call'[c] = l)
  <2>1. PICK l \in Call : Becomes(d, l)
    BY <1>2, CallBecomes DEF WInv, Lands
  <2>2. call'[c] = IF c = d THEN l ELSE call[c]
    BY <1>1, <2>1 DEF Becomes
  <2> QED BY <2>1, <2>2
<1>3. ASSUME NEW d \in Callers, NEW kind \in Kinds, Begin(d, kind)
      PROVE  call'[c] = call[c]
  BY <1>1, <1>3 DEF Begin, Left
<1>4. ASSUME NEW d \in Callers, BodyStep(d)
      PROVE  call' = call
  BY <1>4, RunBecomes DEF WInv
<1>5. ASSUME NEW n \in 1 .. Slot, TaskStep(n)
      PROVE  call' = call
  BY <1>5, RunBecomes, Sizes DEF WInv
<1>6. CASE BeginClose \/ Fence \/ Closed \/ Open \/ UNCHANGED vars
  BY <1>6, LifecycleKeepsW
<1> QED BY <1>2, <1>3, <1>4, <1>5, <1>6 DEF Next

LEMMA CallSteps ==
    ASSUME WInv, NEW c \in Callers, NEW j \in Nat, [Next]_vars
    PROVE  /\ At(c, j, "backoff") => At(c, j, "backoff")' \/ At(c, j, "ready")' \/ Left(c)'
           /\ At(c, j, "ready") => At(c, j, "ready")' \/ At(c, j, "posted")' \/ Left(c)'
           /\ At(c, j, "posted") => \/ At(c, j, "posted")' \/ At(c, j, "claim")'
                                    \/ Busy(c, j + 1)' \/ Left(c)'
           /\ At(c, j, "claim") => At(c, j, "claim")' \/ Busy(c, j + 1)' \/ Left(c)'
           /\ At(c, j, "resume") => At(c, j, "resume")' \/ At(c, j, "ready")' \/ Left(c)'
           /\ At(c, j, "own") => At(c, j, "own")' \/ Left(c)'
           /\ \A n \in 1 .. MaxCalls :
                  Awaits(c, j, n) => \/ Awaits(c, j, n)' \/ At(c, j, "resume")'
                                     \/ At(c, j, "own")' \/ Left(c)'
<1>1. CASE Left(c)
  BY <1>1 DEF Left, At, Awaits
<1>2. CASE call'[c] = call[c]
  BY <1>2 DEF At, Awaits, Used
<1>3. ASSUME NEW l \in Call, Becomes(c, l), call'[c] = l
      PROVE  /\ At(c, j, "backoff") => At(c, j, "ready")' \/ Left(c)'
             /\ At(c, j, "ready") => At(c, j, "posted")' \/ Left(c)'
             /\ At(c, j, "posted") => At(c, j, "claim")' \/ Busy(c, j + 1)' \/ Left(c)'
             /\ At(c, j, "claim") => Busy(c, j + 1)' \/ Left(c)'
             /\ At(c, j, "resume") => At(c, j, "ready")' \/ Left(c)'
             /\ At(c, j, "own") => Left(c)'
             /\ At(c, j, "refreshing") => At(c, j, "resume")' \/ At(c, j, "own")' \/ Left(c)'
  <2>1. Idle.pc = "idle"
    BY DEF Idle
  <2>2. CASE l = Idle
    BY <1>3, <2>1, <2>2 DEF Left
  <2>3. CASE Onward(call[c], l)
    BY <1>3, <2>3 DEF Onward, At
  <2>4. CASE Again(call[c], l)
    BY <1>3, <2>4 DEF Again, At, Busy
  <2> QED BY <1>3, <2>2, <2>3, <2>4 DEF Becomes
<1> QED BY <1>1, <1>2, <1>3, OneCallMoves DEF Awaits

(* Each of these is one step of the call.                                  *)
LEMMA CallEnds ==
    ASSUME WInv, NEW c \in Callers, NEW j \in Nat, CallStep(c)
    PROVE  \A place \in Places \ {"idle"} : At(c, j, place) => ~At(c, j, place)'
<1>1. PICK l \in Call : Becomes(c, l)
  BY CallBecomes DEF WInv, Lands
<1>2. call'[c] = l
  BY <1>1 DEF WInv, AInv, Types, Becomes
<1>3. Idle.pc = "idle"
  BY DEF Idle
<1> QED BY <1>1, <1>2, <1>3 DEF Becomes, Onward, Again, At

(* So does the refresh of a caller's own, until the caller has seen it.    *)
LEMMA OwnStays ==
    ASSUME WInv, NEW c \in Callers, body[c] \in Ended, [Next]_vars,
           call[c].pc = "own", call'[c].pc = "own"
    PROVE  body'[c] = body[c]
<1>1. /\ body \in [Runners -> Stages] /\ c \in Runners
      /\ body[c] \notin Running \cup {"none"}
      /\ \A m \in 1 .. Slot : m \in Runners
      /\ \A m \in Nat : m # c
  <2>1. \A m \in 1 .. Slot : m \in Runners
    BY Sizes DEF WInv
  <2>2. \A m \in Nat : m # c
    OBVIOUS
  <2> QED BY <2>1, <2>2 DEF WInv, AInv, Types, Ended, Running
<1>2. ASSUME NEW s \in Runners, s \in Callers \/ s \in 1 .. Slot,
             BodyStep(s) \/ (s \in 1 .. Slot /\ TaskStep(s))
      PROVE  body'[c] = body[c]
  <2>1. PICK stage \in Stages, m \in {0, rungs[s], rungs[s] + 1} :
            body' = [body EXCEPT ![s] = stage] /\ RunMove(s, stage, m)
    BY <1>2, RunBecomes DEF WInv
  <2>2. s # c
    BY <1>1, <2>1 DEF RunMove, Running
  <2> QED BY <1>1, <2>1, <2>2
<1>3. ASSUME NEW d \in Callers, d # c, NEW stage \in {"fetch", "none"}, To(d, stage, 0)
      PROVE  body'[c] = body[c]
  BY <1>1, <1>3 DEF To
<1>4. ASSUME NEW d \in Callers, NEW kind \in Kinds, Begin(d, kind)
      PROVE  body'[c] = body[c]
  BY <1>3, <1>4 DEF Begin
<1>5. ASSUME NEW d \in Callers, CallStep(d) \/ CancelCall(d)
      PROVE  body'[c] = body[c]
  <2>1. PICK l \in Call : Becomes(d, l) /\ Refreshes(d, l)
    BY <1>5, CallBecomes DEF WInv, Lands
  <2>2. CASE Create(d)
    <3>1. Slot + 1 # c
      <4>1. Slot + 1 \in Nat
        BY Sizes DEF WInv
      <4> QED BY <1>1, <4>1
    <3> QED BY <1>1, <2>2, <3>1 DEF Create
  <2>3. CASE d = c
    <3>1. call'[c] = l
      BY <2>1, <2>3 DEF Becomes, WInv, AInv, Types
    <3> QED BY <2>1, <2>2, <2>3, <3>1 DEF Refreshes
  <2>4. CASE d # c
    BY <1>3, <2>1, <2>2, <2>4 DEF Refreshes
  <2> QED BY <2>3, <2>4
<1>6. BeginClose \/ Fence \/ Closed \/ Open \/ UNCHANGED vars => body'[c] = body[c]
  BY LifecycleKeepsW
<1>7. ASSUME NEW d \in Callers, BodyStep(d)
      PROVE  body'[c] = body[c]
  BY <1>2, <1>7
<1>8. ASSUME NEW m \in 1 .. Slot, TaskStep(m)
      PROVE  body'[c] = body[c]
  BY <1>1, <1>2, <1>8
<1> QED BY <1>4, <1>5, <1>6, <1>7, <1>8 DEF Next

(* A call has as many retries and refreshes as the program allows.         *)
LEMMA UsedBounded ==
    ASSUME MaxRate <= 3, MaxServer <= 3, WInv, NEW c \in Callers
    PROVE  Used(call[c]) \in {0, 1, 2, 3, 4, 5, 6, 7}
<1> DEFINE k == call[c]
<1>1. k.rate \in Nat /\ k.server \in Nat /\ k.refreshes \in {0, 1}
      /\ k.rate <= MaxRate /\ k.server <= MaxServer
  BY DEF WInv, AInv, Types, Call, Fit, Refresh, Paid
<1>2. k.rate \in {0, 1, 2, 3} /\ k.server \in {0, 1, 2, 3}
  <2> HIDE DEF k
  <2> QED BY <1>1, Bounds
<1> HIDE DEF k
<1>3. k.rate + k.server + k.refreshes \in {0, 1, 2, 3, 4, 5, 6, 7}
  BY <1>1, <1>2
<1> QED BY <1>3 DEF k, Used

(* The wait for a shared refresh ends: the refresh is over, however it was *)
(* answered and whatever became of its generation.                         *)
LEMMA AwaitPasses ==
    ASSUME MaxRungs <= 6, NEW c \in Callers
    PROVE  []WInv /\ [][Next]_vars /\ Scheduled =>
               \A j \in Nat, n \in 1 .. MaxCalls :
                   [](Awaits(c, j, n) => <>(At(c, j, "resume") \/ At(c, j, "own") \/ Left(c)))
<1> SUFFICES ASSUME NEW j \in Nat, NEW n \in 1 .. MaxCalls
             PROVE  []WInv /\ [][Next]_vars /\ Scheduled =>
                        [](Awaits(c, j, n) => <>(At(c, j, "resume") \/ At(c, j, "own") \/ Left(c)))
  OBVIOUS
<1>0. n \in Runners
  OBVIOUS
<1>1. WInv /\ [Next]_vars =>
          (Awaits(c, j, n) => \/ Awaits(c, j, n)' \/ At(c, j, "resume")'
                              \/ At(c, j, "own")' \/ Left(c)')
  BY CallSteps
<1>2. WInv /\ <<CallStep(c)>>_vars => (Awaits(c, j, n) => ~Awaits(c, j, n)')
  BY CallEnds DEF Awaits, Places
<1>3. WInv /\ Awaits(c, j, n) => CanRun(n) \/ TaskOver(n)
  <2> SUFFICES ASSUME WInv, Awaits(c, j, n) PROVE CanRun(n) \/ TaskOver(n)
    OBVIOUS
  <2>1. n \in 1 .. Slot
    BY DEF WInv, AInv, Fit, Refresh, Awaits, At
  <2> QED BY <1>0, <2>1 DEF WInv, AInv, Types, Started, CanRun, TaskOver, Stages
<1>4. WInv /\ Awaits(c, j, n) /\ Over(n) => TaskOver(n)
  BY <1>3 DEF CanRun, Over
<1>5. Awaits(c, j, n) /\ TaskOver(n) => CanCall(c)
  BY DEF Awaits, At, TaskOver, CanCall
<1>6. WInv /\ [Next]_vars => (TaskOver(n) => TaskOver(n)')
  BY OverStays
<1>7. []WInv /\ [][Next]_vars /\ Scheduled => \A r \in Runners : Finishes(r)
  BY RunIsOver
<1>8. (\A r \in Runners : Finishes(r)) => Finishes(n)
  BY <1>0
<1>9. Scheduled => Steps(c)
  BY DEF Scheduled
<1> QED BY <1>1, <1>2, <1>3, <1>4, <1>5, <1>6, <1>7, <1>8, <1>9, PTL DEF Steps, Finishes

(* So does the wait for a refresh of the caller's own.                     *)
LEMMA OwnPasses ==
    ASSUME MaxRungs <= 6, NEW c \in Callers
    PROVE  []WInv /\ [][Next]_vars /\ Scheduled =>
               \A j \in Nat : [](At(c, j, "own") => <>Left(c))
<1> SUFFICES ASSUME NEW j \in Nat
             PROVE  []WInv /\ [][Next]_vars /\ Scheduled => [](At(c, j, "own") => <>Left(c))
  OBVIOUS
<1>0. c \in Runners
  OBVIOUS
<1>1. WInv /\ [Next]_vars => (At(c, j, "own") => At(c, j, "own")' \/ Left(c)')
  BY CallSteps
<1>2. WInv /\ <<CallStep(c)>>_vars => (At(c, j, "own") => ~At(c, j, "own")')
  BY CallEnds DEF Places
<1>3. WInv /\ At(c, j, "own") => CanRun(c) \/ OwnOver(c, j)
  BY <1>0 DEF WInv, AInv, Types, Owned, At, CanRun, OwnOver, Stages
<1>4. WInv /\ At(c, j, "own") /\ Over(c) => OwnOver(c, j)
  BY <1>3 DEF CanRun, Over
<1>5. OwnOver(c, j) => CanCall(c)
  BY DEF OwnOver, At, CanCall
<1>6. WInv /\ [Next]_vars => (OwnOver(c, j) => OwnOver(c, j)' \/ Left(c)')
  <2> SUFFICES ASSUME WInv, [Next]_vars, OwnOver(c, j), ~Left(c)'
               PROVE  OwnOver(c, j)'
    OBVIOUS
  <2>1. At(c, j, "own") /\ At(c, j, "own")'
    BY <1>1 DEF OwnOver
  <2>2. body'[c] = body[c]
    BY <2>1, OwnStays DEF At, OwnOver
  <2> QED BY <2>1, <2>2 DEF OwnOver
<1>7. []WInv /\ [][Next]_vars /\ Scheduled => \A r \in Runners : Finishes(r)
  BY RunIsOver
<1>8. (\A r \in Runners : Finishes(r)) => Finishes(c)
  BY <1>0
<1>9. Scheduled => Steps(c)
  BY DEF Scheduled
<1> QED BY <1>1, <1>2, <1>3, <1>4, <1>5, <1>6, <1>7, <1>8, <1>9, PTL DEF Steps, Finishes

(* A call that used j retries and refreshes uses another, or it ends.      *)
LEMMA CallPasses ==
    ASSUME MaxRungs <= 6, NEW c \in Callers
    PROVE  []WInv /\ [][Next]_vars /\ Scheduled => \A j \in Nat : Passes(c, j)
<1> SUFFICES ASSUME NEW j \in Nat
             PROVE  []WInv /\ [][Next]_vars /\ Scheduled => Passes(c, j)
  OBVIOUS
<1> DEFINE Answer == At(c, j, "resume") \/ At(c, j, "own") \/ Left(c)
<1>1. WInv /\ Busy(c, j) =>
          \/ At(c, j, "refreshing") \/ At(c, j, "resume") \/ At(c, j, "backoff")
          \/ At(c, j, "ready") \/ At(c, j, "posted") \/ At(c, j, "claim") \/ At(c, j, "own")
  <2> SUFFICES ASSUME WInv, Busy(c, j)
               PROVE  \E place \in Places \ {"idle"} : At(c, j, place)
    BY DEF Places
  <2>1. call[c].pc \in Places
    BY DEF WInv, AInv, Types, Call
  <2> QED BY <2>1 DEF Busy, At
<1>2. WInv /\ At(c, j, "refreshing") => \E n \in 1 .. MaxCalls : Awaits(c, j, n)
  <2> SUFFICES ASSUME WInv, At(c, j, "refreshing")
               PROVE  call[c].on \in 1 .. MaxCalls
    BY DEF Awaits
  <2>1. call[c].on \in 1 .. Slot
    BY DEF WInv, AInv, Fit, Refresh, At
  <2> QED BY <2>1, Sizes DEF WInv
<1>3. Scheduled => Steps(c)
  BY DEF Scheduled
<1>4. []WInv /\ [][Next]_vars /\ Scheduled =>
          [](At(c, j, "resume") => <>(At(c, j, "ready") \/ Left(c)))
  <2>1. WInv /\ [Next]_vars =>
            (At(c, j, "resume") => At(c, j, "resume")' \/ At(c, j, "ready")' \/ Left(c)')
    BY CallSteps
  <2>2. WInv /\ <<CallStep(c)>>_vars => (At(c, j, "resume") => ~At(c, j, "resume")')
    BY CallEnds DEF Places
  <2>3. At(c, j, "resume") => CanCall(c)
    BY DEF At, CanCall
  <2> QED BY <1>3, <2>1, <2>2, <2>3, PTL DEF Steps
<1>5. []WInv /\ [][Next]_vars /\ Scheduled =>
          [](At(c, j, "backoff") => <>(At(c, j, "ready") \/ Left(c)))
  <2>1. WInv /\ [Next]_vars =>
            (At(c, j, "backoff") => At(c, j, "backoff")' \/ At(c, j, "ready")' \/ Left(c)')
    BY CallSteps
  <2>2. WInv /\ <<CallStep(c)>>_vars => (At(c, j, "backoff") => ~At(c, j, "backoff")')
    BY CallEnds DEF Places
  <2>3. At(c, j, "backoff") => CanCall(c)
    BY DEF At, CanCall
  <2> QED BY <1>3, <2>1, <2>2, <2>3, PTL DEF Steps
<1>6. []WInv /\ [][Next]_vars /\ Scheduled =>
          [](At(c, j, "ready") => <>(At(c, j, "posted") \/ Left(c)))
  <2>1. WInv /\ [Next]_vars =>
            (At(c, j, "ready") => At(c, j, "ready")' \/ At(c, j, "posted")' \/ Left(c)')
    BY CallSteps
  <2>2. WInv /\ <<CallStep(c)>>_vars => (At(c, j, "ready") => ~At(c, j, "ready")')
    BY CallEnds DEF Places
  <2>3. At(c, j, "ready") => CanCall(c)
    BY DEF At, CanCall
  <2> QED BY <1>3, <2>1, <2>2, <2>3, PTL DEF Steps
<1>7. []WInv /\ [][Next]_vars /\ Scheduled =>
          [](At(c, j, "posted") => <>(At(c, j, "claim") \/ Busy(c, j + 1) \/ Left(c)))
  <2>1. WInv /\ [Next]_vars =>
            (At(c, j, "posted") => At(c, j, "posted")' \/ At(c, j, "claim")' \/ Busy(c, j + 1)' \/ Left(c)')
    BY CallSteps
  <2>2. WInv /\ <<CallStep(c)>>_vars => (At(c, j, "posted") => ~At(c, j, "posted")')
    BY CallEnds DEF Places
  <2>3. At(c, j, "posted") => CanCall(c)
    BY DEF At, CanCall
  <2> QED BY <1>3, <2>1, <2>2, <2>3, PTL DEF Steps
<1>8. []WInv /\ [][Next]_vars /\ Scheduled =>
          [](At(c, j, "claim") => <>(Busy(c, j + 1) \/ Left(c)))
  <2>1. WInv /\ [Next]_vars =>
            (At(c, j, "claim") => At(c, j, "claim")' \/ Busy(c, j + 1)' \/ Left(c)')
    BY CallSteps
  <2>2. WInv /\ <<CallStep(c)>>_vars => (At(c, j, "claim") => ~At(c, j, "claim")')
    BY CallEnds DEF Places
  <2>3. At(c, j, "claim") => CanCall(c)
    BY DEF At, CanCall
  <2> QED BY <1>3, <2>1, <2>2, <2>3, PTL DEF Steps
<1>9. []WInv /\ [][Next]_vars /\ Scheduled => [](At(c, j, "own") => <>Left(c))
  BY OwnPasses
<1>10. []WInv /\ [][Next]_vars /\ Scheduled => [](At(c, j, "refreshing") => <>Answer)
  <2>1. []WInv /\ [][Next]_vars /\ Scheduled =>
            \A n \in 1 .. MaxCalls : [](Awaits(c, j, n) => <>Answer)
    BY AwaitPasses
  <2>2. (\A n \in 1 .. MaxCalls : [](Awaits(c, j, n) => <>Answer))
          => [](\A n \in 1 .. MaxCalls : (Awaits(c, j, n) => <>Answer))
    OBVIOUS
  <2>3. (\A n \in 1 .. MaxCalls : (Awaits(c, j, n) => <>Answer))
          => ((\E n \in 1 .. MaxCalls : Awaits(c, j, n)) => <>Answer)
    OBVIOUS
  <2> QED BY <1>2, <2>1, <2>2, <2>3, PTL
<1> QED BY <1>1, <1>4, <1>5, <1>6, <1>7, <1>8, <1>9, <1>10, PTL DEF Passes

(* Every call ends, for the retries and the rungs that the program allows: *)
(* three retries after a 429, three after a 5xx, one refresh of six rungs. *)
(* Each wait on the way is for something that ends, also when close()      *)
(* takes away the refresh that the call waits for.                         *)
THEOREM EveryCallEnds ==
    ASSUME MaxRate <= 3, MaxServer <= 3, MaxRungs <= 6
    PROVE  Spec /\ Scheduled => CallsEnd
<1> SUFFICES ASSUME NEW c \in Callers
             PROVE  Spec /\ Scheduled => (call[c].pc # "idle" ~> call[c].pc = "idle")
  BY DEF CallsEnd
<1>1. WInv => (call[c].pc # "idle" =>
                  \/ Busy(c, 0) \/ Busy(c, 1) \/ Busy(c, 2) \/ Busy(c, 3)
                  \/ Busy(c, 4) \/ Busy(c, 5) \/ Busy(c, 6) \/ Busy(c, 7))
  <2> SUFFICES ASSUME WInv, call[c].pc # "idle"
               PROVE  Used(call[c]) \in {0, 1, 2, 3, 4, 5, 6, 7}
    BY DEF Busy
  <2> QED BY UsedBounded
<1>2. WInv => ~Busy(c, 8)
  <2> SUFFICES ASSUME WInv PROVE Used(call[c]) # 8
    BY DEF Busy
  <2>1. Used(call[c]) \in {0, 1, 2, 3, 4, 5, 6, 7}
    BY UsedBounded
  <2> QED BY <2>1
<1>3. []WInv /\ [][Next]_vars /\ Scheduled => \A j \in Nat : Passes(c, j)
  BY CallPasses
<1>4. (\A j \in Nat : Passes(c, j)) =>
          /\ Passes(c, 0) /\ Passes(c, 1) /\ Passes(c, 2) /\ Passes(c, 3)
          /\ Passes(c, 4) /\ Passes(c, 5) /\ Passes(c, 6) /\ Passes(c, 7)
  OBVIOUS
<1>5. /\ Busy(c, 0 + 1) <=> Busy(c, 1)
      /\ Busy(c, 1 + 1) <=> Busy(c, 2)
      /\ Busy(c, 2 + 1) <=> Busy(c, 3)
      /\ Busy(c, 3 + 1) <=> Busy(c, 4)
      /\ Busy(c, 4 + 1) <=> Busy(c, 5)
      /\ Busy(c, 5 + 1) <=> Busy(c, 6)
      /\ Busy(c, 6 + 1) <=> Busy(c, 7)
      /\ Busy(c, 7 + 1) <=> Busy(c, 8)
  BY DEF Busy
<1> QED BY <1>1, <1>2, <1>3, <1>4, <1>5, WInvHolds, PTL DEF Spec, Passes, Left
================================================================================
