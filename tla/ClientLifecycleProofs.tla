------------------------ MODULE ClientLifecycleProofs ------------------------
(***************************************************************************)
(* Safety of open, drain and close for any number of tasks, tokens,        *)
(* transports and generations.                                             *)
(*                                                                         *)
(* LInv says, for each value of the resource state, how far the wave of    *)
(* the current generation can have come and what admission and transports  *)
(* look like then; other generations are over or untouched.  Most steps    *)
(* only move a task between awaits (TaskMove).  The others are taken one   *)
(* by one: the open wave, the close wave, drain() and admitted work.       *)
(***************************************************************************)
EXTENDS ClientLifecycle, TLAPS

(* The types of the waves and of the tasks.                                *)
Labels == {"idle", "open", "own", "follow", "failing", "aborting", "close", "closing",
           "closingCancelled", "closeAfterOpen", "drain", "drainAfterOpen", "draining", "idling"}

TypeOK == /\ state \in [Epochs -> Admission!Phases]
          /\ res \in {"CLOSED", "OPENING", "OPEN", "CLOSING"}
          /\ epoch \in 0 .. MaxEpoch
          /\ handles \subseteq 1 .. Transports
          /\ open \in [Epochs -> OpenWave]
          /\ close \in [Epochs -> CloseWave]
          /\ pc \in [Tasks -> Labels]
          /\ at \in [Tasks -> 0 .. MaxEpoch]

(* A task that awaits awaits a generation that exists; the owner of an     *)
(* open wave is one task, and nothing has been rolled back before it asks. *)
Awaiting == \A t \in Tasks : pc[t] \notin {"idle", "open", "close", "drain"} => at[t] # 0

Owners == \A t \in Tasks : pc[t] = "own" =>
    /\ res = "OPENING" /\ at[t] = epoch
    /\ open[epoch].rollback = "none"
    /\ \A u \in Tasks : pc[u] = "own" => u = t

(* Other generations are over or untouched.                                *)
Elsewhere == \A e \in Epochs :
    /\ e < epoch => state[e] = "closed"
    /\ e > epoch => /\ state[e] = "unborn"
                    /\ open[e] = [prepare |-> "none", next |-> 1, rollback |-> "none",
                                  outcome |-> "pending", result |-> "pending"]

(* Nothing is admitted to a generation that does not accept yet.           *)
Early == \A e \in Epochs :
    state[e] \in {"unborn", "prepared"} => Admission!LiveOf(e) = {}

(* The current generation, by the state of the resources.                  *)
Shut == res = "CLOSED" => /\ handles = {}
                          /\ epoch # 0 => state[epoch] = "closed"

Opening == res = "OPENING" =>
    /\ epoch # 0
    /\ open[epoch].result = "pending" /\ open[epoch].outcome # "OPENED"
    /\ state[epoch] \in {"unborn", "prepared"}
    /\ state[epoch] = "unborn" => /\ open[epoch].prepare = "running"
                                  /\ open[epoch].rollback = "none"
    /\ open[epoch].prepare = "running" => /\ open[epoch].next <= Transports
                                          /\ handles = 1 .. (open[epoch].next - 1)
                                          /\ open[epoch].rollback \in {"none", "waiting"}
    /\ open[epoch].prepare = "ok" /\ open[epoch].rollback = "none" => handles = 1 .. Transports
    /\ open[epoch].rollback = "marking" => handles = {}

Opened == res = "OPEN" => /\ epoch # 0
                          /\ state[epoch] \in {"accepting", "draining"}
                          /\ handles = 1 .. Transports

(* What a graceful close that nobody cut short has achieved by its fence.  *)
Graceful(w) == w.drain /\ ~w.abort /\ ~w.timedOut
Quiet(e) == state[e] \in {"draining", "closing"} /\ Admission!LiveOf(e) = {}

Closing == res = "CLOSING" =>
    /\ epoch # 0
    /\ close[epoch].phase \in {"stop", "fence"} => state[epoch] \in {"accepting", "draining"}
    /\ close[epoch].phase \in {"hooks", "idle"} => state[epoch] = "draining"
    /\ close[epoch].phase \in {"prepare", "cancel", "release", "mark"} => state[epoch] = "closing"
    /\ close[epoch].phase \notin {"none", "done"}
    /\ handles = IF close[epoch].phase = "mark" THEN {} ELSE 1 .. Transports
    /\ close[epoch].phase \in {"fence", "prepare", "cancel", "release"} /\ Graceful(close[epoch])
           => Quiet(epoch)

LInv == /\ TypeOK
        /\ Awaiting
        /\ Owners
        /\ Elsewhere
        /\ Early
        /\ OutcomesTrue
        /\ Shut
        /\ Opening
        /\ Opened
        /\ Closing


Waiting == Labels \ {"idle", "open", "close", "drain"}

(* A step of one task that leaves the client and its waves alone.          *)
TaskMove(t) == /\ UNCHANGED <<admissionVars, res, epoch, handles, open, close>>
               /\ \E label \in Labels \ {"own"}, e \in {at[t], epoch} :
                    /\ pc' = [pc EXCEPT ![t] = label]
                    /\ at' = [at EXCEPT ![t] = e]
                    /\ label \in Waiting => e # 0

-----------------------------------------------------------------------------
(* Updates of the records of waves.                                        *)
LEMMA OpenTyped ==
    ASSUME NEW w \in OpenWave
    PROVE  /\ \A x \in {"running", "ok", "failed"} : [w EXCEPT !.prepare = x] \in OpenWave
           /\ \A n \in 1 .. Transports + 1 : [w EXCEPT !.next = n] \in OpenWave
           /\ \A x \in {"none", "waiting", "releasing", "marking", "done"} :
                [w EXCEPT !.rollback = x] \in OpenWave
           /\ \A x \in {"pending", "OPENED", "ABORTED_BY_OWNER", "FAILED"} :
                [w EXCEPT !.outcome = x] \in OpenWave /\ [w EXCEPT !.result = x] \in OpenWave
BY DEF OpenWave

LEMMA CloseTyped ==
    ASSUME NEW w \in CloseWave
    PROVE  /\ \A x \in {"stop", "hooks", "idle", "fence", "prepare", "cancel", "release",
                         "mark", "done"} : [w EXCEPT !.phase = x] \in CloseWave
           /\ \A b \in BOOLEAN : /\ [w EXCEPT !.drain = b] \in CloseWave
                                 /\ [w EXCEPT !.abort = b] \in CloseWave
                                 /\ [w EXCEPT !.timedOut = b] \in CloseWave
BY DEF CloseWave

LEMMA Types ==
    ASSUME TypeOK
    PROVE  /\ \A e \in Epochs : open[e] \in OpenWave /\ close[e] \in CloseWave
           /\ \A e \in Epochs, w \in OpenWave : [open EXCEPT ![e] = w] \in [Epochs -> OpenWave]
           /\ \A e \in Epochs, w \in CloseWave : [close EXCEPT ![e] = w] \in [Epochs -> CloseWave]
BY DEF TypeOK

(* A client that is not closed is of a generation.                         *)
LEMMA Generation ==
    ASSUME LInv, res # "CLOSED"
    PROVE  epoch \in Epochs
BY DEF LInv, TypeOK, Opening, Opened, Closing, Epochs

-----------------------------------------------------------------------------
LEMMA InvInit == Init => LInv
<1> SUFFICES ASSUME Init PROVE LInv
  OBVIOUS
<1> USE LifecycleAssumption DEF Init, Admission!Init, Epochs, Admission!Epochs
<1>1. TypeOK
  BY DEF TypeOK, Admission!Phases, OpenWave, CloseWave, Labels
<1>2. Awaiting /\ Owners /\ Elsewhere /\ Early /\ OutcomesTrue
  BY DEF Awaiting, Owners, Elsewhere, Early, OutcomesTrue, Admission!LiveOf
<1>3. Shut /\ Opening /\ Opened /\ Closing
  BY DEF Shut, Opening, Opened, Closing
<1> QED BY <1>1, <1>2, <1>3 DEF LInv

(* A task that moves leaves the client as it is and owns no wave.          *)
LEMMA MoveKeeps ==
    ASSUME LInv, NEW t \in Tasks, TaskMove(t)
    PROVE  LInv'
<1> USE DEF LInv, TaskMove, admissionVars
<1>1. TypeOK'
  BY DEF TypeOK
<1>2. (Awaiting /\ Owners)'
  BY DEF TypeOK, Awaiting, Owners, Waiting
<1>3. (Elsewhere /\ Early /\ OutcomesTrue)'
  BY DEF Elsewhere, Early, OutcomesTrue, Admission!LiveOf
<1>4. (Shut /\ Opening /\ Opened /\ Closing)'
  BY DEF Shut, Opening, Opened, Closing, Quiet, Admission!LiveOf
<1> QED BY <1>1, <1>2, <1>3, <1>4

-----------------------------------------------------------------------------
(* The open wave.                                                          *)

(* A claim starts the next generation.                                     *)
LEMMA ClaimKeeps ==
    ASSUME LInv, NEW t \in Tasks, res = "CLOSED", epoch < MaxEpoch, OpenNow(t)
    PROVE  LInv'
<1> USE LifecycleAssumption DEF LInv, OpenNow, Goto, admissionVars, Epochs, Admission!Epochs
<1>1. TypeOK'
  <2>1. epoch + 1 \in Epochs
    BY DEF TypeOK
  <2>2. open[epoch + 1] \in OpenWave
    BY <2>1, Types
  <2>3. [open[epoch + 1] EXCEPT !.prepare = "running"] \in OpenWave
    BY <2>2, OpenTyped
  <2>4. open' = [open EXCEPT ![epoch + 1] = [open[epoch + 1] EXCEPT !.prepare = "running"]]
    OBVIOUS
  <2>5. open' \in [Epochs -> OpenWave]
    BY <2>1, <2>3, Types
  <2>6. epoch' \in 0 .. MaxEpoch /\ at' = [at EXCEPT ![t] = epoch + 1]
        /\ pc' = [pc EXCEPT ![t] = "own"] /\ UNCHANGED <<state, handles, close>>
        /\ res' = "OPENING"
    BY <2>1
  <2> QED BY <2>5, <2>6 DEF TypeOK, Labels
<1>2. (Awaiting /\ Owners)'
  <2>1. pc' = [pc EXCEPT ![t] = "own"] /\ at' = [at EXCEPT ![t] = epoch + 1] /\ epoch' = epoch + 1
    OBVIOUS
  <2>2. \A u \in Tasks : pc[u] # "own"
    BY DEF Owners
  <2>3. epoch + 1 \in Epochs /\ open[epoch + 1].rollback = "none"
    BY DEF Elsewhere, TypeOK
  <2>4. open' = [open EXCEPT ![epoch + 1] = [open[epoch + 1] EXCEPT !.prepare = "running"]]
    OBVIOUS
  <2>5. open'[epoch + 1] = [open[epoch + 1] EXCEPT !.prepare = "running"]
    BY DEF TypeOK
  <2>6. open'[epoch'].rollback = "none"
    BY <2>1, <2>3, <2>5
  <2> QED BY <2>6 DEF TypeOK, Awaiting, Owners
<1>3. (Elsewhere /\ Early)'
  BY DEF TypeOK, Elsewhere, Early, Shut, Admission!LiveOf
<1>4. OutcomesTrue'
  BY Types DEF TypeOK, OutcomesTrue, Elsewhere, Early, Owners, Opening, Opened, Closing,
               OpenWave, Admission!LiveOf
<1>5. Opening'
  <2>1. epoch' = epoch + 1 /\ epoch + 1 \in Epochs /\ UNCHANGED <<state, handles>>
    BY DEF TypeOK
  <2>2. open'[epoch + 1] = [open[epoch + 1] EXCEPT !.prepare = "running"]
    BY DEF TypeOK
  <2>3. open[epoch + 1].next = 1 /\ open[epoch + 1].rollback = "none"
        /\ open[epoch + 1].outcome = "pending" /\ open[epoch + 1].result = "pending"
        /\ state[epoch + 1] = "unborn"
    BY DEF Elsewhere, TypeOK
  <2>4. handles = {}
    BY DEF Shut
  <2>5. open[epoch + 1] \in OpenWave
    BY <2>1, Types
  <2> QED BY <2>1, <2>2, <2>3, <2>4 DEF Opening
<1>6. (Shut /\ Opened)'
  BY DEF TypeOK, Shut, Opened
<1>7. Closing'
  BY Generation, Types DEF TypeOK, Owners, Opening, Closing
<1> QED BY <1>1, <1>2, <1>3, <1>4, <1>5, <1>6, <1>7

LEMMA PrepareGenerationKeeps ==
    ASSUME LInv, PrepareGeneration
    PROVE  LInv'
<1> USE LifecycleAssumption DEF LInv, PrepareGeneration, Admission!Prepare, admissionVars, Epochs, Admission!Epochs
<1>1. TypeOK'
  BY DEF TypeOK, Admission!Phases
<1>2. (Awaiting /\ Owners)'
  BY DEF Awaiting, Owners
<1>3. (Elsewhere /\ Early)'
  BY DEF TypeOK, Elsewhere, Early, Admission!LiveOf
<1>4. OutcomesTrue'
  BY Types DEF TypeOK, OutcomesTrue, Elsewhere, Early, Admission!LiveOf
<1>5. Opening'
  BY Generation, Types DEF TypeOK, Opening
<1>6. (Shut /\ Opened)'
  BY DEF TypeOK, Shut, Opened
<1>7. Closing'
  BY Generation, Types DEF TypeOK, Owners, Opening, Closing
<1> QED BY <1>1, <1>2, <1>3, <1>4, <1>5, <1>6, <1>7

LEMMA OpenTransportKeeps ==
    ASSUME LInv, OpenTransport
    PROVE  LInv'
<1> DEFINE w == open[epoch]
           opened == [[w EXCEPT !.next = w.next + 1]
                         EXCEPT !.prepare = IF w.next = Transports THEN "ok" ELSE "running"]
           failed == [w EXCEPT !.prepare = "failed"]
<1>1. UNCHANGED <<state, live, res, epoch, close, pc, at>> /\ res = "OPENING"
      /\ w.prepare = "running" /\ state[epoch] = "prepared"
  BY DEF OpenTransport, admissionVars
<1>2. epoch \in Epochs /\ w \in OpenWave
  BY <1>1, Generation, Types DEF LInv
<1>3. w.next \in 1 .. Transports /\ handles = 1 .. (w.next - 1) /\ w.result = "pending"
      /\ w.outcome # "OPENED" /\ w.rollback \in {"none", "waiting"}
  BY <1>1, <1>2 DEF LInv, Opening, OpenWave
<1>4. opened \in OpenWave
  <2>1. w.next + 1 \in 1 .. Transports + 1
    BY <1>3, LifecycleAssumption
  <2>2. [w EXCEPT !.next = w.next + 1] \in OpenWave
    BY <1>2, <2>1, OpenTyped
  <2> QED BY <2>2, OpenTyped
<1>5. failed \in OpenWave
  BY <1>2, OpenTyped
<1>6. CASE w.rollback = "none" /\ handles' = handles \cup {w.next}
           /\ open' = [open EXCEPT ![epoch] = opened]
  <2>1. open'[epoch] = opened
    BY <1>2, <1>6 DEF LInv, TypeOK
  <2>2. opened.rollback = "none" /\ opened.result = "pending" /\ opened.outcome # "OPENED"
        /\ opened.next = w.next + 1
        /\ opened.prepare = IF w.next = Transports THEN "ok" ELSE "running"
    BY <1>3, <1>6
  <2>3. handles' = 1 .. w.next
    BY <1>3, <1>6
  <2>4. TypeOK'
    BY <1>1, <1>2, <1>3, <1>4, <1>6 DEF LInv, TypeOK
  <2>5. (Awaiting /\ Owners)'
    BY <1>1, <2>1 DEF LInv, Awaiting, Owners
  <2>6. (Elsewhere /\ Early /\ OutcomesTrue)'
    BY <1>1, <1>2, <1>3, <1>6, <2>1, <2>2 DEF LInv, Elsewhere, Early, OutcomesTrue,
                                              Admission!LiveOf
  <2>7. Opening'
    BY <1>1, <1>2, <1>3, <2>1, <2>3, LifecycleAssumption DEF LInv, Opening
  <2> QED BY <1>1, <2>4, <2>5, <2>6, <2>7 DEF LInv, Shut, Opened, Closing
<1>7. CASE handles' \in {handles, handles \cup {w.next}} /\ open' = [open EXCEPT ![epoch] = failed]
  <2>1. open'[epoch] = failed
    BY <1>2, <1>7 DEF LInv, TypeOK
  <2>2. failed.rollback = w.rollback /\ failed.result = "pending" /\ failed.outcome # "OPENED"
        /\ failed.prepare = "failed"
    BY <1>3
  <2>3. TypeOK'
    BY <1>1, <1>2, <1>3, <1>5, <1>7 DEF LInv, TypeOK
  <2>4. (Awaiting /\ Owners)'
    BY <1>1, <2>1 DEF LInv, Awaiting, Owners
  <2>5. (Elsewhere /\ Early /\ OutcomesTrue)'
    BY <1>1, <1>2, <1>3, <1>7, <2>1, <2>2 DEF LInv, Elsewhere, Early, OutcomesTrue,
                                              Admission!LiveOf
  <2>6. Opening'
    BY <1>1, <1>2, <2>1 DEF LInv, Opening
  <2> QED BY <1>1, <2>3, <2>4, <2>5, <2>6 DEF LInv, Shut, Opened, Closing
<1> QED BY <1>6, <1>7 DEF OpenTransport

LEMMA CommitKeeps ==
    ASSUME LInv, NEW t \in Tasks, Commit(t)
    PROVE  LInv'
<1> USE LifecycleAssumption DEF LInv, Commit, Goto, Admission!StartAccepting, Admission!Move, admissionVars, Epochs, Admission!Epochs
<1>1. TypeOK'
  <2>1. epoch \in Epochs /\ open[epoch] \in OpenWave /\ at[t] = epoch
    BY DEF Opening, Owners, TypeOK
  <2>2. open' \in [Epochs -> OpenWave]
    BY OpenTyped DEF TypeOK
  <2> QED BY <2>2 DEF TypeOK, Labels, Admission!Phases
<1>2. (Awaiting /\ Owners)'
  BY DEF TypeOK, Awaiting, Owners
<1>3. (Elsewhere /\ Early)'
  BY DEF TypeOK, Elsewhere, Early, Admission!LiveOf
<1>4. OutcomesTrue'
  BY Types DEF TypeOK, OutcomesTrue, Elsewhere, Early, Owners, Admission!LiveOf
<1>5. Opening'
  BY Generation, Types DEF TypeOK, Opening
<1>6. (Shut /\ Opened)'
  BY DEF TypeOK, Owners, Shut, Opening, Opened
<1>7. Closing'
  BY Generation, Types DEF TypeOK, Owners, Opening, Closing
<1> QED BY <1>1, <1>2, <1>3, <1>4, <1>5, <1>6, <1>7

LEMMA FailOpenKeeps ==
    ASSUME LInv, NEW t \in Tasks, FailOpen(t)
    PROVE  LInv'
<1> USE LifecycleAssumption DEF LInv, FailOpen, Rollback, Goto, admissionVars, Epochs, Admission!Epochs
<1>1. TypeOK'
  <2>1. epoch \in Epochs /\ open[epoch] \in OpenWave /\ at[t] = epoch
    BY DEF Opening, Owners, TypeOK
  <2>2. open' \in [Epochs -> OpenWave]
    BY OpenTyped DEF TypeOK
  <2> QED BY <2>2 DEF TypeOK, Labels
<1>2. (Awaiting /\ Owners)'
  BY DEF TypeOK, Awaiting, Owners
<1>3. (Elsewhere /\ Early)'
  BY DEF TypeOK, Elsewhere, Early, Admission!LiveOf
<1>4. OutcomesTrue'
  BY Types DEF TypeOK, OutcomesTrue, Elsewhere, Early, Owners, Opening, Admission!LiveOf
<1>5. Opening'
  BY Generation, Types DEF TypeOK, Opening
<1>6. (Shut /\ Opened)'
  BY DEF TypeOK, Shut, Opened
<1>7. Closing'
  BY Generation, Types DEF TypeOK, Owners, Opening, Closing
<1> QED BY <1>1, <1>2, <1>3, <1>4, <1>5, <1>6, <1>7

LEMMA CancelOwnerKeeps ==
    ASSUME LInv, NEW t \in Tasks, CancelOwner(t)
    PROVE  LInv'
<1> USE LifecycleAssumption DEF LInv, CancelOwner, Rollback, Goto, admissionVars, Epochs, Admission!Epochs
<1>1. TypeOK'
  <2>1. epoch \in Epochs /\ open[epoch] \in OpenWave /\ at[t] = epoch
    BY DEF Opening, Owners, TypeOK
  <2>2. open' \in [Epochs -> OpenWave]
    BY OpenTyped DEF TypeOK
  <2> QED BY <2>2 DEF TypeOK, Labels
<1>2. (Awaiting /\ Owners)'
  BY DEF TypeOK, Awaiting, Owners
<1>3. (Elsewhere /\ Early)'
  BY DEF TypeOK, Elsewhere, Early, Admission!LiveOf
<1>4. OutcomesTrue'
  BY Types DEF TypeOK, OutcomesTrue, Elsewhere, Early, Admission!LiveOf
<1>5. Opening'
  BY Generation, Types DEF TypeOK, Opening
<1>6. (Shut /\ Opened)'
  BY DEF TypeOK, Shut, Opened
<1>7. Closing'
  BY Generation, Types DEF TypeOK, Owners, Opening, Closing
<1> QED BY <1>1, <1>2, <1>3, <1>4, <1>5, <1>6, <1>7

LEMMA RollbackPrepareKeeps ==
    ASSUME LInv, RollbackPrepare
    PROVE  LInv'
<1> USE LifecycleAssumption DEF LInv, RollbackPrepare, RollbackStep, admissionVars, Epochs, Admission!Epochs
<1>1. TypeOK'
  <2>1. epoch \in Epochs /\ open[epoch] \in OpenWave
    BY Generation, Types
  <2>2. open' \in [Epochs -> OpenWave]
    BY OpenTyped DEF TypeOK
  <2> QED BY <2>2 DEF TypeOK
<1>2. (Awaiting /\ Owners)'
  BY DEF Awaiting, Owners
<1>3. (Elsewhere /\ Early)'
  BY DEF TypeOK, Elsewhere, Early, Admission!LiveOf
<1>4. OutcomesTrue'
  BY Types DEF TypeOK, OutcomesTrue, Elsewhere, Early, Admission!LiveOf
<1>5. Opening'
  BY Generation, Types DEF TypeOK, Opening
<1>6. (Shut /\ Opened)'
  BY DEF TypeOK, Shut, Opened
<1>7. Closing'
  BY Generation, Types DEF TypeOK, Owners, Opening, Closing
<1> QED BY <1>1, <1>2, <1>3, <1>4, <1>5, <1>6, <1>7

LEMMA RollbackReleaseKeeps ==
    ASSUME LInv, RollbackRelease
    PROVE  LInv'
<1> USE LifecycleAssumption DEF LInv, RollbackRelease, RollbackStep, admissionVars, Epochs, Admission!Epochs
<1>1. TypeOK'
  <2>1. epoch \in Epochs /\ open[epoch] \in OpenWave
    BY Generation, Types
  <2>2. open' \in [Epochs -> OpenWave]
    BY OpenTyped DEF TypeOK
  <2> QED BY <2>2 DEF TypeOK
<1>2. (Awaiting /\ Owners)'
  BY DEF Awaiting, Owners
<1>3. (Elsewhere /\ Early)'
  BY DEF TypeOK, Elsewhere, Early, Admission!LiveOf
<1>4. OutcomesTrue'
  BY Types DEF TypeOK, OutcomesTrue, Elsewhere, Early, Admission!LiveOf
<1>5. Opening'
  BY Generation, Types DEF TypeOK, Opening
<1>6. (Shut /\ Opened)'
  BY DEF TypeOK, Shut, Opened
<1>7. Closing'
  BY Generation, Types DEF TypeOK, Owners, Opening, Closing
<1> QED BY <1>1, <1>2, <1>3, <1>4, <1>5, <1>6, <1>7

LEMMA RollbackMarkKeeps ==
    ASSUME LInv, RollbackMark
    PROVE  LInv'
<1> USE LifecycleAssumption DEF LInv, RollbackMark, Admission!Retire, Admission!Move, admissionVars, Epochs, Admission!Epochs
<1>1. TypeOK'
  <2>1. epoch \in Epochs /\ open[epoch] \in OpenWave
    BY Generation, Types
  <2>2. [open[epoch] EXCEPT !.rollback = "done"] \in OpenWave
    BY <2>1, OpenTyped
  <2>3. open[epoch].outcome \in {"pending", "OPENED", "ABORTED_BY_OWNER", "FAILED"}
    BY <2>1 DEF OpenWave
  <2>4. open' \in [Epochs -> OpenWave]
    BY <2>3, OpenTyped DEF TypeOK
  <2> QED BY <2>4 DEF TypeOK, Admission!Phases
<1>2. (Awaiting /\ Owners)'
  BY DEF Awaiting, Owners
<1>3. (Elsewhere /\ Early)'
  BY DEF TypeOK, Elsewhere, Early, Admission!LiveOf
<1>4. OutcomesTrue'
  BY Types DEF TypeOK, OutcomesTrue, Elsewhere, Early, Opening, Admission!LiveOf
<1>5. Opening'
  BY Generation, Types DEF TypeOK, Opening
<1>6. (Shut /\ Opened)'
  BY DEF TypeOK, Shut, Opening, Opened
<1>7. Closing'
  BY Generation, Types DEF TypeOK, Owners, Opening, Closing
<1> QED BY <1>1, <1>2, <1>3, <1>4, <1>5, <1>6, <1>7

-----------------------------------------------------------------------------
(* The close wave.                                                         *)

LEMMA CloseStartKeeps ==
    ASSUME LInv, NEW t \in Tasks, NEW drain \in BOOLEAN, res = "OPEN", CloseNow(t, drain)
    PROVE  LInv'
<1> USE LifecycleAssumption DEF LInv, CloseNow, Await, Goto, admissionVars, Epochs, Admission!Epochs
<1>1. TypeOK'
  <2>1. epoch \in Epochs /\ close[epoch] \in CloseWave
    BY Generation, Types
  <2>2. [[close[epoch] EXCEPT !.phase = IF drain THEN "stop" ELSE "fence"]
                       EXCEPT !.drain = drain] \in CloseWave
    BY <2>1, CloseTyped
  <2>3. close' = [close EXCEPT ![epoch] =
                    [[close[epoch] EXCEPT !.phase = IF drain THEN "stop" ELSE "fence"]
                                   EXCEPT !.drain = drain]]
    OBVIOUS
  <2>4. close' \in [Epochs -> CloseWave]
    BY <2>1, <2>2, Types
  <2> QED BY <2>4 DEF TypeOK, Labels
<1>2. (Awaiting /\ Owners)'
  BY DEF TypeOK, Awaiting, Owners, Opened
<1>3. (Elsewhere /\ Early)'
  BY DEF TypeOK, Elsewhere, Early, Admission!LiveOf
<1>4. OutcomesTrue'
  BY Types DEF TypeOK, OutcomesTrue, Elsewhere, Early, Admission!LiveOf
<1>5. Opening'
  BY Generation, Types DEF TypeOK, Opening
<1>6. (Shut /\ Opened)'
  BY DEF TypeOK, Shut, Opened
<1>7. Closing'
  BY Generation, Types DEF TypeOK, Owners, Opening, Opened, Closing, Graceful, CloseWave
<1> QED BY <1>1, <1>2, <1>3, <1>4, <1>5, <1>6, <1>7

LEMMA StopAcceptingKeeps ==
    ASSUME LInv, StopAccepting
    PROVE  LInv'
<1> USE LifecycleAssumption DEF LInv, StopAccepting, CloseStep, Admission!StopAccepting,
            Admission!Move, admissionVars, Epochs, Admission!Epochs
<1>1. TypeOK'
  <2>1. epoch \in Epochs /\ close[epoch] \in CloseWave
    BY Generation, Types
  <2>2. close' \in [Epochs -> CloseWave]
    BY CloseTyped DEF TypeOK
  <2> QED BY <2>2 DEF TypeOK, Admission!Phases
<1>2. (Awaiting /\ Owners)'
  BY DEF Awaiting, Owners
<1>3. (Elsewhere /\ Early)'
  BY DEF TypeOK, Elsewhere, Early, Admission!LiveOf
<1>4. OutcomesTrue'
  BY Types DEF TypeOK, OutcomesTrue, Elsewhere, Early, Admission!LiveOf
<1>5. Opening'
  BY Generation, Types DEF TypeOK, Opening
<1>6. (Shut /\ Opened)'
  BY DEF TypeOK, Shut, Opened
<1>7. Closing'
  BY Generation, Types DEF TypeOK, Owners, Opening, Closing
<1> QED BY <1>1, <1>2, <1>3, <1>4, <1>5, <1>6, <1>7

LEMMA BeginClosingKeeps ==
    ASSUME LInv, BeginClosing
    PROVE  LInv'
<1> USE LifecycleAssumption DEF LInv, BeginClosing, CloseStep, Admission!BeginClosing,
            Admission!Move, admissionVars, Epochs, Admission!Epochs
<1>1. TypeOK'
  <2>1. epoch \in Epochs /\ close[epoch] \in CloseWave
    BY Generation, Types
  <2>2. close' \in [Epochs -> CloseWave]
    BY CloseTyped DEF TypeOK
  <2> QED BY <2>2 DEF TypeOK, Admission!Phases
<1>2. (Awaiting /\ Owners)'
  BY DEF Awaiting, Owners
<1>3. (Elsewhere /\ Early)'
  BY DEF TypeOK, Elsewhere, Early, Admission!LiveOf
<1>4. OutcomesTrue'
  BY Types DEF TypeOK, OutcomesTrue, Elsewhere, Early, Admission!LiveOf
<1>5. Opening'
  BY Generation, Types DEF TypeOK, Opening
<1>6. (Shut /\ Opened)'
  BY DEF TypeOK, Shut, Opened
<1>7. Closing'
  BY Generation, Types DEF TypeOK, Owners, Opening, Closing, Quiet, Graceful,
                           Admission!LiveOf
<1> QED BY <1>1, <1>2, <1>3, <1>4, <1>5, <1>6, <1>7

(* The steps that move nothing but the wave.                               *)
LEMMA WaveKeeps ==
    ASSUME LInv,
           GracefulHooks \/ WaitForIdle \/ DrainTimeout \/ AbortGraceful
           \/ PrepareClose \/ CancelHooks
    PROVE  LInv'
<1>1. res = "CLOSING" /\ UNCHANGED <<state, live, res, epoch, handles, open, pc, at>>
  BY DEF GracefulHooks, WaitForIdle, DrainTimeout, AbortGraceful, PrepareClose,
         CancelHooks, CloseStep, admissionVars
<1>2. epoch \in Epochs /\ close[epoch] \in CloseWave
  BY <1>1, Generation, Types DEF LInv
<1>3. close' \in [Epochs -> CloseWave]
  <2>1. CASE GracefulHooks
    BY <1>2, CloseTyped, <2>1 DEF GracefulHooks, CloseStep, LInv, TypeOK
  <2>2. CASE WaitForIdle
    BY <1>2, CloseTyped, <2>2 DEF WaitForIdle, CloseStep, LInv, TypeOK
  <2>3. CASE DrainTimeout
    BY CloseTyped, <2>3 DEF DrainTimeout, LInv, TypeOK
  <2>4. CASE AbortGraceful
    BY <1>2, CloseTyped, <2>4 DEF AbortGraceful, CloseStep, LInv, TypeOK
  <2>5. CASE PrepareClose
    BY <1>2, CloseTyped, <2>5 DEF PrepareClose, CloseStep, LInv, TypeOK
  <2>6. CASE CancelHooks
    BY <1>2, CloseTyped, <2>6 DEF CancelHooks, CloseStep, LInv, TypeOK
  <2> QED BY <2>1, <2>2, <2>3, <2>4, <2>5, <2>6
<1>4. Closing'
  <2>1. CASE GracefulHooks
    BY <1>1, <1>2, <2>1 DEF GracefulHooks, CloseStep, LInv, Closing
  <2>2. CASE WaitForIdle
    BY <1>1, <1>2, <2>2 DEF WaitForIdle, CloseStep, LInv, Closing, Quiet,
                            Admission!LiveOf
  <2>3. CASE DrainTimeout
    BY <1>1, <1>2, <2>3 DEF DrainTimeout, LInv, TypeOK, Closing, Graceful
  <2>4. CASE AbortGraceful
    BY <1>1, <1>2, <2>4 DEF AbortGraceful, CloseStep, LInv, Closing, Graceful
  <2>5. CASE PrepareClose
    BY <1>1, <1>2, <2>5 DEF PrepareClose, CloseStep, LInv, Closing, Quiet, Graceful,
                            Admission!LiveOf
  <2>6. CASE CancelHooks
    BY <1>1, <1>2, <2>6 DEF CancelHooks, CloseStep, LInv, Closing, Quiet, Graceful,
                            Admission!LiveOf
  <2> QED BY <2>1, <2>2, <2>3, <2>4, <2>5, <2>6
<1>5. (Awaiting /\ Owners /\ Elsewhere /\ Early /\ OutcomesTrue)'
  BY <1>1 DEF LInv, Awaiting, Owners, Elsewhere, Early, OutcomesTrue, Admission!LiveOf
<1>6. (Shut /\ Opening /\ Opened)'
  BY <1>1 DEF Shut, Opening, Opened
<1> QED BY <1>1, <1>3, <1>4, <1>5, <1>6 DEF LInv, TypeOK

LEMMA CloseResourcesKeeps ==
    ASSUME LInv, CloseResources
    PROVE  LInv'
<1> USE LifecycleAssumption DEF LInv, CloseResources, CloseStep, admissionVars, Epochs, Admission!Epochs
<1>1. TypeOK'
  <2>1. epoch \in Epochs /\ close[epoch] \in CloseWave
    BY Generation, Types
  <2>2. close' \in [Epochs -> CloseWave]
    BY CloseTyped DEF TypeOK
  <2> QED BY <2>2 DEF TypeOK
<1>2. (Awaiting /\ Owners)'
  BY DEF Awaiting, Owners
<1>3. (Elsewhere /\ Early)'
  BY DEF TypeOK, Elsewhere, Early, Admission!LiveOf
<1>4. OutcomesTrue'
  BY Types DEF TypeOK, OutcomesTrue, Elsewhere, Early, Admission!LiveOf
<1>5. Opening'
  BY Generation, Types DEF TypeOK, Opening
<1>6. (Shut /\ Opened)'
  BY DEF TypeOK, Shut, Opened
<1>7. Closing'
  BY Generation, Types DEF TypeOK, Owners, Opening, Closing
<1> QED BY <1>1, <1>2, <1>3, <1>4, <1>5, <1>6, <1>7

LEMMA MarkClosedKeeps ==
    ASSUME LInv, MarkClosed
    PROVE  LInv'
<1> USE LifecycleAssumption DEF LInv, MarkClosed, CloseStep, Admission!Retire, Admission!Move, admissionVars, Epochs, Admission!Epochs
<1>1. TypeOK'
  <2>1. epoch \in Epochs /\ close[epoch] \in CloseWave
    BY Generation, Types
  <2>2. close' \in [Epochs -> CloseWave]
    BY CloseTyped DEF TypeOK
  <2> QED BY <2>2 DEF TypeOK, Admission!Phases
<1>2. (Awaiting /\ Owners)'
  BY DEF Awaiting, Owners
<1>3. (Elsewhere /\ Early)'
  BY DEF TypeOK, Elsewhere, Early, Admission!LiveOf
<1>4. OutcomesTrue'
  BY Types DEF TypeOK, OutcomesTrue, Elsewhere, Early, Admission!LiveOf
<1>5. Opening'
  BY Generation, Types DEF TypeOK, Opening
<1>6. (Shut /\ Opened)'
  BY DEF TypeOK, Shut, Opened, Closing
<1>7. Closing'
  BY Generation, Types DEF TypeOK, Owners, Opening, Closing
<1> QED BY <1>1, <1>2, <1>3, <1>4, <1>5, <1>6, <1>7

(* A cancelled waiter ends the grace.                                      *)
LEMMA AbortKeeps ==
    ASSUME LInv, NEW t \in Tasks, pc[t] = "closing", CancelClosing(t)
    PROVE  LInv'
<1> USE LifecycleAssumption DEF LInv, CancelClosing, Goto, admissionVars, Epochs, Admission!Epochs
<1>1. TypeOK'
  <2>1. at[t] \in Epochs
    <3>1. at[t] \in 0 .. MaxEpoch
      BY DEF TypeOK
    <3>2. at[t] # 0
      BY DEF Awaiting
    <3> QED BY <3>1, <3>2
  <2>2. close[at[t]] \in CloseWave
    BY <2>1, Types
  <2>3. close' \in [Epochs -> CloseWave]
    BY <2>2, CloseTyped DEF TypeOK
  <2> QED BY <2>3 DEF TypeOK, Labels
<1>2. (Awaiting /\ Owners)'
  BY DEF TypeOK, Awaiting, Owners
<1>3. (Elsewhere /\ Early)'
  BY DEF TypeOK, Elsewhere, Early, Admission!LiveOf
<1>4. OutcomesTrue'
  BY Types DEF TypeOK, OutcomesTrue, Elsewhere, Early, Admission!LiveOf
<1>5. Opening'
  BY Generation, Types DEF TypeOK, Opening
<1>6. (Shut /\ Opened)'
  BY DEF TypeOK, Shut, Opened
<1>7. Closing'
  BY Generation, Types DEF TypeOK, Owners, Opening, Opened, Closing, Quiet, Graceful,
                           CloseWave, Admission!LiveOf
<1> QED BY <1>1, <1>2, <1>3, <1>4, <1>5, <1>6, <1>7

-----------------------------------------------------------------------------
(* drain() and work.                                                       *)

LEMMA DrainStopKeeps ==
    ASSUME LInv, NEW t \in Tasks, CanStop(at[t]), DrainStop(t)
    PROVE  LInv'
<1> USE LifecycleAssumption DEF LInv, DrainStop, CanStop, Admission!Current, JoinRace, Goto, Admission!StopAccepting,
            Admission!Move, admissionVars, Epochs, Admission!Epochs
<1>1. TypeOK'
  BY DEF TypeOK, Labels, Admission!Phases
<1>2. (Awaiting /\ Owners)'
  <2>1. Awaiting'
    BY DEF TypeOK, Awaiting
  <2>2. Owners'
    BY DEF TypeOK, Owners
  <2> QED BY <2>1, <2>2
<1>3. (Elsewhere /\ Early)'
  BY DEF TypeOK, Elsewhere, Early, Admission!LiveOf
<1>4. OutcomesTrue'
  BY Types DEF TypeOK, OutcomesTrue, Elsewhere, Early, Admission!LiveOf
<1>5. Opening'
  BY Generation, Types DEF TypeOK, Opening
<1>6. (Shut /\ Opened)'
  BY DEF TypeOK, Shut, Opened
<1>7. Closing'
  BY Generation, Types DEF TypeOK, Owners, Opening, Closing, Quiet, Admission!LiveOf
<1> QED BY <1>1, <1>2, <1>3, <1>4, <1>5, <1>6, <1>7

(* Nothing is admitted to a generation that is quiet or not open yet.      *)
LEMMA WorkKeeps ==
    ASSUME LInv, NEW t \in Tasks, Work(t)
    PROVE  LInv'
<1> USE LifecycleAssumption DEF LInv, Work, HoldsAdmission, Admission!Admit, Admission!Settle, Admission!Holds, admissionVars, Epochs, Admission!Epochs
<1>1. TypeOK'
  BY DEF TypeOK
<1>2. (Awaiting /\ Owners)'
  BY DEF Awaiting, Owners
<1>3. (Elsewhere /\ Early)'
  BY DEF TypeOK, Elsewhere, Early, Admission!LiveOf
<1>4. OutcomesTrue'
  BY Types DEF TypeOK, OutcomesTrue, Elsewhere, Early, Admission!LiveOf
<1>5. Opening'
  BY Generation, Types DEF TypeOK, Opening
<1>6. (Shut /\ Opened)'
  BY DEF TypeOK, Shut, Opened
<1>7. Closing'
  BY Generation, Types DEF TypeOK, Owners, Opening, Closing, Quiet, Admission!LiveOf
<1> QED BY <1>1, <1>2, <1>3, <1>4, <1>5, <1>6, <1>7

-----------------------------------------------------------------------------
(* All steps.                                                              *)
LEMMA Moves ==
    ASSUME LInv, NEW t \in Tasks
    PROVE  /\ \A label \in {"open", "drain", "close"} : Call(t, label) => TaskMove(t)
           /\ Leave(t) \/ CancelCleanup(t) \/ Cleaned(t) => TaskMove(t)
           /\ Followed(t) \/ AfterOpen(t) \/ Closed(t) => TaskMove(t)
           /\ DrainNow(t) => TaskMove(t)
           /\ DrainIdle(t) => TaskMove(t)
           /\ ~CanStop(at[t]) /\ DrainStop(t) => TaskMove(t)
           /\ OpenNow(t) => TaskMove(t) \/ (res = "CLOSED" /\ epoch < MaxEpoch)
           /\ \A drain \in BOOLEAN : CloseNow(t, drain) => TaskMove(t) \/ res = "OPEN"
           /\ pc[t] # "closing" /\ CancelClosing(t) => TaskMove(t)
<1> USE DEF LInv, TypeOK, TaskMove, Waiting, Labels, Goto, Await
<1>1. ASSUME NEW label \in {"open", "drain", "close"}, Call(t, label) PROVE TaskMove(t)
  BY <1>1 DEF Call
<1>2. ASSUME Leave(t) \/ CancelCleanup(t) \/ Cleaned(t) PROVE TaskMove(t)
  BY <1>2 DEF Leave, CancelCleanup, Cleaned, Awaiting
<1>3. ASSUME Followed(t) \/ AfterOpen(t) \/ Closed(t) PROVE TaskMove(t)
  BY <1>3 DEF Followed, AfterOpen, Closed
<1>4. ASSUME DrainNow(t) PROVE TaskMove(t)
  BY <1>4 DEF DrainNow, Opening, Opened, Closing
<1>5. ASSUME DrainIdle(t) PROVE TaskMove(t)
  BY <1>5 DEF DrainIdle, JoinRace, Awaiting
<1>6. ASSUME ~CanStop(at[t]), DrainStop(t) PROVE TaskMove(t)
  BY <1>6 DEF DrainStop, JoinRace, Awaiting
<1>7. ASSUME OpenNow(t), ~(res = "CLOSED" /\ epoch < MaxEpoch) PROVE TaskMove(t)
  BY <1>7 DEF OpenNow, Opening
<1>8. ASSUME NEW drain \in BOOLEAN, CloseNow(t, drain), res # "OPEN" PROVE TaskMove(t)
  <2>1. res \in {"CLOSED", "OPENING", "CLOSING"}
    BY <1>8
  <2>2. res \in {"OPENING", "CLOSING"} => epoch # 0
    BY DEF Opening, Closing
  <2> QED BY <1>8, <2>2 DEF CloseNow
<1>9. ASSUME pc[t] # "closing", CancelClosing(t) PROVE TaskMove(t)
  BY <1>9 DEF CancelClosing
<1> HIDE DEF LInv, TypeOK, TaskMove, Waiting, Labels, Goto, Await
<1> QED BY <1>1, <1>2, <1>3, <1>4, <1>5, <1>6, <1>7, <1>8, <1>9

LEMMA NextKeeps ==
    ASSUME LInv, Next
    PROVE  LInv'
<1>1. CASE Waves \/ DrainTimeout
  BY <1>1, PrepareGenerationKeeps, OpenTransportKeeps, RollbackPrepareKeeps,
     RollbackReleaseKeeps, RollbackMarkKeeps, StopAcceptingKeeps, BeginClosingKeeps,
     WaveKeeps, CloseResourcesKeeps, MarkClosedKeeps DEF Waves
<1>2. CASE \E t \in Tasks : Work(t)
  BY <1>2, WorkKeeps
<1>3. CASE \E t \in Tasks, label \in {"open", "drain", "close"} : Call(t, label)
  BY <1>3, Moves, MoveKeeps
<1>4. CASE \E t \in Tasks : Proceed(t)
  <2>1. PICK t \in Tasks : Proceed(t)
    BY <1>4
  <2>2. CASE OpenNow(t)
    BY <2>2, ClaimKeeps, Moves, MoveKeeps
  <2>3. CASE Commit(t) \/ FailOpen(t)
    BY <2>3, CommitKeeps, FailOpenKeeps
  <2>4. CASE \E drain \in BOOLEAN : CloseNow(t, drain)
    BY <2>4, CloseStartKeeps, Moves, MoveKeeps
  <2>5. CASE DrainStop(t)
    BY <2>5, DrainStopKeeps, Moves, MoveKeeps
  <2>6. CASE Cleaned(t) \/ Followed(t) \/ AfterOpen(t) \/ Closed(t) \/ DrainNow(t) \/ DrainIdle(t)
    BY <2>6, Moves, MoveKeeps
  <2> QED BY <2>1, <2>2, <2>3, <2>4, <2>5, <2>6 DEF Proceed
<1>5. CASE \E t \in Tasks : Cancel(t)
  BY <1>5, CancelOwnerKeeps, AbortKeeps, Moves, MoveKeeps DEF Cancel
<1> QED BY <1>1, <1>2, <1>3, <1>4, <1>5 DEF Next

(* Nothing happens to the client while nobody steps.                       *)
LEMMA StutterKeeps == LInv /\ UNCHANGED vars => LInv'
BY DEF LInv, vars, admissionVars, TypeOK, Awaiting, Owners, Elsewhere, Early,
       OutcomesTrue, Shut, Opening, Opened, Closing, Quiet, Admission!LiveOf

THEOREM Invariance == Spec => []LInv
<1>1. LInv /\ [Next]_vars => LInv'
  BY NextKeeps, StutterKeeps
<1> QED BY InvInit, <1>1, PTL DEF Spec

-----------------------------------------------------------------------------
(* What follows from it.                                                   *)

(* Resource state, admission, transports and waves describe one client,    *)
(* however many tasks open, drain and close it.                            *)
THEOREM WavesAgree == Spec => []Agreement
<1>1. LInv => Agreement
  <2> SUFFICES ASSUME LInv PROVE Agreement
    OBVIOUS
  <2>1. \A e \in Epochs : Admission!Current(e) => e = epoch
    BY DEF LInv, TypeOK, Elsewhere, Admission!Current, Epochs
  <2>2. res = "CLOSED" => handles = {} /\ \A e \in Epochs : ~Admission!Current(e)
    BY <2>1 DEF LInv, Shut, Admission!Current, Epochs
  <2> QED BY <2>1, <2>2 DEF LInv, Agreement, Opening, Opened, Closing
<1> QED BY <1>1, Invariance, PTL

(* The close wave always finds its generation where it can stop or fence   *)
(* it: the branches that hand the client back as OPEN are dead.            *)
THEOREM CloseGoesThrough == Spec => []CloseNeverReopens
<1>1. LInv => CloseNeverReopens
  BY DEF LInv, CloseNeverReopens, CanStop, Closing, Admission!Current
<1> QED BY <1>1, Invariance, PTL

(* Followers of an open are told what happened to it.                      *)
THEOREM FollowersAreTold == Spec => []OutcomesTrue
<1>1. LInv => OutcomesTrue
  BY DEF LInv
<1> QED BY <1>1, Invariance, PTL

(* Transports lose their resources in two steps only, one of each wave.    *)
LEMMA Releases ==
    ASSUME LInv, Next, handles' \subseteq handles, handles' # handles
    PROVE  RollbackRelease \/ CloseResources
<1>1. CASE Waves \/ DrainTimeout
  BY <1>1 DEF Waves, DrainTimeout, PrepareGeneration, OpenTransport, RollbackPrepare,
              RollbackMark, StopAccepting, GracefulHooks, WaitForIdle, AbortGraceful,
              BeginClosing, PrepareClose, CancelHooks, MarkClosed
<1>2. CASE \E t \in Tasks : \/ Work(t)
                           \/ \E label \in {"open", "drain", "close"} : Call(t, label)
                           \/ Proceed(t)
                           \/ Cancel(t)
  BY <1>2 DEF Work, Call, Proceed, Cancel, OpenNow, Commit, FailOpen, Cleaned, Followed,
              CloseNow, AfterOpen, Closed, DrainNow, DrainStop, DrainIdle, Leave,
              CancelOwner, CancelCleanup, CancelClosing
<1> QED BY <1>1, <1>2 DEF Next

(* They lose them behind a fence, and in a graceful close that nobody cut  *)
(* short when no admitted work is left.                                    *)
THEOREM ReleaseIsBehindFence == Spec => ReleaseIsFenced
<1>1. ASSUME LInv, [Next]_vars, handles' \subseteq handles, handles' # handles
      PROVE  /\ state[epoch] \in {"prepared", "closing"}
             /\ \/ res = "OPENING"
                \/ ~close[epoch].drain
                \/ close[epoch].abort
                \/ close[epoch].timedOut
                \/ Admission!LiveOf(epoch) = {}
  <2>1. RollbackRelease \/ CloseResources
    BY <1>1, Releases DEF vars
  <2>2. CASE RollbackRelease
    BY <1>1, <2>2 DEF LInv, Opening, RollbackRelease, RollbackStep
  <2>3. CASE CloseResources
    BY <1>1, <2>3 DEF LInv, Closing, Graceful, Quiet, CloseResources, CloseStep
  <2> QED BY <2>1, <2>2, <2>3
<1>2. LInv /\ [Next]_vars =>
        [handles' \subseteq handles /\ handles' # handles =>
           /\ state[epoch] \in {"prepared", "closing"}
           /\ \/ res = "OPENING"
              \/ ~close[epoch].drain
              \/ close[epoch].abort
              \/ close[epoch].timedOut
              \/ Admission!LiveOf(epoch) = {}]_vars
  BY <1>1
<1> QED BY <1>2, Invariance, PTL DEF Spec, ReleaseIsFenced

-----------------------------------------------------------------------------
(* The generations that the waves drive are the ones admission promises.   *)

(* Outside the steps that work, prepare, accept, stop, fence and retire,   *)
(* admission stands still.                                                 *)
LEMMA AdmissionStands ==
    ASSUME Next
    PROVE  \/ UNCHANGED admissionVars
           \/ PrepareGeneration \/ RollbackMark
           \/ StopAccepting \/ BeginClosing \/ MarkClosed
           \/ \E t \in Tasks : Work(t) \/ Commit(t) \/ DrainStop(t)
<1>1. CASE Waves \/ DrainTimeout
  BY <1>1 DEF Waves, DrainTimeout, OpenTransport, RollbackPrepare, RollbackRelease,
              GracefulHooks, WaitForIdle, AbortGraceful, PrepareClose, CancelHooks,
              CloseResources
<1>2. ASSUME NEW t \in Tasks, \E label \in {"open", "drain", "close"} : Call(t, label)
      PROVE  UNCHANGED admissionVars
  BY <1>2 DEF Call
<1>3. ASSUME NEW t \in Tasks, Proceed(t)
      PROVE  UNCHANGED admissionVars \/ Commit(t) \/ DrainStop(t)
  BY <1>3 DEF Proceed, OpenNow, FailOpen, Cleaned, Followed, CloseNow, AfterOpen, Closed,
              DrainNow, DrainIdle
<1>4. ASSUME NEW t \in Tasks, Cancel(t)
      PROVE  UNCHANGED admissionVars
  BY <1>4 DEF Cancel, Leave, CancelOwner, CancelCleanup, CancelClosing
<1> QED BY <1>1, <1>2, <1>3, <1>4 DEF Next

(* Work enters and leaves scopes as admission allows.                      *)
LEMMA WorkMaps ==
    ASSUME NEW t \in Tasks, Work(t)
    PROVE  Admission!Next
<1>1. CASE \E e \in Epochs, k \in Tokens : Admission!Admit(t, e, k)
  BY <1>1 DEF Admission!Next, Epochs, Admission!Epochs
<1>2. CASE \E k \in live : Admission!Settle(k)
  BY <1>2 DEF Admission!Next
<1> QED BY <1>1, <1>2 DEF Work

(* The waves and drain() take only the steps their generation allows.      *)
LEMMA GenerationMaps ==
    ASSUME LInv,
           \/ PrepareGeneration \/ RollbackMark
           \/ StopAccepting \/ BeginClosing \/ MarkClosed
    PROVE  Admission!Next
<1>1. epoch \in Admission!Epochs
  BY Generation DEF PrepareGeneration, RollbackMark, StopAccepting, BeginClosing, MarkClosed,
                    CloseStep, Epochs, Admission!Epochs
<1>2. \/ Admission!Prepare(epoch) \/ Admission!Retire(epoch)
      \/ Admission!StopAccepting(epoch) \/ Admission!BeginClosing(epoch)
  BY DEF PrepareGeneration, RollbackMark, StopAccepting, BeginClosing, MarkClosed
<1> QED BY <1>1, <1>2 DEF Admission!Next

LEMMA CallerMaps ==
    ASSUME LInv, NEW t \in Tasks, Commit(t) \/ DrainStop(t)
    PROVE  Admission!Next \/ UNCHANGED admissionVars
<1>1. at[t] \in Admission!Epochs
  BY DEF LInv, TypeOK, Awaiting, Commit, DrainStop, Admission!Epochs
<1>2. \/ Admission!StartAccepting(at[t]) \/ Admission!StopAccepting(at[t])
      \/ UNCHANGED admissionVars
  BY DEF Commit, DrainStop
<1> QED BY <1>1, <1>2 DEF Admission!Next

(* However open, drain and close waves, their rollbacks, cancellations and *)
(* work interleave, generations appear one at a time and in order, move    *)
(* only forwards, and admit only while they accept: what ClientLifecycle   *)
(* drives is the admission that CallSupervisor implements.                 *)
THEOREM DrivesAdmission == Spec => Admission!Spec
<1>1. Init => Admission!Init
  BY DEF Init
<1>2. LInv /\ [Next]_vars => [Admission!Next]_(Admission!vars)
  <2> SUFFICES ASSUME LInv, [Next]_vars
               PROVE  Admission!Next \/ UNCHANGED Admission!vars
    OBVIOUS
  <2>1. CASE UNCHANGED vars
    BY <2>1 DEF vars, admissionVars, Admission!vars
  <2>2. CASE UNCHANGED admissionVars
    BY <2>2 DEF admissionVars, Admission!vars
  <2>3. CASE \/ PrepareGeneration \/ RollbackMark
             \/ StopAccepting \/ BeginClosing \/ MarkClosed
    BY <2>3, GenerationMaps
  <2>4. CASE \E t \in Tasks : Work(t)
    BY <2>4, WorkMaps
  <2>5. CASE \E t \in Tasks : Commit(t) \/ DrainStop(t)
    BY <2>5, CallerMaps DEF admissionVars, Admission!vars
  <2> QED BY <2>1, <2>2, <2>3, <2>4, <2>5, AdmissionStands
<1> QED BY <1>1, <1>2, Invariance, PTL DEF Spec, Admission!Spec

=============================================================================
