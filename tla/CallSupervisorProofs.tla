------------------------- MODULE CallSupervisorProofs -------------------------
(***************************************************************************)
(* Proofs about CallSupervisor for every set of tasks and tokens, every    *)
(* number of generations, every nesting and every max_concurrent_rpcs.     *)
(***************************************************************************)
EXTENDS CallSupervisorRefinement, FiniteSetTheorems, TLAPS

USE SupervisorAssumption DEF Epochs, Tasks

(* Only the current generation is anything but closed, and no token is     *)
(* older or newer than the generations that have been prepared.            *)
PhaseInv == /\ current <= lastEpoch
            /\ \A e \in Epochs : e # current => adm[e] = "closed"
            /\ \A k \in tokens : k.epoch <= lastEpoch

(* The inductive invariant.  CountersExact is what makes a depth of zero   *)
(* mean "holds nothing"; RetiredExact is what makes the scan for other     *)
(* generations complete; the rest ties admission to the current epoch.     *)
IInv == /\ TypeOK
        /\ IsFiniteSet(tokens)
        /\ CountersExact
        /\ PhaseInv
        /\ RetiredExact
        /\ OneGenerationPerTask

-----------------------------------------------------------------------------
(* Sets of tokens.                                                         *)

LEMMA TokenSetsFinite ==
    ASSUME IsFiniteSet(tokens), NEW e, NEW t
    PROVE  IsFiniteSet(TokensOf(e)) /\ IsFiniteSet(TokensHeld(e, t))
<1>1. TokensOf(e) \subseteq tokens /\ TokensHeld(e, t) \subseteq tokens
  BY DEF TokensOf, TokensHeld
<1> QED BY <1>1, FS_Subset

(* A task with a depth holds a token, and a generation with a token is not *)
(* idle.                                                                   *)
LEMMA DepthMeansToken ==
    ASSUME IInv, NEW e \in Epochs, NEW t \in Tasks
    PROVE  /\ depths[e][t] > 0 <=> TokensHeld(e, t) # {}
           /\ inFlight[e] > 0 <=> TokensOf(e) # {}
           /\ depths[e][t] > 0 => inFlight[e] > 0
<1>1. /\ IsFiniteSet(TokensOf(e))
      /\ IsFiniteSet(TokensHeld(e, t))
  BY TokenSetsFinite DEF IInv
<1>2. /\ inFlight[e] = Cardinality(TokensOf(e))
      /\ depths[e][t] = Cardinality(TokensHeld(e, t))
  BY DEF IInv, CountersExact
<1>3. depths[e][t] > 0 <=> TokensHeld(e, t) # {}
  BY <1>1, <1>2, FS_EmptySet, FS_CardinalityType
<1>4. inFlight[e] > 0 <=> TokensOf(e) # {}
  BY <1>1, <1>2, FS_EmptySet, FS_CardinalityType
<1>5. TokensHeld(e, t) \subseteq TokensOf(e)
  BY DEF TokensHeld, TokensOf
<1> QED BY <1>3, <1>4, <1>5

(* The token that Charge makes is new.                                     *)
LEMMA FreeTokenIsFree ==
    ASSUME HasFreeToken
    PROVE  FreeToken \in Tokens /\ FreeToken \notin {k.id : k \in tokens}
<1>1. FreeToken \in Tokens /\ FreeToken \notin Used
  BY DEF HasFreeToken, FreeToken
<1> QED BY <1>1 DEF Used

(* Charge keeps the counters exact.                                        *)
LEMMA ChargeCounts ==
    ASSUME IInv, NEW t \in Tasks, NEW e \in Epochs, Charge(t, e)
    PROVE  /\ tokens' \subseteq Token
           /\ inFlight' \in [Epochs -> Nat]
           /\ depths' \in [Epochs -> [Tasks -> Nat]]
           /\ IsFiniteSet(tokens')
           /\ CountersExact'
<1> DEFINE k == [id |-> FreeToken, epoch |-> e, task |-> t]
<1>1. k \in Token /\ k \notin tokens
  BY FreeTokenIsFree DEF Charge, Token
<1>2. tokens' = tokens \cup {k}
  BY DEF Charge
<1>3. IsFiniteSet(tokens')
  BY <1>2, FS_AddElement DEF IInv
<1>4. ASSUME NEW f \in Epochs
      PROVE  inFlight'[f] = Cardinality(TokensOf(f)')
  <2>1. IsFiniteSet(TokensOf(f)) /\ inFlight[f] = Cardinality(TokensOf(f))
    BY TokenSetsFinite DEF IInv, CountersExact
  <2>2. CASE f = e
    <3>1. TokensOf(f)' = TokensOf(f) \cup {k} /\ k \notin TokensOf(f)
      BY <1>1, <1>2, <2>2 DEF TokensOf
    <3>2. inFlight'[f] = inFlight[f] + 1
      BY <2>2 DEF Charge, IInv, TypeOK
    <3> QED BY <2>1, <3>1, <3>2, FS_AddElement
  <2>3. CASE f # e
    <3>1. TokensOf(f)' = TokensOf(f)
      BY <1>2, <2>3 DEF TokensOf
    <3> QED BY <2>1, <2>3, <3>1 DEF Charge, IInv, TypeOK
  <2> QED BY <2>2, <2>3
<1>5. ASSUME NEW f \in Epochs, NEW u \in Tasks
      PROVE  depths'[f][u] = Cardinality(TokensHeld(f, u)')
  <2>1. IsFiniteSet(TokensHeld(f, u)) /\ depths[f][u] = Cardinality(TokensHeld(f, u))
    BY TokenSetsFinite DEF IInv, CountersExact
  <2>2. CASE f = e /\ u = t
    <3>1. TokensHeld(f, u)' = TokensHeld(f, u) \cup {k} /\ k \notin TokensHeld(f, u)
      BY <1>1, <1>2, <2>2 DEF TokensHeld
    <3>2. depths'[f][u] = depths[f][u] + 1
      BY <2>2 DEF Charge, IInv, TypeOK
    <3>3. Cardinality(TokensHeld(f, u)') = Cardinality(TokensHeld(f, u)) + 1
      BY <2>1, <3>1, FS_AddElement
    <3> QED BY <2>1, <3>2, <3>3
  <2>3. CASE ~(f = e /\ u = t)
    <3>1. TokensHeld(f, u)' = TokensHeld(f, u)
      BY <1>2, <2>3 DEF TokensHeld
    <3>2. depths'[f][u] = depths[f][u]
      BY <2>3 DEF Charge, IInv, TypeOK
    <3> QED BY <2>1, <3>1, <3>2
  <2> QED BY <2>2, <2>3
<1>6. inFlight' \in [Epochs -> Nat] /\ depths' \in [Epochs -> [Tasks -> Nat]]
  <2>1. inFlight' \in [Epochs -> Nat]
    BY DEF Charge, IInv, TypeOK
  <2>2. depths' = [depths EXCEPT ![e] = [depths[e] EXCEPT ![t] = depths[e][t] + 1]]
    BY DEF Charge, IInv, TypeOK
  <2>3. [depths[e] EXCEPT ![t] = depths[e][t] + 1] \in [Tasks -> Nat]
    BY DEF IInv, TypeOK
  <2> QED BY <2>1, <2>2, <2>3 DEF IInv, TypeOK
<1>7. tokens' \subseteq Token
  BY <1>1, <1>2 DEF IInv, TypeOK
<1> QED BY <1>3, <1>4, <1>5, <1>6, <1>7 DEF CountersExact

(* Landing a settlement keeps the counters exact.                          *)
LEMMA LandCounts ==
    ASSUME IInv, NEW k \in tokens, Land(k)
    PROVE  /\ tokens' \subseteq Token
           /\ inFlight' \in [Epochs -> Nat]
           /\ depths' \in [Epochs -> [Tasks -> Nat]]
           /\ IsFiniteSet(tokens')
           /\ CountersExact'
           /\ inFlight'[k.epoch] = inFlight[k.epoch] - 1
           /\ \A f \in Epochs : f # k.epoch => inFlight'[f] = inFlight[f]
<1>1. k.epoch \in Epochs /\ k.task \in Tasks /\ tokens' = tokens \ {k}
  BY DEF IInv, TypeOK, Token, Land
<1>2. IsFiniteSet(tokens')
  BY <1>1, FS_RemoveElement DEF IInv
<1>3. ASSUME NEW f \in Epochs
      PROVE  inFlight'[f] = Cardinality(TokensOf(f)') /\ inFlight'[f] \in Nat
  <2>1. IsFiniteSet(TokensOf(f)) /\ inFlight[f] = Cardinality(TokensOf(f))
    BY TokenSetsFinite DEF IInv, CountersExact
  <2>2. CASE f = k.epoch
    <3>1. TokensOf(f)' = TokensOf(f) \ {k} /\ k \in TokensOf(f)
      BY <1>1, <2>2 DEF TokensOf
    <3>2. inFlight'[f] = inFlight[f] - 1
      BY <1>1, <2>2 DEF Land, IInv, TypeOK
    <3>3. Cardinality(TokensOf(f)') = Cardinality(TokensOf(f)) - 1
          /\ IsFiniteSet(TokensOf(f)')
      BY <2>1, <3>1, FS_RemoveElement
    <3> QED BY <2>1, <3>2, <3>3, FS_CardinalityType
  <2>3. CASE f # k.epoch
    <3>1. TokensOf(f)' = TokensOf(f)
      BY <1>1, <2>3 DEF TokensOf
    <3> QED BY <1>1, <2>1, <2>3, <3>1 DEF Land, IInv, TypeOK
  <2> QED BY <2>2, <2>3
<1>4. ASSUME NEW f \in Epochs, NEW u \in Tasks
      PROVE  depths'[f][u] = Cardinality(TokensHeld(f, u)') /\ depths'[f][u] \in Nat
  <2>1. IsFiniteSet(TokensHeld(f, u)) /\ depths[f][u] = Cardinality(TokensHeld(f, u))
    BY TokenSetsFinite DEF IInv, CountersExact
  <2>2. CASE f = k.epoch /\ u = k.task
    <3>1. TokensHeld(f, u)' = TokensHeld(f, u) \ {k} /\ k \in TokensHeld(f, u)
      BY <1>1, <2>2 DEF TokensHeld
    <3>2. Cardinality(TokensHeld(f, u)') = Cardinality(TokensHeld(f, u)) - 1
          /\ IsFiniteSet(TokensHeld(f, u)')
      BY <2>1, <3>1, FS_RemoveElement
    <3>3. depths'[f][u] = DepthAfter(depths[f][u])
      BY <1>1, <2>2 DEF Land, IInv, TypeOK
    <3>4. Cardinality(TokensHeld(f, u)') \in Nat
      BY <3>2, FS_CardinalityType
    <3> QED BY <2>1, <3>2, <3>3, <3>4 DEF DepthAfter, IInv, TypeOK
  <2>3. CASE ~(f = k.epoch /\ u = k.task)
    <3>1. TokensHeld(f, u)' = TokensHeld(f, u)
      BY <1>1, <2>3 DEF TokensHeld
    <3>2. depths'[f][u] = depths[f][u]
      BY <1>1, <2>3 DEF Land, IInv, TypeOK
    <3> QED BY <2>1, <3>1, <3>2 DEF IInv, TypeOK
  <2> QED BY <2>2, <2>3
<1>5. inFlight' \in [Epochs -> Nat] /\ depths' \in [Epochs -> [Tasks -> Nat]]
  <2>1. inFlight' = [f \in Epochs |-> inFlight'[f]]
    BY <1>1 DEF Land, IInv, TypeOK
  <2>2. depths' = [f \in Epochs |-> [u \in Tasks |-> depths'[f][u]]]
    BY <1>1 DEF Land, IInv, TypeOK
  <2> QED BY <1>3, <1>4, <2>1, <2>2
<1>6. tokens' \subseteq Token
  BY <1>1 DEF IInv, TypeOK
<1>7. /\ inFlight'[k.epoch] = inFlight[k.epoch] - 1
      /\ \A f \in Epochs : f # k.epoch => inFlight'[f] = inFlight[f]
  BY <1>1 DEF Land, IInv, TypeOK
<1> QED BY <1>2, <1>3, <1>4, <1>5, <1>6, <1>7 DEF CountersExact

-----------------------------------------------------------------------------
(* Stacks of frames.                                                       *)

LEMMA TopType ==
    ASSUME TypeOK, NEW t \in Tasks, stack[t] # <<>>
    PROVE  Top(t) \in Frame /\ Tail(stack[t]) \in Seq(Frame)
BY DEF TypeOK, Top

LEMMA PushType ==
    ASSUME TypeOK, NEW t \in Tasks, NEW f \in Frame, Push(t, f)
    PROVE  stack' \in [Tasks -> Seq(Frame)]
<1>1. <<f>> \o stack[t] \in Seq(Frame)
  BY DEF TypeOK
<1> QED BY <1>1 DEF Push, TypeOK

LEMMA BecomeType ==
    ASSUME TypeOK, NEW t \in Tasks, stack[t] # <<>>, NEW f \in Frame, Become(t, f)
    PROVE  stack' \in [Tasks -> Seq(Frame)]
<1>1. <<f>> \o Tail(stack[t]) \in Seq(Frame)
  BY TopType
<1> QED BY <1>1 DEF Become, TypeOK

LEMMA PopType ==
    ASSUME TypeOK, NEW t \in Tasks, stack[t] # <<>>, Pop(t)
    PROVE  stack' \in [Tasks -> Seq(Frame)]
<1>1. Tail(stack[t]) \in Seq(Frame)
  BY TopType
<1> QED BY <1>1 DEF Pop, TypeOK

LEMMA ToType ==
    ASSUME TypeOK, NEW t \in Tasks, stack[t] # <<>>,
           NEW phase \in {"body", "emitting"}, Top(t).token \in Tokens, To(t, phase)
    PROVE  stack' \in [Tasks -> Seq(Frame)]
<1>1. [Top(t) EXCEPT !.phase = phase] \in Frame
  BY TopType DEF Frame, FrameRecord
<1> QED BY <1>1, BecomeType DEF To

LEMMA PublishType ==
    ASSUME TypeOK, NEW t \in Tasks, stack[t] # <<>>, Top(t).token \in Tokens,
           NEW cancelled \in BOOLEAN, Publish(t, cancelled)
    PROVE  stack' \in [Tasks -> Seq(Frame)] /\ published' \subseteq Tokens
<1>1. [Top(t) EXCEPT !.phase = "settling",
                     !.cancel = IF cancelled THEN "unwinding" ELSE "none"] \in Frame
  BY TopType DEF Frame, FrameRecord
<1>2. stack' \in [Tasks -> Seq(Frame)]
  BY <1>1, BecomeType DEF Publish
<1> QED BY <1>2 DEF Publish, TypeOK

(* What a frame's phase says of its token.                                 *)
LEMMA TopToken ==
    ASSUME TypeOK, NEW t \in Tasks, stack[t] # <<>>,
           Top(t).phase \notin {"admitting", "starting", "reaping"}
    PROVE  Top(t).token \in Tokens
BY TopType DEF Frame

-----------------------------------------------------------------------------
(* Steps that touch neither the generations nor the accounting: they keep  *)
(* every part of the invariant but the types of what they change.          *)

QuietTypes == /\ permits' \in [Epochs -> Nat]
              /\ published' \subseteq Tokens
              /\ stack' \in [Tasks -> Seq(Frame)]

LEMMA QuietKeepsIInv ==
    ASSUME IInv, UNCHANGED <<lifecycleVars, accountVars>>, QuietTypes
    PROVE  IInv'
<1>1. TypeOK'
  BY DEF IInv, TypeOK, QuietTypes, lifecycleVars, accountVars
<1>2. CountersExact' /\ IsFiniteSet(tokens)'
  BY DEF IInv, CountersExact, TokensOf, TokensHeld, accountVars
<1>3. PhaseInv' /\ RetiredExact' /\ OneGenerationPerTask'
  BY DEF IInv, PhaseInv, RetiredExact, OneGenerationPerTask, Idle, lifecycleVars, accountVars
<1> QED BY <1>1, <1>2, <1>3 DEF IInv

LEMMA QuietSteps ==
    ASSUME IInv, NEW t \in Tasks,
           \/ \E kind \in {"op", "call", "spawn"} : BeginScope(t, kind)
           \/ Refuse(t) \/ CancelAdmitting(t)
           \/ AcquireSlot(t)
           \/ \E cancelled \in BOOLEAN : \/ LeaveQueue(t, cancelled)
                                         \/ EndBody(t, cancelled)
                                         \/ EndCall(t, cancelled)
                                         \/ EndEmit(t, cancelled)
           \/ Return(t) \/ CancelSettling(t)
           \/ SpawnReturn(t) \/ CancelSpawn(t) \/ Reaped(t)
           \/ \E c \in Children : ShutdownSpawn(t, c)
           \/ t \in Children /\ StartChild(t)
    PROVE  IInv' /\ UNCHANGED <<lifecycleVars, accountVars>>
<1> USE DEF At
<1>0. TypeOK
  BY DEF IInv
<1>1. ASSUME NEW kind \in {"op", "call", "spawn"}, BeginScope(t, kind)
      PROVE  QuietTypes /\ UNCHANGED <<lifecycleVars, accountVars>>
  <2>1. current \in Epochs
    BY <1>0, <1>1 DEF BeginScope, TypeOK
  <2>2. NewFrame(kind, current) \in Frame
    BY <2>1 DEF NewFrame, Frame, FrameRecord
  <2>3. stack' \in [Tasks -> Seq(Frame)]
    BY <1>0, <1>1, <2>2, PushType DEF BeginScope
  <2> QED BY <1>0, <1>1, <2>3 DEF BeginScope, QuietTypes, TypeOK
<1>2. ASSUME Refuse(t) \/ CancelAdmitting(t) \/ Return(t) \/ SpawnReturn(t) \/ Reaped(t)
      PROVE  QuietTypes /\ UNCHANGED <<lifecycleVars, accountVars>>
  <2>1. stack[t] # <<>> /\ Pop(t)
    BY <1>2 DEF Refuse, CancelAdmitting, Return, SpawnReturn, Reaped
  <2>2. stack' \in [Tasks -> Seq(Frame)]
    BY <1>0, <2>1, PopType
  <2> QED BY <1>0, <1>2, <2>2
       DEF Refuse, CancelAdmitting, Return, SpawnReturn, Reaped, QuietTypes, TypeOK
<1>3. ASSUME AcquireSlot(t)
      PROVE  QuietTypes /\ UNCHANGED <<lifecycleVars, accountVars>>
  <2>1. stack[t] # <<>> /\ Top(t).phase = "queued" /\ permits[Top(t).epoch] > 0
    BY <1>3 DEF AcquireSlot
  <2>2. Top(t).epoch \in Epochs /\ Top(t).token \in Tokens
    BY <1>0, <2>1, TopType, TopToken DEF Frame, FrameRecord
  <2>3. stack' \in [Tasks -> Seq(Frame)]
    BY <1>0, <1>3, <2>1, <2>2, ToType DEF AcquireSlot
  <2>4. permits' \in [Epochs -> Nat]
    <3>1. permits' = permits \/ permits' = [permits EXCEPT ![Top(t).epoch] = @ - 1]
      BY <1>3 DEF AcquireSlot
    <3>2. permits \in [Epochs -> Nat] /\ permits[Top(t).epoch] - 1 \in Nat
      BY <1>0, <2>1, <2>2 DEF TypeOK
    <3> QED BY <3>1, <3>2
  <2> QED BY <1>0, <1>3, <2>3, <2>4 DEF AcquireSlot, QuietTypes, TypeOK
<1>4. ASSUME NEW cancelled \in BOOLEAN,
             LeaveQueue(t, cancelled) \/ EndBody(t, cancelled)
               \/ EndCall(t, cancelled) \/ EndEmit(t, cancelled)
      PROVE  QuietTypes /\ UNCHANGED <<lifecycleVars, accountVars>>
  <2>1. stack[t] # <<>> /\ Top(t).phase \in {"queued", "body", "emitting"}
    BY <1>4 DEF LeaveQueue, EndBody, EndCall, EndEmit
  <2>2. Top(t).epoch \in Epochs /\ Top(t).token \in Tokens
    BY <1>0, <2>1, TopType, TopToken DEF Frame, FrameRecord
  <2>3. \/ Publish(t, cancelled) \/ Publish(t, TRUE)
        \/ To(t, "emitting") /\ UNCHANGED published
    BY <1>4 DEF LeaveQueue, EndBody, EndCall, EndEmit
  <2>4. stack' \in [Tasks -> Seq(Frame)] /\ published' \subseteq Tokens
    <3>1. ASSUME NEW b \in BOOLEAN, Publish(t, b)
          PROVE  stack' \in [Tasks -> Seq(Frame)] /\ published' \subseteq Tokens
      BY <1>0, <2>1, <2>2, <3>1, PublishType
    <3>2. ASSUME To(t, "emitting"), UNCHANGED published
          PROVE  stack' \in [Tasks -> Seq(Frame)] /\ published' \subseteq Tokens
      BY <1>0, <2>1, <2>2, <3>2, ToType DEF TypeOK
    <3> QED BY <2>3, <3>1, <3>2
  <2>5. permits' \in [Epochs -> Nat]
    <3>1. permits' = permits \/ permits' = [permits EXCEPT ![Top(t).epoch] = @ + 1]
      BY <1>4 DEF LeaveQueue, EndBody, EndCall, EndEmit
    <3>2. permits \in [Epochs -> Nat] /\ permits[Top(t).epoch] + 1 \in Nat
      BY <1>0, <2>2 DEF TypeOK
    <3> QED BY <3>1, <3>2
  <2> QED BY <1>4, <2>4, <2>5 DEF LeaveQueue, EndBody, EndCall, EndEmit, QuietTypes
<1>5. ASSUME CancelSettling(t)
      PROVE  QuietTypes /\ UNCHANGED <<lifecycleVars, accountVars>>
  <2>1. stack[t] # <<>> /\ Top(t).phase = "settling"
    BY <1>5 DEF CancelSettling
  <2>2. [Top(t) EXCEPT !.cancel = "first"] \in Frame
    BY <1>0, <2>1, TopType DEF Frame, FrameRecord
  <2>3. stack' \in [Tasks -> Seq(Frame)]
    BY <1>0, <1>5, <2>1, <2>2, BecomeType, PopType DEF CancelSettling
  <2> QED BY <1>0, <1>5, <2>3 DEF CancelSettling, QuietTypes, TypeOK
<1>6. ASSUME CancelSpawn(t)
      PROVE  QuietTypes /\ UNCHANGED <<lifecycleVars, accountVars>>
  <2>1. stack[t] # <<>>
    BY <1>6 DEF CancelSpawn
  <2>2. [Top(t) EXCEPT !.phase = "reaping"] \in Frame
    BY <1>0, <2>1, TopType DEF Frame, FrameRecord
  <2>3. stack' \in [Tasks -> Seq(Frame)]
    BY <1>0, <1>6, <2>1, <2>2, BecomeType DEF CancelSpawn, To
  <2> QED BY <1>0, <1>6, <2>3 DEF CancelSpawn, QuietTypes, TypeOK
<1>7. ASSUME StartChild(t)
      PROVE  QuietTypes /\ UNCHANGED <<lifecycleVars, accountVars>>
  <2>1. stack[t] # <<>> /\ Top(t).phase = "gated"
    BY <1>7 DEF StartChild
  <2>2. Top(t).token \in Tokens
    BY <1>0, <2>1, TopToken
  <2>3. stack' \in [Tasks -> Seq(Frame)]
    BY <1>0, <1>7, <2>1, <2>2, ToType DEF StartChild
  <2> QED BY <1>0, <1>7, <2>3 DEF StartChild, QuietTypes, TypeOK
<1>8. ASSUME NEW c \in Children, ShutdownSpawn(t, c)
      PROVE  QuietTypes /\ UNCHANGED <<lifecycleVars, accountVars>>
  <2>1. /\ stack[t] # <<>>
        /\ stack[c] # <<>> /\ Top(c).phase = "gated"
    BY <1>8 DEF ShutdownSpawn
  <2>2. Top(c).token \in Tokens
    BY <1>0, <2>1, TopToken
  <2> DEFINE f == [Top(t) EXCEPT !.phase = "settling", !.token = Top(c).token,
                                 !.child = {}, !.cancel = "unwinding"]
  <2>3. f \in Frame
    BY <1>0, <2>1, <2>2, TopType DEF Frame, FrameRecord
  <2>4. <<f>> \o Tail(stack[t]) \in Seq(Frame) /\ <<>> \in Seq(Frame)
    <3> HIDE DEF f
    <3> QED BY <1>0, <2>1, <2>3, TopType
  <2>5. stack' = [stack EXCEPT ![t] = <<f>> \o Tail(stack[t]), ![c] = <<>>]
    BY <1>8 DEF ShutdownSpawn
  <2>6. stack' \in [Tasks -> Seq(Frame)]
    <3> HIDE DEF f
    <3> QED BY <1>0, <2>4, <2>5 DEF TypeOK
  <2> QED BY <1>0, <1>8, <2>2, <2>6 DEF ShutdownSpawn, QuietTypes, TypeOK
<1>9. QuietTypes /\ UNCHANGED <<lifecycleVars, accountVars>>
  BY <1>1, <1>2, <1>3, <1>4, <1>5, <1>6, <1>7, <1>8
<1> QED BY <1>9, QuietKeepsIInv

-----------------------------------------------------------------------------
(* Steps that create or return a token.                                    *)

(* What both ways of creating a token have in common.                      *)
LEMMA ChargeKeepsIInv ==
    ASSUME IInv, NEW u \in Tasks, NEW e \in Epochs, Charge(u, e),
           UNCHANGED lifecycleVars, QuietTypes,
           e = current,
           \A k \in tokens : k.task = u => k.epoch = e
    PROVE  IInv'
<1>1. TypeOK' /\ IsFiniteSet(tokens') /\ CountersExact'
  BY ChargeCounts DEF IInv, TypeOK, QuietTypes, Charge, lifecycleVars
<1>2. tokens' = tokens \cup {[id |-> FreeToken, epoch |-> e, task |-> u]}
  BY DEF Charge
<1>3. PhaseInv'
  BY <1>2 DEF IInv, PhaseInv, lifecycleVars
<1>4. RetiredExact'
  BY DEF IInv, TypeOK, RetiredExact, Idle, Charge, lifecycleVars
<1>5. OneGenerationPerTask'
  BY <1>2 DEF IInv, OneGenerationPerTask
<1> QED BY <1>1, <1>3, <1>4, <1>5 DEF IInv

(* A task whose depths are zero in every retired and in the current        *)
(* generation but e holds tokens of e only.                                *)
LEMMA ScanIsComplete ==
    ASSUME IInv, NEW t \in Tasks, NEW e \in Epochs, ~HasOtherGenerationDepth(t, e)
    PROVE  \A k \in tokens : k.task = t => k.epoch = e
<1> SUFFICES ASSUME NEW k \in tokens, k.task = t, k.epoch # e
             PROVE  FALSE
  OBVIOUS
<1>1. k.epoch \in Epochs /\ k.epoch <= lastEpoch /\ k \in TokensHeld(k.epoch, t)
  BY DEF IInv, TypeOK, Token, PhaseInv, TokensHeld
<1>2. depths[k.epoch][t] > 0 /\ inFlight[k.epoch] > 0
  BY <1>1, DepthMeansToken
<1>3. k.epoch \in retired \cup ({current} \cap Epochs)
  BY <1>1, <1>2 DEF IInv, RetiredExact, Idle
<1> QED BY <1>2, <1>3 DEF HasOtherGenerationDepth

(* A task with a depth in e holds tokens of e only.                        *)
LEMMA HolderStays ==
    ASSUME IInv, NEW t \in Tasks, NEW e \in Epochs, depths[e][t] > 0
    PROVE  \A k \in tokens : k.task = t => k.epoch = e
<1>1. PICK j \in TokensHeld(e, t) : TRUE
  BY DepthMeansToken
<1> QED BY <1>1 DEF TokensHeld, IInv, OneGenerationPerTask

LEMMA AdmitStep ==
    ASSUME IInv, NEW t \in Tasks, Admit(t)
    PROVE  /\ IInv'
           /\ UNCHANGED lifecycleVars
           /\ Top(t).epoch \in Epochs
           /\ Charge(t, Top(t).epoch)
           /\ CanAdmit(t, Top(t).epoch)
           /\ Top(t).epoch = current
<1> DEFINE e == Top(t).epoch
<1>1. /\ stack[t] # <<>> /\ Charge(t, e) /\ CanAdmit(t, e)
      /\ UNCHANGED <<lifecycleVars, permits, published>>
  BY DEF Admit, At
<1>2. e \in Epochs
  BY <1>1, TopType DEF IInv, Frame, FrameRecord
<1>3. e = current
  BY <1>1, <1>2 DEF CanAdmit, IInv, PhaseInv
<1>4. \A k \in tokens : k.task = t => k.epoch = e
  BY <1>1, <1>2, ScanIsComplete DEF CanAdmit
<1>5. QuietTypes
  <2>1. FreeToken \in Tokens
    BY <1>1, FreeTokenIsFree DEF Charge
  <2>2. [Top(t) EXCEPT !.phase = IF Top(t).kind = "call" THEN "queued" ELSE "body",
                       !.token = FreeToken] \in Frame
    BY <1>1, <2>1, TopType DEF IInv, Frame, FrameRecord
  <2>3. stack' \in [Tasks -> Seq(Frame)]
    BY <1>1, <2>2, BecomeType DEF Admit, IInv
  <2> QED BY <1>1, <2>3 DEF QuietTypes, IInv, TypeOK
<1>6. IInv'
  <2> HIDE DEF e
  <2> QED BY <1>1, <1>2, <1>3, <1>4, <1>5, ChargeKeepsIInv
<1> QED BY <1>1, <1>2, <1>3, <1>6

LEMMA SpawnChildStep ==
    ASSUME IInv, NEW t \in Tasks, NEW c \in Children, SpawnChild(t, c)
    PROVE  /\ IInv'
           /\ UNCHANGED lifecycleVars
           /\ Top(t).epoch \in Epochs
           /\ Charge(c, Top(t).epoch)
           /\ CanSpawn(t, Top(t).epoch)
           /\ Top(t).epoch = current
<1> DEFINE e == Top(t).epoch
<1>1. /\ stack[t] # <<>> /\ Charge(c, e) /\ CanSpawn(t, e) /\ Fresh(c)
      /\ UNCHANGED <<lifecycleVars, permits, published>>
  BY DEF SpawnChild, At
<1>2. e \in Epochs /\ c \in Tasks
  BY <1>1, TopType DEF IInv, Frame, FrameRecord
<1>3. e = current
  BY <1>1, <1>2 DEF CanSpawn, IInv, PhaseInv
<1>4. \A k \in tokens : k.task = c => k.epoch = e
  BY <1>1 DEF Fresh
<1>5. QuietTypes
  <2> DEFINE p == [Top(t) EXCEPT !.phase = "starting", !.child = {c}]
             f == [NewFrame("child", e) EXCEPT !.phase = "gated", !.token = FreeToken]
  <2>1. FreeToken \in Tokens
    BY <1>1, FreeTokenIsFree DEF Charge
  <2>2. p \in Frame
    BY <1>1, TopType DEF IInv, Frame, FrameRecord
  <2>3. f \in Frame
    BY <1>2, <2>1 DEF Frame, FrameRecord, NewFrame
  <2>4. stack' = [stack EXCEPT ![t] = <<p>> \o Tail(stack[t]), ![c] = <<f>>]
    BY DEF SpawnChild
  <2>5. <<p>> \o Tail(stack[t]) \in Seq(Frame) /\ <<f>> \in Seq(Frame)
    <3> HIDE DEF p, f
    <3> QED BY <1>1, <2>2, <2>3, TopType DEF IInv
  <2>6. stack' \in [Tasks -> Seq(Frame)]
    <3> HIDE DEF p, f
    <3> QED BY <2>4, <2>5 DEF IInv, TypeOK
  <2> QED BY <1>1, <2>6 DEF QuietTypes, IInv, TypeOK
<1>6. IInv'
  <2> HIDE DEF e
  <2> QED BY <1>1, <1>2, <1>3, <1>4, <1>5, ChargeKeepsIInv
<1> QED BY <1>1, <1>2, <1>3, <1>6

LEMMA LandStep ==
    ASSUME IInv, NEW k \in tokens, Land(k)
    PROVE  IInv' /\ UNCHANGED lifecycleVars /\ tokens' = tokens \ {k}
<1>1. k.epoch \in Epochs /\ k.epoch <= lastEpoch
  BY DEF IInv, TypeOK, Token, PhaseInv
<1>2. tokens' = tokens \ {k} /\ UNCHANGED lifecycleVars
  BY DEF Land
<1>3. TypeOK'
  BY <1>2, LandCounts DEF Land, IInv, TypeOK, StillRetired, lifecycleVars
<1>4. PhaseInv' /\ OneGenerationPerTask'
  BY <1>2 DEF IInv, PhaseInv, OneGenerationPerTask, lifecycleVars
<1>5. RetiredExact'
  <2>1. retired' = StillRetired(k.epoch, inFlight[k.epoch] - 1)
    BY DEF Land
  <2>2. /\ inFlight'[k.epoch] = inFlight[k.epoch] - 1
        /\ \A f \in Epochs : f # k.epoch => inFlight'[f] = inFlight[f]
        /\ inFlight' \in [Epochs -> Nat] /\ inFlight \in [Epochs -> Nat]
    BY LandCounts DEF IInv, TypeOK
  <2>3. k.epoch \in retired <=> k.epoch # current
    BY <1>1, <2>2 DEF IInv, RetiredExact, Idle
  <2>4. adm[k.epoch] = "closed" \/ k.epoch = current
    BY <1>1 DEF IInv, PhaseInv
  <2> QED BY <1>1, <1>2, <2>1, <2>2, <2>3, <2>4
       DEF IInv, RetiredExact, Idle, StillRetired, lifecycleVars
<1> QED BY <1>2, <1>3, <1>4, <1>5, LandCounts DEF IInv

-----------------------------------------------------------------------------
(* Generation transitions.                                                 *)

LEMMA TransitionKeepsIInv ==
    ASSUME IInv, NEW from \in SUBSET AdmissionState, NEW to \in AdmissionState,
           Transition(from, to)
    PROVE  IInv'
<1>1. current \in Epochs
  BY DEF Transition, IInv, TypeOK
<1>2. TypeOK'
  BY DEF Transition, IInv, TypeOK, accountVars
<1>3. CountersExact' /\ IsFiniteSet(tokens)'
  BY DEF Transition, IInv, CountersExact, TokensOf, TokensHeld, accountVars
<1>4. PhaseInv'
  BY <1>1 DEF Transition, IInv, TypeOK, PhaseInv, accountVars
<1>5. RetiredExact' /\ OneGenerationPerTask'
  BY DEF Transition, IInv, RetiredExact, OneGenerationPerTask, Idle, accountVars
<1> QED BY <1>2, <1>3, <1>4, <1>5 DEF IInv

LEMMA PrepareStep ==
    ASSUME IInv, NEW e \in Epochs, PrepareGeneration(e)
    PROVE  IInv' /\ inFlight[e] = 0
<1>1. inFlight[e] = 0
  <2>1. ~(inFlight[e] > 0)
    <3> SUFFICES ASSUME inFlight[e] > 0
                 PROVE  FALSE
      OBVIOUS
    <3>1. TokensOf(e) # {}
      <4>1. IsFiniteSet(TokensOf(e)) /\ inFlight[e] = Cardinality(TokensOf(e))
        BY TokenSetsFinite DEF IInv, CountersExact
      <4> QED BY <4>1, FS_EmptySet
    <3> QED BY <3>1 DEF TokensOf, PrepareGeneration, IInv, PhaseInv, TypeOK, Token
  <2> QED BY <2>1 DEF IInv, TypeOK
<1>2. TypeOK'
  BY DEF PrepareGeneration, IInv, TypeOK, accountVars
<1>3. CountersExact' /\ IsFiniteSet(tokens)' /\ OneGenerationPerTask'
  BY DEF PrepareGeneration, IInv, CountersExact, OneGenerationPerTask, TokensOf,
         TokensHeld, accountVars
<1>4. PhaseInv'
  BY DEF PrepareGeneration, IInv, TypeOK, PhaseInv, Token, accountVars
<1>5. RetiredExact'
  BY <1>1 DEF PrepareGeneration, IInv, TypeOK, RetiredExact, Idle, accountVars
<1> QED BY <1>1, <1>2, <1>3, <1>4, <1>5 DEF IInv

LEMMA MarkClosedStep ==
    ASSUME IInv, MarkClosed
    PROVE  IInv'
<1>1. current \in Epochs
  BY DEF MarkClosed, IInv, TypeOK
<1>2. TypeOK'
  BY <1>1 DEF MarkClosed, IInv, TypeOK, AdmissionState
<1>3. CountersExact' /\ IsFiniteSet(tokens)' /\ OneGenerationPerTask'
  BY DEF MarkClosed, IInv, CountersExact, OneGenerationPerTask, TokensOf, TokensHeld
<1>4. PhaseInv'
  BY <1>1 DEF MarkClosed, IInv, TypeOK, PhaseInv
<1>5. RetiredExact'
  BY <1>1 DEF MarkClosed, IInv, TypeOK, PhaseInv, RetiredExact, Idle
<1> QED BY <1>2, <1>3, <1>4, <1>5 DEF IInv

LEMMA LifecycleSteps ==
    ASSUME IInv, Lifecycle
    PROVE  IInv'
<1>1. ASSUME StartAccepting \/ StopAccepting \/ BeginClosing
      PROVE  IInv'
  BY <1>1, TransitionKeepsIInv DEF StartAccepting, StopAccepting, BeginClosing, AdmissionState
<1> QED BY <1>1, PrepareStep, MarkClosedStep DEF Lifecycle

-----------------------------------------------------------------------------
(* The invariant.                                                          *)

LEMMA InitIInv ==
    ASSUME Init
    PROVE  IInv
<1>1. TypeOK
  BY DEF Init, TypeOK, AdmissionState
<1>2. IsFiniteSet(tokens)
  BY FS_EmptySet DEF Init
<1>3. CountersExact
  <2>1. \A e, t : TokensOf(e) = {} /\ TokensHeld(e, t) = {}
    BY DEF Init, TokensOf, TokensHeld
  <2> QED BY <2>1, FS_EmptySet DEF Init, CountersExact
<1>4. PhaseInv /\ RetiredExact /\ OneGenerationPerTask
  BY DEF Init, PhaseInv, RetiredExact, OneGenerationPerTask, Idle
<1> QED BY <1>1, <1>2, <1>3, <1>4 DEF IInv

(* The steps of Next, sorted by what they do to the accounting.            *)
LEMMA StepKinds ==
    ASSUME IInv, [Next]_vars
    PROVE  \/ IInv' /\ UNCHANGED <<lifecycleVars, accountVars>>
           \/ \E t \in Tasks : Admit(t)
           \/ \E t \in Tasks, c \in Children : SpawnChild(t, c)
           \/ \E k \in tokens : Land(k)
           \/ Lifecycle
<1>1. ASSUME UNCHANGED vars
      PROVE  IInv' /\ UNCHANGED <<lifecycleVars, accountVars>>
  <2>1. QuietTypes /\ UNCHANGED <<lifecycleVars, accountVars>>
    BY <1>1 DEF vars, QuietTypes, IInv, TypeOK
  <2> QED BY <2>1, QuietKeepsIInv
<1>2. ASSUME NEW t \in Tasks, Scope(t)
      PROVE  Admit(t) \/ (IInv' /\ UNCHANGED <<lifecycleVars, accountVars>>)
  BY <1>2, QuietSteps DEF Scope
<1>3. ASSUME NEW t \in Tasks, Spawning(t)
      PROVE  \/ \E c \in Children : SpawnChild(t, c)
             \/ IInv' /\ UNCHANGED <<lifecycleVars, accountVars>>
  BY <1>3, QuietSteps DEF Spawning
<1>4. ASSUME NEW c \in Children, StartChild(c)
      PROVE  IInv' /\ UNCHANGED <<lifecycleVars, accountVars>>
  BY <1>4, QuietSteps
<1> QED BY <1>1, <1>2, <1>3, <1>4 DEF Next, Rest

LEMMA StepIInv ==
    ASSUME IInv, [Next]_vars
    PROVE  IInv'
BY StepKinds, AdmitStep, SpawnChildStep, LandStep, LifecycleSteps

(* IInv holds throughout every behaviour.                                  *)
THEOREM Invariance == Spec => []IInv
<1>1. Init => IInv
  BY InitIInv
<1>2. IInv /\ [Next]_vars => IInv'
  BY StepIInv
<1> QED BY <1>1, <1>2, PTL DEF Spec

(* Every variable keeps its range; no counter goes below zero, so the      *)
(* "settled below zero" error of _finish_generation_token never occurs.    *)
THEOREM TypeCorrect == Spec => []TypeOK
<1>1. IInv => TypeOK
  BY DEF IInv
<1> QED BY <1>1, Invariance, PTL

(* in_flight and depths count the unsettled tokens exactly, and _retired   *)
(* holds exactly the past generations that still have some.                *)
THEOREM AccountsCorrect == Spec => []AccountsExact
<1>1. IInv => AccountsExact
  BY DEF IInv, AccountsExact
<1> QED BY <1>1, Invariance, PTL

(* No task holds admission to two generations at a time.                   *)
THEOREM GenerationsDoNotMix == Spec => []OneGenerationPerTask
<1>1. IInv => OneGenerationPerTask
  BY DEF IInv
<1> QED BY <1>1, Invariance, PTL

-----------------------------------------------------------------------------
(* Draining.                                                               *)

LEMMA FencedStaysIdle ==
    ASSUME IInv, [Next]_vars, NEW e \in Epochs, Fenced(e), Idle(e)
    PROVE  Idle(e)'
<1>1. \A t \in Tasks : ~(depths[e][t] > 0)
  BY DepthMeansToken DEF Idle
<1>2. ASSUME NEW u \in Tasks, NEW f \in Epochs, Charge(u, f), f # e
      PROVE  Idle(e)'
  BY <1>2 DEF Charge, Idle, IInv, TypeOK
<1>3. ASSUME NEW t \in Tasks, Admit(t)
      PROVE  Idle(e)'
  <2>1. Top(t).epoch # e
    BY <1>1, <1>3, AdmitStep DEF CanAdmit, Fenced
  <2> QED BY <1>2, <1>3, <2>1, AdmitStep
<1>4. ASSUME NEW t \in Tasks, NEW c \in Children, SpawnChild(t, c)
      PROVE  Idle(e)'
  <2>1. Top(t).epoch # e
    BY <1>1, <1>4, SpawnChildStep DEF CanSpawn
  <2> QED BY <1>2, <1>4, <2>1, SpawnChildStep
<1>5. ASSUME NEW k \in tokens, Land(k)
      PROVE  Idle(e)'
  <2>1. k \in TokensOf(k.epoch) /\ k.epoch \in Epochs /\ k.task \in Tasks
    BY DEF TokensOf, IInv, TypeOK, Token
  <2>2. inFlight[k.epoch] > 0
    BY <2>1, DepthMeansToken
  <2> QED BY <1>5, <2>1, <2>2, LandCounts DEF Idle
<1>6. ASSUME Lifecycle
      PROVE  Idle(e)'
  BY <1>6 DEF Lifecycle, PrepareGeneration, StartAccepting, StopAccepting, BeginClosing,
              MarkClosed, Transition, Idle, accountVars
<1>7. ASSUME UNCHANGED accountVars
      PROVE  Idle(e)'
  BY <1>7 DEF accountVars, Idle
<1> QED BY <1>3, <1>4, <1>5, <1>6, <1>7, StepKinds

(* Once a fenced generation is idle it stays idle, so that what            *)
(* wait_for_idle observed is still true when teardown acts on it.          *)
THEOREM IdleIsStable == Spec => IdleStays
<1>1. IInv /\ [Next]_vars => [\A e \in Epochs : Fenced(e) /\ Idle(e) => Idle(e)']_vars
  BY FencedStaysIdle
<1> QED BY <1>1, Invariance, PTL DEF Spec, IdleStays

-----------------------------------------------------------------------------
(* The supervisor implements Admission.                                    *)

(* One generation moves: the abstract state changes there and only there.  *)
LEMMA AbstractMove ==
    ASSUME NEW e \in Epochs, NEW to,
           AbstractState'[e] = to,
           \A f \in Epochs \ {e} : AbstractState'[f] = AbstractState[f]
    PROVE  AbstractState' = [AbstractState EXCEPT ![e] = to]
<1>1. DOMAIN AbstractState = Epochs /\ DOMAIN AbstractState' = Epochs
  BY DEF AbstractState
<1>2. /\ AbstractState' = [f \in Epochs |-> AbstractState'[f]]
      /\ AbstractState = [f \in Epochs |-> AbstractState[f]]
  BY DEF AbstractState
<1> HIDE DEF AbstractState
<1> QED BY <1>1, <1>2

LEMMA InitMaps ==
    ASSUME Init
    PROVE  Abstract!Init
BY DEF Init, Abstract!Init, AbstractState, Abstract!Epochs

LEMMA AdmitMaps ==
    ASSUME IInv, NEW t \in Tasks, Admit(t)
    PROVE  Abstract!Admit(t, Top(t).epoch, FreeToken)
<1> DEFINE e == Top(t).epoch
<1>1. /\ UNCHANGED lifecycleVars /\ e \in Epochs /\ Charge(t, e)
      /\ CanAdmit(t, e) /\ e = current
  BY AdmitStep
<1>2. AbstractState' = AbstractState
  BY <1>1 DEF AbstractState, lifecycleVars
<1>3. AbstractState[e] = "accepting" \/ (AbstractState[e] = "draining" /\ Abstract!Holds(t, e))
  <2>1. AbstractState[e] = adm[e]
    BY <1>1 DEF AbstractState, CanAdmit, IInv, PhaseInv, TypeOK
  <2>2. depths[e][t] > 0 => Abstract!Holds(t, e)
    BY <1>1, DepthMeansToken DEF TokensHeld, Abstract!Holds, Abstract!LiveOf
  <2> QED BY <1>1, <2>1, <2>2 DEF CanAdmit
<1>4. \A f \in Epochs \ {e} : ~Abstract!Holds(t, f)
  BY <1>1, ScanIsComplete DEF CanAdmit, Abstract!Holds, Abstract!LiveOf
<1>5. /\ FreeToken \notin {j.id : j \in tokens}
      /\ tokens' = tokens \cup {[id |-> FreeToken, epoch |-> e, task |-> t]}
  BY <1>1, FreeTokenIsFree DEF Charge
<1> QED BY <1>2, <1>3, <1>4, <1>5 DEF Abstract!Admit, Abstract!Epochs

LEMMA SpawnMaps ==
    ASSUME IInv, NEW t \in Tasks, NEW c \in Children, SpawnChild(t, c)
    PROVE  Abstract!Spawn(t, c, Top(t).epoch, FreeToken)
<1> DEFINE e == Top(t).epoch
<1>1. /\ UNCHANGED lifecycleVars /\ e \in Epochs /\ Charge(c, e)
      /\ CanSpawn(t, e) /\ e = current /\ Fresh(c)
  BY SpawnChildStep DEF SpawnChild
<1>2. AbstractState' = AbstractState
  BY <1>1 DEF AbstractState, lifecycleVars
<1>3. AbstractState[e] \in {"accepting", "draining"}
  BY <1>1 DEF AbstractState, CanSpawn, IInv, PhaseInv, TypeOK
<1>4. Abstract!Holds(t, e)
  BY <1>1, DepthMeansToken DEF CanSpawn, TokensHeld, Abstract!Holds, Abstract!LiveOf
<1>5. \A f \in Epochs : ~Abstract!Holds(c, f)
  BY <1>1 DEF Fresh, Abstract!Holds, Abstract!LiveOf
<1>6. /\ FreeToken \notin {j.id : j \in tokens}
      /\ tokens' = tokens \cup {[id |-> FreeToken, epoch |-> e, task |-> c]}
  BY <1>1, FreeTokenIsFree DEF Charge
<1> QED BY <1>2, <1>3, <1>4, <1>5, <1>6 DEF Abstract!Spawn, Abstract!Epochs

LEMMA LifecycleMaps ==
    ASSUME IInv, Lifecycle
    PROVE  Abstract!Next
<1> USE DEF Abstract!Epochs
<1>1. ASSUME NEW e \in Epochs, PrepareGeneration(e)
      PROVE  Abstract!Prepare(e)
  <2>1. AbstractState[e] = "unborn"
    BY <1>1 DEF PrepareGeneration, AbstractState, IInv, TypeOK
  <2>2. \A f \in Epochs : ~Abstract!Current(f) /\ (f > e => AbstractState[f] = "unborn")
    BY <1>1 DEF PrepareGeneration, AbstractState, Abstract!Current, IInv, TypeOK
  <2>3. AbstractState' = [AbstractState EXCEPT ![e] = "prepared"]
    <3>1. AbstractState'[e] = "prepared"
      BY <1>1 DEF PrepareGeneration, AbstractState, IInv, TypeOK, PhaseInv
    <3>2. \A f \in Epochs \ {e} : AbstractState'[f] = AbstractState[f]
      BY <1>1 DEF PrepareGeneration, AbstractState, IInv, TypeOK
    <3> QED BY <3>1, <3>2, AbstractMove
  <2> QED BY <1>1, <2>1, <2>2, <2>3 DEF Abstract!Prepare, PrepareGeneration, accountVars
<1>2. ASSUME NEW from \in SUBSET AdmissionState,
             NEW to \in {"accepting", "draining", "closing"}, Transition(from, to)
      PROVE  /\ current \in Epochs
             /\ AbstractState[current] = IF adm[current] = "closed" THEN "prepared"
                                         ELSE adm[current]
             /\ AbstractState' = [AbstractState EXCEPT ![current] = to]
             /\ UNCHANGED tokens
  <2>1. current \in Epochs /\ current <= lastEpoch
    BY <1>2 DEF Transition, IInv, TypeOK, PhaseInv
  <2>2. AbstractState'[current] = to
    BY <1>2, <2>1 DEF Transition, AbstractState, IInv, TypeOK
  <2>3. \A f \in Epochs \ {current} : AbstractState'[f] = AbstractState[f]
    BY <1>2, <2>1 DEF Transition, AbstractState, IInv, TypeOK
  <2>4. AbstractState' = [AbstractState EXCEPT ![current] = to]
    BY <2>1, <2>2, <2>3, AbstractMove
  <2> QED BY <1>2, <2>1, <2>4 DEF Transition, AbstractState, IInv, TypeOK, accountVars
<1>3. ASSUME StartAccepting
      PROVE  Abstract!StartAccepting(current) /\ current \in Epochs
  BY <1>2, <1>3 DEF StartAccepting, Transition, AdmissionState, Abstract!StartAccepting,
                    Abstract!Move
<1>4. ASSUME StopAccepting
      PROVE  Abstract!StopAccepting(current) /\ current \in Epochs
  BY <1>2, <1>4 DEF StopAccepting, Transition, AdmissionState, Abstract!StopAccepting,
                    Abstract!Move
<1>5. ASSUME BeginClosing
      PROVE  Abstract!BeginClosing(current) /\ current \in Epochs
  BY <1>2, <1>5 DEF BeginClosing, Transition, AdmissionState, Abstract!BeginClosing,
                    Abstract!Move
<1>6. ASSUME MarkClosed
      PROVE  Abstract!Retire(current) /\ current \in Epochs
  <2>1. current \in Epochs /\ current <= lastEpoch
    BY <1>6 DEF MarkClosed, IInv, TypeOK, PhaseInv
  <2>2. AbstractState' = [AbstractState EXCEPT ![current] = "closed"]
    <3>1. AbstractState'[current] = "closed"
      BY <1>6, <2>1 DEF MarkClosed, AbstractState, IInv, TypeOK
    <3>2. \A f \in Epochs \ {current} : AbstractState'[f] = AbstractState[f]
      BY <1>6, <2>1 DEF MarkClosed, AbstractState, IInv, TypeOK
    <3> QED BY <2>1, <3>1, <3>2, AbstractMove
  <2> QED BY <1>6, <2>1, <2>2 DEF MarkClosed, AbstractState, Abstract!Retire, Abstract!Move
<1> QED BY <1>1, <1>3, <1>4, <1>5, <1>6 DEF Lifecycle, Abstract!Next

LEMMA StepMaps ==
    ASSUME IInv, [Next]_vars
    PROVE  [Abstract!Next]_(Abstract!vars)
<1> USE DEF Abstract!Epochs
<1>1. ASSUME UNCHANGED <<lifecycleVars, accountVars>>
      PROVE  UNCHANGED Abstract!vars
  BY <1>1 DEF Abstract!vars, AbstractState, lifecycleVars, accountVars
<1>2. ASSUME NEW t \in Tasks, Admit(t)
      PROVE  Abstract!Next
  <2>1. FreeToken \in Tokens /\ Top(t).epoch \in Epochs
    BY <1>2, AdmitStep, FreeTokenIsFree DEF Charge
  <2> QED BY <1>2, <2>1, AdmitMaps DEF Abstract!Next
<1>3. ASSUME NEW t \in Tasks, NEW c \in Children, SpawnChild(t, c)
      PROVE  Abstract!Next
  <2>1. FreeToken \in Tokens /\ Top(t).epoch \in Epochs
    BY <1>3, SpawnChildStep, FreeTokenIsFree DEF Charge
  <2> QED BY <1>3, <2>1, SpawnMaps DEF Abstract!Next
<1>4. ASSUME NEW k \in tokens, Land(k)
      PROVE  Abstract!Settle(k)
  <2>1. tokens' = tokens \ {k} /\ UNCHANGED lifecycleVars
    BY <1>4, LandStep
  <2> QED BY <2>1 DEF Abstract!Settle, AbstractState, lifecycleVars
<1> QED BY <1>1, <1>2, <1>3, <1>4, LifecycleMaps, StepKinds DEF Abstract!Next

(* Scopes, children and settlement tasks together do what Admission says.  *)
THEOREM Implementation == Spec => ImplementsAdmission
<1>1. Init => Abstract!Init
  BY InitMaps
<1>2. IInv /\ [Next]_vars => [Abstract!Next]_(Abstract!vars)
  BY StepMaps
<1> QED BY <1>1, <1>2, Invariance, PTL DEF Spec, ImplementsAdmission, Abstract!Spec

=============================================================================
