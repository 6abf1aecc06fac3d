----------------------- MODULE CallSupervisorLeakProofs -----------------------
(***************************************************************************)
(* Who holds what in CallSupervisor, for every set of tasks and tokens,    *)
(* every number of generations, every nesting and every                    *)
(* max_concurrent_rpcs: no token and no permit is lost, transport I/O      *)
(* starts in the current generation only, and a draining generation lets   *)
(* in nothing but nested work.                                             *)
(***************************************************************************)
EXTENDS CallSupervisorProofs

USE SupervisorAssumption DEF Epochs, Tasks

(* A frame waits for a permit, or has passed it, in a call only; it names  *)
(* a token from its admission on; the token is of its generation while it  *)
(* works, and on its way back once it settles.                             *)
GoodFrame(f, toks, pub) ==
    /\ f.phase \in {"queued", "emitting"} => f.kind = "call"
    /\ f.phase = "gated" => f.kind = "child"
    /\ f.phase \in {"admitting", "starting", "reaping"} => f.token = NoToken
    /\ \A k \in toks : k.id = f.token =>
          IF f.phase = "settling" THEN k.id \in pub ELSE k.epoch = f.epoch

(* Only the body of a workflow or child has scopes inside it.              *)
Suspended(f) == f.phase = "body" /\ f.kind # "call"

GoodStack(s, toks, pub) ==
    \A i \in 1 .. Len(s) : /\ GoodFrame(s[i], toks, pub)
                           /\ i # 1 => Suspended(s[i])
                           /\ s[i].phase = "gated" => Len(s) = 1

Holds(s, id) == \E i \in 1 .. Len(s) : s[i].token = id

InCall(s, e) == /\ s # <<>>
                /\ Head(s).phase = "body" /\ Head(s).kind = "call" /\ Head(s).epoch = e

Callers(e) == {t \in Tasks : InCall(stack[t], e)}

UniqueIds == \A j, k \in tokens : j.id = k.id => j = k

Held == \A k \in tokens : k.id \in published \/ Holds(stack[k.task], k.id)

Permits == \A e \in Epochs : /\ IsFiniteSet(Callers(e))
                             /\ permits[e] + Cardinality(Callers(e)) = Limit

(* The inductive invariant: the accounting, and what every frame of every  *)
(* task may be.                                                            *)
HInv == /\ IInv
        /\ UniqueIds
        /\ \A t \in Tasks : GoodStack(stack[t], tokens, published)
        /\ Held
        /\ Permits

-----------------------------------------------------------------------------
(* One stack.                                                              *)

LEMMA AddTop ==
    ASSUME NEW s \in Seq(Frame), NEW f \in Frame, NEW toks, NEW pub,
           GoodStack(s, toks, pub), GoodFrame(f, toks, pub), f.phase # "gated",
           s = <<>> \/ Suspended(Head(s))
    PROVE  /\ GoodStack(<<f>> \o s, toks, pub)
           /\ \A id : Holds(s, id) => Holds(<<f>> \o s, id)
<1> DEFINE r == <<f>> \o s
<1>1. /\ Len(r) = Len(s) + 1 /\ Len(s) \in Nat /\ r[1] = f
      /\ \A i \in 1 .. Len(s) : r[i + 1] = s[i]
      /\ \A i \in 1 .. Len(r) : i # 1 => i - 1 \in 1 .. Len(s) /\ r[i] = s[i - 1]
  OBVIOUS
<1>2. \A i \in 1 .. Len(s) : Suspended(s[i])
  BY DEF GoodStack
<1>3. \A i \in 1 .. Len(s) : s[i].phase # "gated"
  BY <1>2 DEF Suspended
<1>4. GoodStack(r, toks, pub)
  <2> HIDE DEF r
  <2> QED BY <1>1, <1>2, <1>3 DEF GoodStack
<1>5. \A id : Holds(s, id) => Holds(r, id)
  <2> HIDE DEF r
  <2> SUFFICES ASSUME NEW id, NEW i \in 1 .. Len(s), s[i].token = id
               PROVE  Holds(r, id)
    BY DEF Holds
  <2>1. i + 1 \in 1 .. Len(r) /\ r[i + 1] = s[i]
    BY <1>1
  <2> QED BY <2>1 DEF Holds
<1> QED BY <1>4, <1>5

LEMMA DropTop ==
    ASSUME NEW s \in Seq(Frame), s # <<>>, NEW toks, NEW pub, GoodStack(s, toks, pub)
    PROVE  /\ GoodStack(Tail(s), toks, pub)
           /\ Tail(s) = <<>> \/ Suspended(Head(Tail(s)))
           /\ \A e : ~InCall(Tail(s), e)
           /\ \A id : Holds(s, id) => Head(s).token = id \/ Holds(Tail(s), id)
<1> DEFINE r == Tail(s)
<1>1. /\ Len(s) = Len(r) + 1 /\ Len(r) \in Nat /\ s[1] = Head(s)
      /\ \A i \in 1 .. Len(r) : i + 1 \in 1 .. Len(s) /\ r[i] = s[i + 1]
      /\ r # <<>> => Head(r) = r[1] /\ 1 \in 1 .. Len(r)
  OBVIOUS
<1>2. \A i \in 1 .. Len(r) : Suspended(r[i])
  <2> HIDE DEF r
  <2> QED BY <1>1 DEF GoodStack
<1>3. \A i \in 1 .. Len(r) : r[i].phase # "gated"
  BY <1>2 DEF Suspended
<1>4. GoodStack(r, toks, pub)
  <2> HIDE DEF r
  <2> QED BY <1>1, <1>2, <1>3 DEF GoodStack
<1>5. r = <<>> \/ Suspended(Head(r))
  <2> HIDE DEF r
  <2> QED BY <1>1, <1>2
<1>6. \A e : ~InCall(r, e)
  <2> HIDE DEF r
  <2> QED BY <1>5 DEF InCall, Suspended
<1>7. ASSUME NEW id, NEW i \in 1 .. Len(s), s[i].token = id
      PROVE  Head(s).token = id \/ Holds(r, id)
  <2>1. CASE i = 1
    BY <1>1, <1>7, <2>1
  <2>2. CASE i # 1
    <3>1. i - 1 \in 1 .. Len(r) /\ r[i - 1] = s[(i - 1) + 1] /\ (i - 1) + 1 = i
      BY <1>1, <2>2
    <3> HIDE DEF r
    <3> QED BY <1>7, <3>1 DEF Holds
  <2> QED BY <2>1, <2>2
<1> QED BY <1>4, <1>5, <1>6, <1>7 DEF Holds

LEMMA SwapTop ==
    ASSUME NEW s \in Seq(Frame), s # <<>>, NEW f \in Frame, NEW toks, NEW pub,
           GoodStack(s, toks, pub), GoodFrame(f, toks, pub), f.phase # "gated"
    PROVE  /\ GoodStack(<<f>> \o Tail(s), toks, pub)
           /\ \A id : Holds(s, id) => Head(s).token = id \/ Holds(<<f>> \o Tail(s), id)
           /\ Holds(<<f>> \o Tail(s), f.token)
<1>1. Tail(s) \in Seq(Frame)
  OBVIOUS
<1>2. /\ GoodStack(<<f>> \o Tail(s), toks, pub)
      /\ \A id : Holds(Tail(s), id) => Holds(<<f>> \o Tail(s), id)
  BY <1>1, DropTop, AddTop
<1>3. 1 \in 1 .. Len(<<f>> \o Tail(s)) /\ (<<f>> \o Tail(s))[1] = f
  BY <1>1
<1>4. Holds(<<f>> \o Tail(s), f.token)
  BY <1>3 DEF Holds
<1> QED BY <1>2, <1>4, DropTop

LEMMA HeadCall ==
    ASSUME NEW s \in Seq(Frame), NEW f \in Frame, NEW e
    PROVE  InCall(<<f>> \o s, e) <=> f.phase = "body" /\ f.kind = "call" /\ f.epoch = e
<1>1. <<f>> \o s # <<>> /\ Head(<<f>> \o s) = f
  OBVIOUS
<1> QED BY <1>1 DEF InCall

(* A stack stays good as tokens are published, and as a token comes or     *)
(* goes that no other scope holds.                                         *)
LEMMA KeepStack ==
    ASSUME NEW s, NEW toks, NEW pub, NEW toks2, NEW pub2, GoodStack(s, toks, pub),
           \A k \in toks2 : Holds(s, k.id) => k \in toks /\ (k.id \in pub => k.id \in pub2)
    PROVE  GoodStack(s, toks2, pub2)
<1> SUFFICES ASSUME NEW i \in 1 .. Len(s)
             PROVE  GoodFrame(s[i], toks2, pub2)
  BY DEF GoodStack
<1>1. GoodFrame(s[i], toks, pub)
  BY DEF GoodStack
<1>2. \A k \in toks2 : k.id = s[i].token => k \in toks /\ (k.id \in pub => k.id \in pub2)
  BY DEF Holds
<1> QED BY <1>1, <1>2 DEF GoodFrame

-----------------------------------------------------------------------------
(* One task moves.                                                         *)

LEMMA StackType ==
    ASSUME HInv, NEW t \in Tasks
    PROVE  /\ stack[t] \in Seq(Frame)
           /\ GoodStack(stack[t], tokens, published)
           /\ \A e \in Epochs : permits[e] \in Nat
           /\ DOMAIN stack = Tasks
           /\ tokens \subseteq Token
BY DEF HInv, IInv, TypeOK

(* The permits follow the calls of the one task whose stack changes.       *)
LEMMA PermitMoves ==
    ASSUME HInv, NEW t \in Tasks, NEW e \in Epochs, NEW s, permits'[e] \in Nat,
           stack' = [stack EXCEPT ![t] = s],
           permits'[e] + (IF InCall(s, e) THEN 1 ELSE 0)
             = permits[e] + (IF InCall(stack[t], e) THEN 1 ELSE 0)
    PROVE  IsFiniteSet(Callers(e)') /\ permits'[e] + Cardinality(Callers(e)') = Limit
<1> DEFINE old == Callers(e)
           new == {u \in Tasks : InCall(stack'[u], e)}
<1>2. IsFiniteSet(old) /\ permits[e] + Cardinality(old) = Limit
      /\ permits[e] \in Nat /\ Cardinality(old) \in Nat
  BY FS_CardinalityType DEF HInv, Permits, IInv, TypeOK
<1>3. stack'[t] = s /\ \A u \in Tasks \ {t} : stack'[u] = stack[u]
  BY StackType
<1>1. Callers(e)' = new
  BY DEF Callers
<1>4. CASE InCall(s, e) <=> InCall(stack[t], e)
  <2>1. new = old
    BY <1>3, <1>4 DEF Callers
  <2>2. permits'[e] = permits[e]
    BY <1>2, <1>4
  <2> HIDE DEF old, new
  <2> QED BY <1>1, <1>2, <2>1, <2>2
<1>5. CASE InCall(s, e) /\ ~InCall(stack[t], e)
  <2>1. new = old \cup {t} /\ t \notin old
    BY <1>3, <1>5 DEF Callers
  <2>2. IsFiniteSet(new) /\ Cardinality(new) = Cardinality(old) + 1
    BY <1>2, <2>1, FS_AddElement
  <2>3. permits'[e] + 1 = permits[e]
    BY <1>2, <1>5
  <2> HIDE DEF old, new
  <2> QED BY <1>1, <1>2, <2>2, <2>3
<1>6. CASE ~InCall(s, e) /\ InCall(stack[t], e)
  <2>1. new = old \ {t} /\ t \in old
    BY <1>3, <1>6 DEF Callers
  <2>2. IsFiniteSet(new) /\ Cardinality(new) = Cardinality(old) - 1
    BY <1>2, <2>1, FS_RemoveElement
  <2>3. permits'[e] = permits[e] + 1
    BY <1>2, <1>6
  <2> HIDE DEF old, new
  <2> QED BY <1>1, <1>2, <2>2, <2>3
<1> QED BY <1>4, <1>5, <1>6

(* A step of one task that makes or settles no token.                      *)
LEMMA OneTaskMoves ==
    ASSUME HInv, IInv', NEW t \in Tasks, NEW s,
           tokens' = tokens, published \subseteq published',
           stack' = [stack EXCEPT ![t] = s],
           GoodStack(s, tokens, published'),
           \A k \in tokens : Holds(stack[t], k.id) => k.id \in published' \/ Holds(s, k.id),
           \A e \in Epochs : permits'[e] + (IF InCall(s, e) THEN 1 ELSE 0)
                               = permits[e] + (IF InCall(stack[t], e) THEN 1 ELSE 0)
    PROVE  HInv'
<1>1. stack'[t] = s /\ \A u \in Tasks \ {t} : stack'[u] = stack[u]
  BY StackType
<1>2. ASSUME NEW u \in Tasks
      PROVE  GoodStack(stack'[u], tokens', published')
  <2>1. CASE u = t
    BY <1>1, <2>1
  <2>2. CASE u # t
    <3>1. GoodStack(stack[u], tokens, published)
      BY StackType
    <3>2. GoodStack(stack[u], tokens, published')
      BY <3>1, KeepStack
    <3> QED BY <1>1, <2>2, <3>2
  <2> QED BY <2>1, <2>2
<1>3. ASSUME NEW k \in tokens
      PROVE  k.id \in published' \/ Holds(stack'[k.task], k.id)
  <2>1. k.task \in Tasks
    BY StackType DEF Token
  <2>2. k.id \in published \/ Holds(stack[k.task], k.id)
    BY DEF HInv, Held
  <2> QED BY <1>1, <2>1, <2>2
<1>4. Permits'
  <2>1. ASSUME NEW e \in Epochs
        PROVE  IsFiniteSet(Callers(e)') /\ permits'[e] + Cardinality(Callers(e)') = Limit
    <3>1. permits'[e] \in Nat
      BY DEF IInv, TypeOK
    <3> QED BY <3>1, PermitMoves
  <2> QED BY <2>1 DEF Permits
<1>5. UniqueIds' /\ Held'
  BY <1>3 DEF HInv, UniqueIds, Held
<1> QED BY <1>2, <1>4, <1>5 DEF HInv

-----------------------------------------------------------------------------
(* The three ways a frame goes.                                            *)

LEMMA PushKeeps ==
    ASSUME HInv, IInv', NEW t \in Tasks, NEW f \in Frame, Push(t, f),
           f.phase = "admitting", f.token = NoToken,
           stack[t] = <<>> \/ Suspended(Top(t)),
           UNCHANGED <<tokens, published, permits>>
    PROVE  HInv'
<1> DEFINE s == <<f>> \o stack[t]
<1>1. stack[t] \in Seq(Frame) /\ GoodStack(stack[t], tokens, published) /\ tokens \subseteq Token
  BY StackType
<1>2. GoodFrame(f, tokens, published)
  BY <1>1 DEF GoodFrame, Token, NoToken
<1>3. GoodStack(s, tokens, published) /\ \A id : Holds(stack[t], id) => Holds(s, id)
  BY <1>1, <1>2, AddTop DEF Top
<1>4. \A e : ~InCall(s, e) /\ ~InCall(stack[t], e)
  BY <1>1, HeadCall DEF InCall, Top, Suspended
<1>5. stack' = [stack EXCEPT ![t] = s]
  BY DEF Push
<1> HIDE DEF s
<1> QED BY <1>3, <1>4, <1>5, OneTaskMoves

(* A frame leaves that is not a running call and holds no token of its own *)
(* any more.                                                               *)
LEMMA PopKeeps ==
    ASSUME HInv, IInv', NEW t \in Tasks, stack[t] # <<>>, Pop(t),
           Top(t).phase # "body",
           \A k \in tokens : k.id = Top(t).token => k.id \in published,
           UNCHANGED <<tokens, published, permits>>
    PROVE  HInv'
<1> DEFINE s == Tail(stack[t])
<1>1. stack[t] \in Seq(Frame) /\ GoodStack(stack[t], tokens, published)
  BY StackType
<1>2. /\ GoodStack(s, tokens, published)
      /\ \A e : ~InCall(s, e)
      /\ \A id : Holds(stack[t], id) => Head(stack[t]).token = id \/ Holds(s, id)
  BY <1>1, DropTop
<1>3. \A e : ~InCall(stack[t], e)
  BY DEF InCall, Top
<1>4. stack' = [stack EXCEPT ![t] = s]
  BY DEF Pop
<1> HIDE DEF s
<1> QED BY <1>2, <1>3, <1>4, OneTaskMoves DEF Top

(* A frame moves on and keeps its token.                                   *)
LEMMA BecomeKeeps ==
    ASSUME HInv, IInv', NEW t \in Tasks, stack[t] # <<>>, NEW f \in Frame, Become(t, f),
           f.token = Top(t).token, f.phase # "gated",
           tokens' = tokens, published \subseteq published',
           GoodFrame(f, tokens, published'),
           \A e \in Epochs :
              permits'[e]
                + (IF f.phase = "body" /\ f.kind = "call" /\ f.epoch = e THEN 1 ELSE 0)
              = permits[e]
                + (IF Top(t).phase = "body" /\ Top(t).kind = "call" /\ Top(t).epoch = e
                   THEN 1 ELSE 0)
    PROVE  HInv'
<1> DEFINE s == <<f>> \o Tail(stack[t])
<1>1. stack[t] \in Seq(Frame) /\ GoodStack(stack[t], tokens, published)
      /\ Tail(stack[t]) \in Seq(Frame)
  BY StackType
<1>2. GoodStack(stack[t], tokens, published')
  BY <1>1, KeepStack
<1>3. /\ GoodStack(s, tokens, published')
      /\ \A id : Holds(stack[t], id) => Head(stack[t]).token = id \/ Holds(s, id)
      /\ Holds(s, f.token)
  BY <1>1, <1>2, SwapTop
<1>4. \A e : /\ InCall(s, e) <=> f.phase = "body" /\ f.kind = "call" /\ f.epoch = e
             /\ InCall(stack[t], e) <=> /\ Top(t).phase = "body" /\ Top(t).kind = "call"
                                        /\ Top(t).epoch = e
  BY <1>1, HeadCall DEF InCall, Top
<1>5. stack' = [stack EXCEPT ![t] = s]
  BY DEF Become
<1>6. \A id : Holds(stack[t], id) => Holds(s, id)
  BY <1>3 DEF Top
<1>7. ASSUME NEW e \in Epochs
      PROVE  permits'[e] + (IF InCall(s, e) THEN 1 ELSE 0)
               = permits[e] + (IF InCall(stack[t], e) THEN 1 ELSE 0)
  <2> HIDE DEF s
  <2> QED BY <1>4
<1> HIDE DEF s
<1> QED BY <1>3, <1>5, <1>6, <1>7, OneTaskMoves

-----------------------------------------------------------------------------
(* Scopes.                                                                 *)

LEMMA TopGood ==
    ASSUME HInv, NEW t \in Tasks, stack[t] # <<>>
    PROVE  /\ Top(t) \in Frame /\ Top(t).epoch \in Epochs
           /\ GoodFrame(Top(t), tokens, published)
           /\ Top(t).phase = "gated" => Len(stack[t]) = 1
<1>1. stack[t] \in Seq(Frame) /\ GoodStack(stack[t], tokens, published)
  BY StackType
<1>2. 1 \in 1 .. Len(stack[t]) /\ Top(t) = stack[t][1] /\ Top(t) \in Frame
  BY <1>1 DEF Top
<1> QED BY <1>1, <1>2 DEF GoodStack, Frame, FrameRecord

LEMMA BeginKeeps ==
    ASSUME HInv, IInv', NEW t \in Tasks, NEW kind \in {"op", "call", "spawn"},
           BeginScope(t, kind)
    PROVE  HInv'
<1>1. current \in Epochs
  BY DEF BeginScope, HInv, IInv, TypeOK
<1>2. /\ NewFrame(kind, current) \in Frame
      /\ NewFrame(kind, current).phase = "admitting"
      /\ NewFrame(kind, current).token = NoToken
  BY <1>1 DEF NewFrame, Frame, FrameRecord
<1>3. stack[t] = <<>> \/ Suspended(Top(t))
  BY DEF BeginScope, Runs, Suspended
<1> QED BY <1>2, <1>3, PushKeeps DEF BeginScope, accountVars

LEMMA LeaveKeeps ==
    ASSUME HInv, IInv', NEW t \in Tasks,
           Refuse(t) \/ CancelAdmitting(t) \/ Return(t) \/ SpawnReturn(t) \/ Reaped(t)
    PROVE  HInv'
<1>1. /\ stack[t] # <<>> /\ Pop(t) /\ UNCHANGED <<tokens, published, permits>>
      /\ \/ Top(t).phase \in {"admitting", "starting", "reaping"}
         \/ Top(t).phase = "settling" /\ Top(t).token \notin published
  BY DEF Refuse, CancelAdmitting, Return, SpawnReturn, Reaped, At, accountVars
<1>2. GoodFrame(Top(t), tokens, published) /\ tokens \subseteq Token
  BY <1>1, TopGood, StackType
<1>3. \A k \in tokens : k.id # Top(t).token
  BY <1>1, <1>2 DEF GoodFrame, Token, NoToken
<1> QED BY <1>1, <1>3, PopKeeps

LEMMA CancelSettlingKeeps ==
    ASSUME HInv, IInv', NEW t \in Tasks, CancelSettling(t)
    PROVE  HInv'
<1>1. /\ stack[t] # <<>> /\ UNCHANGED <<tokens, published, permits>>
      /\ Top(t).phase = "settling" /\ Top(t).token \in published
  BY DEF CancelSettling, At, accountVars
<1>2. CASE Top(t).cancel = "none"
  <2> DEFINE f == [Top(t) EXCEPT !.cancel = "first"]
  <2>1. Top(t) \in Frame /\ GoodFrame(Top(t), tokens, published)
    BY <1>1, TopGood
  <2>2. /\ f \in Frame /\ f.token = Top(t).token /\ f.phase = "settling"
        /\ GoodFrame(f, tokens, published)
    BY <1>1, <2>1 DEF Frame, FrameRecord, GoodFrame
  <2>3. Become(t, f)
    BY <1>2 DEF CancelSettling
  <2> HIDE DEF f
  <2> QED BY <1>1, <2>2, <2>3, BecomeKeeps
<1>3. CASE Top(t).cancel # "none"
  BY <1>1, <1>3, PopKeeps DEF CancelSettling
<1> QED BY <1>2, <1>3

(* A scope publishes its settlement.                                       *)
LEMMA PublishKeeps ==
    ASSUME HInv, IInv', NEW t \in Tasks, stack[t] # <<>>, NEW b \in BOOLEAN, Publish(t, b),
           Top(t).phase \in {"queued", "body", "emitting"}, tokens' = tokens,
           \A e \in Epochs :
              permits'[e] = permits[e] + (IF Top(t).phase = "body" /\ Top(t).kind = "call"
                                             /\ Top(t).epoch = e
                                          THEN 1 ELSE 0)
    PROVE  HInv'
<1> DEFINE f == [Top(t) EXCEPT !.phase = "settling",
                               !.cancel = IF b THEN "unwinding" ELSE "none"]
<1>1. Top(t) \in Frame /\ GoodFrame(Top(t), tokens, published)
  BY TopGood
<1>2. Become(t, f) /\ published' = published \cup {Top(t).token}
  BY DEF Publish
<1>3. f \in Frame /\ f.token = Top(t).token /\ f.phase = "settling"
  BY <1>1 DEF Frame, FrameRecord
<1>4. GoodFrame(f, tokens, published')
  BY <1>2, <1>3 DEF GoodFrame
<1>5. \A e \in Epochs : permits'[e] \in Nat /\ permits[e] \in Nat
  BY DEF HInv, IInv, TypeOK
<1> HIDE DEF f
<1>6. ASSUME NEW e \in Epochs
      PROVE  permits'[e] + (IF f.phase = "body" /\ f.kind = "call" /\ f.epoch = e
                            THEN 1 ELSE 0)
               = permits[e] + (IF Top(t).phase = "body" /\ Top(t).kind = "call"
                                  /\ Top(t).epoch = e
                               THEN 1 ELSE 0)
  BY <1>3, <1>5
<1> QED BY <1>2, <1>3, <1>4, <1>6, BecomeKeeps

(* A call goes on to its telemetry event.                                  *)
LEMMA EmitKeeps ==
    ASSUME HInv, IInv', NEW t \in Tasks, stack[t] # <<>>, To(t, "emitting"),
           Top(t).phase \in {"queued", "body"}, Top(t).kind = "call",
           UNCHANGED <<tokens, published>>,
           \A e \in Epochs :
              permits'[e] = permits[e] + (IF Top(t).phase = "body" /\ Top(t).epoch = e
                                          THEN 1 ELSE 0)
    PROVE  HInv'
<1> DEFINE f == [Top(t) EXCEPT !.phase = "emitting"]
<1>1. Top(t) \in Frame /\ GoodFrame(Top(t), tokens, published)
  BY TopGood
<1>2. Become(t, f)
  BY DEF To
<1>3. /\ f \in Frame /\ f.token = Top(t).token /\ f.phase = "emitting"
      /\ f.kind = "call" /\ f.epoch = Top(t).epoch
  BY <1>1 DEF Frame, FrameRecord
<1>4. GoodFrame(f, tokens, published)
  BY <1>1, <1>3 DEF GoodFrame
<1>5. \A e \in Epochs : permits'[e] \in Nat /\ permits[e] \in Nat
  BY DEF HInv, IInv, TypeOK
<1> HIDE DEF f
<1> QED BY <1>2, <1>3, <1>4, <1>5, BecomeKeeps

LEMMA AcquireKeeps ==
    ASSUME HInv, IInv', NEW t \in Tasks, AcquireSlot(t)
    PROVE  HInv'
<1>1. /\ stack[t] # <<>> /\ Top(t).phase = "queued" /\ UNCHANGED <<tokens, published>>
      /\ permits \in [Epochs -> Nat]
  BY DEF AcquireSlot, At, accountVars, HInv, IInv, TypeOK
<1>2. /\ Top(t) \in Frame /\ Top(t).epoch \in Epochs
      /\ GoodFrame(Top(t), tokens, published) /\ Top(t).kind = "call"
  BY <1>1, TopGood DEF GoodFrame
<1>3. CASE adm[Top(t).epoch] \in {"closing", "closed"}
  BY <1>1, <1>2, <1>3, EmitKeeps DEF AcquireSlot
<1>4. CASE adm[Top(t).epoch] \notin {"closing", "closed"}
  <2> DEFINE f == [Top(t) EXCEPT !.phase = "body"]
  <2>1. Become(t, f)
    BY <1>4 DEF AcquireSlot, To
  <2>2. permits' = [permits EXCEPT ![Top(t).epoch] = @ - 1]
    BY <1>4 DEF AcquireSlot
  <2>3. /\ f \in Frame /\ f.token = Top(t).token /\ f.phase = "body"
        /\ f.kind = "call" /\ f.epoch = Top(t).epoch
    BY <1>1, <1>2, TopToken DEF Frame, FrameRecord
  <2>4. GoodFrame(f, tokens, published)
    BY <1>1, <1>2, <2>3 DEF GoodFrame
  <2>5. \A e \in Epochs : permits'[e] + (IF f.epoch = e THEN 1 ELSE 0) = permits[e]
    BY <1>1, <1>2, <2>2, <2>3
  <2>6. \A e \in Epochs : permits[e] + 0 = permits[e]
    BY <1>1
  <2> HIDE DEF f
  <2> QED BY <1>1, <2>1, <2>3, <2>4, <2>5, <2>6, BecomeKeeps
<1> QED BY <1>3, <1>4

LEMMA EndKeeps ==
    ASSUME HInv, IInv', NEW t \in Tasks, NEW b \in BOOLEAN,
           LeaveQueue(t, b) \/ EndBody(t, b) \/ EndCall(t, b) \/ EndEmit(t, b)
    PROVE  HInv'
<1>1. /\ stack[t] # <<>> /\ tokens' = tokens /\ permits \in [Epochs -> Nat]
  BY DEF LeaveQueue, EndBody, EndCall, EndEmit, At, accountVars, HInv, IInv, TypeOK
<1>2. /\ Top(t) \in Frame /\ Top(t).epoch \in Epochs
      /\ GoodFrame(Top(t), tokens, published)
  BY <1>1, TopGood
<1>3. CASE LeaveQueue(t, b)
  <2>1. Top(t).phase = "queued" /\ permits' = permits
    BY <1>3 DEF LeaveQueue, At
  <2>2. Top(t).kind = "call"
    BY <1>2, <2>1 DEF GoodFrame
  <2>3. Publish(t, TRUE) \/ (To(t, "emitting") /\ UNCHANGED published)
    BY <1>3 DEF LeaveQueue
  <2>4. \A e \in Epochs : permits'[e] = permits[e] + 0
    BY <1>1, <2>1
  <2>5. ASSUME Publish(t, TRUE) PROVE HInv'
    BY <1>1, <2>1, <2>4, <2>5, PublishKeeps
  <2>6. ASSUME To(t, "emitting") /\ UNCHANGED published PROVE HInv'
    BY <1>1, <2>1, <2>2, <2>4, <2>6, EmitKeeps
  <2> QED BY <2>3, <2>5, <2>6
<1>4. CASE EndBody(t, b) \/ EndEmit(t, b)
  <2>1. /\ permits' = permits /\ Publish(t, b)
        /\ Top(t).phase = "emitting" \/ (Top(t).phase = "body" /\ Top(t).kind # "call")
    BY <1>4 DEF EndBody, EndEmit, At
  <2> QED BY <1>1, <2>1, PublishKeeps
<1>5. CASE EndCall(t, b)
  <2>1. /\ Top(t).phase = "body" /\ Top(t).kind = "call"
        /\ permits' = [permits EXCEPT ![Top(t).epoch] = @ + 1]
        /\ Publish(t, TRUE) \/ (To(t, "emitting") /\ UNCHANGED published)
    BY <1>5 DEF EndCall, At
  <2>2. \A e \in Epochs : permits'[e] = permits[e] + (IF Top(t).epoch = e THEN 1 ELSE 0)
    BY <1>1, <1>2, <2>1
  <2> QED BY <1>1, <2>1, <2>2, PublishKeeps, EmitKeeps
<1> QED BY <1>3, <1>4, <1>5

(* A child starts; the parent of a child is cancelled.                     *)
LEMMA ChildMoves ==
    ASSUME HInv, IInv', NEW t \in Tasks, StartChild(t) \/ CancelSpawn(t)
    PROVE  HInv'
<1> DEFINE f == [Top(t) EXCEPT !.phase = IF StartChild(t) THEN "body" ELSE "reaping"]
<1>1. /\ stack[t] # <<>> /\ UNCHANGED <<tokens, published, permits>>
      /\ IF StartChild(t) THEN Top(t).phase = "gated" ELSE Top(t).phase = "starting"
      /\ Become(t, f)
  BY DEF StartChild, CancelSpawn, At, To, accountVars
<1>2. Top(t) \in Frame /\ GoodFrame(Top(t), tokens, published)
  BY <1>1, TopGood
<1>3. /\ f \in Frame /\ f.token = Top(t).token /\ f.phase \in {"body", "reaping"}
      /\ f.phase = "body" => f.kind # "call"
      /\ GoodFrame(f, tokens, published)
  BY <1>1, <1>2 DEF Frame, FrameRecord, GoodFrame
<1>4. Top(t).phase # "body"
  BY <1>1
<1> HIDE DEF f
<1> QED BY <1>1, <1>3, <1>4, BecomeKeeps

-----------------------------------------------------------------------------
(* Tokens come and go.                                                     *)

LEMMA CallersSame ==
    ASSUME HInv, permits' = permits,
           \A u \in Tasks : \A e : InCall(stack'[u], e) <=> InCall(stack[u], e)
    PROVE  Permits'
<1>1. \A e \in Epochs : Callers(e)' = Callers(e)
  BY DEF Callers
<1> QED BY <1>1 DEF HInv, Permits

(* The token that Charge makes is in no frame.                             *)
LEMMA NewToken ==
    ASSUME HInv, NEW u \in Tasks, NEW e \in Epochs, Charge(u, e), UNCHANGED published
    PROVE  /\ FreeToken \in Tokens
           /\ tokens' = tokens \cup {[id |-> FreeToken, epoch |-> e, task |-> u]}
           /\ \A k \in tokens : k.id # FreeToken
           /\ UniqueIds'
           /\ \A t \in Tasks : GoodStack(stack[t], tokens', published')
<1>1. HasFreeToken /\ tokens' = tokens \cup {[id |-> FreeToken, epoch |-> e, task |-> u]}
  BY DEF Charge
<1>2. FreeToken \in Tokens /\ FreeToken \notin Used
  BY <1>1 DEF HasFreeToken, FreeToken
<1>3. \A k \in tokens : k.id # FreeToken
  BY <1>2 DEF Used
<1>4. \A t \in Tasks : ~Holds(stack[t], FreeToken)
  BY <1>2 DEF Used, Frames, Holds
<1>5. UniqueIds'
  BY <1>1, <1>3 DEF HInv, UniqueIds
<1>6. ASSUME NEW t \in Tasks
      PROVE  GoodStack(stack[t], tokens', published')
  <2>1. GoodStack(stack[t], tokens, published)
    BY StackType
  <2>2. \A k \in tokens' : Holds(stack[t], k.id) => k \in tokens
    BY <1>1, <1>4
  <2> QED BY <2>1, <2>2, KeepStack
<1> QED BY <1>1, <1>2, <1>3, <1>5, <1>6

LEMMA AdmitKeeps ==
    ASSUME HInv, NEW t \in Tasks, Admit(t)
    PROVE  HInv'
<1> DEFINE e == Top(t).epoch
           f == [Top(t) EXCEPT !.phase = IF Top(t).kind = "call" THEN "queued" ELSE "body",
                               !.token = FreeToken]
           s == <<f>> \o Tail(stack[t])
<1>1. IInv' /\ Charge(t, e) /\ e \in Epochs
  BY AdmitStep DEF HInv
<1>2. /\ stack[t] # <<>> /\ Top(t).phase = "admitting" /\ Top(t).kind \in {"op", "call"}
      /\ UNCHANGED <<permits, published>> /\ stack' = [stack EXCEPT ![t] = s]
  BY DEF Admit, At, Become
<1>3. Top(t) \in Frame /\ Top(t).token = NoToken
  BY <1>2, TopGood DEF GoodFrame
<1>4. /\ FreeToken \in Tokens /\ \A k \in tokens : k.id # FreeToken
      /\ tokens' = tokens \cup {[id |-> FreeToken, epoch |-> e, task |-> t]}
      /\ UniqueIds' /\ \A u \in Tasks : GoodStack(stack[u], tokens', published')
  BY <1>1, <1>2, NewToken
<1>5. /\ f \in Frame /\ f.token = FreeToken /\ f.epoch = e /\ f.kind = Top(t).kind
      /\ f.phase = IF Top(t).kind = "call" THEN "queued" ELSE "body"
  BY <1>3, <1>4 DEF Frame, FrameRecord
<1>6. GoodFrame(f, tokens', published')
  <2> HIDE DEF f, e
  <2> QED BY <1>4, <1>5 DEF GoodFrame
<1>7. stack[t] \in Seq(Frame) /\ Tail(stack[t]) \in Seq(Frame)
  BY <1>2, StackType
<1>8. /\ GoodStack(s, tokens', published') /\ Holds(s, FreeToken)
      /\ \A id : Holds(stack[t], id) => Head(stack[t]).token = id \/ Holds(s, id)
  <2> HIDE DEF f, e
  <2> QED BY <1>2, <1>4, <1>5, <1>6, <1>7, SwapTop
<1>9. \A d : ~InCall(s, d) /\ ~InCall(stack[t], d)
  <2>1. f.phase = "body" => f.kind # "call"
    BY <1>5
  <2>2. \A d : ~InCall(s, d)
    <3> HIDE DEF f
    <3> QED BY <1>5, <1>7, <2>1, HeadCall
  <2> QED BY <1>2, <2>2 DEF InCall, Top
<1> HIDE DEF s, f
<1>10. stack'[t] = s /\ \A u \in Tasks \ {t} : stack'[u] = stack[u]
  BY <1>2, StackType
<1>11. Permits'
  BY <1>2, <1>9, <1>10, CallersSame
<1>12. Held'
  <2>1. ASSUME NEW k \in tokens
        PROVE  k.id \in published' \/ Holds(stack'[k.task], k.id)
    <3>1. k.task \in Tasks /\ k.id # NoToken /\ (k.id \in published \/ Holds(stack[k.task], k.id))
      BY StackType DEF Token, NoToken, HInv, Held
    <3> QED BY <1>2, <1>3, <1>8, <1>10, <3>1 DEF Top
  <2> QED BY <1>4, <1>8, <1>10, <2>1 DEF Held
<1>13. \A u \in Tasks : GoodStack(stack'[u], tokens', published')
  BY <1>4, <1>8, <1>10
<1> QED BY <1>1, <1>4, <1>11, <1>12, <1>13 DEF HInv

LEMMA SpawnChildKeeps ==
    ASSUME HInv, NEW t \in Tasks, NEW c \in Children, SpawnChild(t, c)
    PROVE  HInv'
<1> DEFINE e == Top(t).epoch
           f == [Top(t) EXCEPT !.phase = "starting", !.child = {c}]
           g == [NewFrame("child", e) EXCEPT !.phase = "gated", !.token = FreeToken]
           s == <<f>> \o Tail(stack[t])
<1>1. IInv' /\ Charge(c, e) /\ e \in Epochs
  BY SpawnChildStep DEF HInv
<1>2. /\ stack[t] # <<>> /\ Top(t).phase = "admitting" /\ stack[c] = <<>> /\ c \in Tasks
      /\ UNCHANGED <<permits, published>> /\ stack' = [stack EXCEPT ![t] = s, ![c] = <<g>>]
      /\ \A k \in tokens : k.task # c
  BY DEF SpawnChild, At, Fresh
<1>3. Top(t) \in Frame /\ Top(t).token = NoToken
  BY <1>2, TopGood DEF GoodFrame
<1>4. /\ FreeToken \in Tokens /\ \A k \in tokens : k.id # FreeToken
      /\ tokens' = tokens \cup {[id |-> FreeToken, epoch |-> e, task |-> c]}
      /\ UniqueIds' /\ \A u \in Tasks : GoodStack(stack[u], tokens', published')
  BY <1>1, <1>2, NewToken
<1>5. f \in Frame /\ f.token = NoToken /\ f.phase = "starting"
  BY <1>3 DEF Frame, FrameRecord
<1>6. /\ g \in Frame /\ g.token = FreeToken /\ g.epoch = e /\ g.phase = "gated"
      /\ g.kind = "child"
  BY <1>1, <1>4 DEF Frame, FrameRecord, NewFrame
<1>7. GoodFrame(f, tokens', published') /\ GoodFrame(g, tokens', published')
  <2>1. tokens' \subseteq Token
    BY <1>1 DEF IInv, TypeOK
  <2> HIDE DEF f, g, e
  <2> QED BY <1>4, <1>5, <1>6, <2>1 DEF GoodFrame, NoToken, Token
<1>8. stack[t] \in Seq(Frame) /\ Tail(stack[t]) \in Seq(Frame)
  BY <1>2, StackType
<1>9. /\ GoodStack(s, tokens', published')
      /\ \A id : Holds(stack[t], id) => Head(stack[t]).token = id \/ Holds(s, id)
  <2> HIDE DEF f
  <2> QED BY <1>2, <1>4, <1>5, <1>7, <1>8, SwapTop
<1> HIDE DEF f, g
<1>10. GoodStack(<<g>>, tokens', published') /\ Holds(<<g>>, FreeToken)
  <2>1. Len(<<g>>) = 1 /\ <<g>>[1] = g
    OBVIOUS
  <2> QED BY <1>6, <1>7, <2>1 DEF GoodStack, Holds
<1>11. \A d : ~InCall(s, d) /\ ~InCall(stack[t], d) /\ ~InCall(<<g>>, d) /\ ~InCall(stack[c], d)
  <2>1. \A d : ~InCall(s, d)
    BY <1>5, <1>8, HeadCall
  <2>2. Head(<<g>>) = g
    OBVIOUS
  <2> QED BY <1>2, <1>6, <2>1, <2>2 DEF InCall, Top
<1> HIDE DEF s
<1>12. /\ stack'[t] = s /\ stack'[c] = <<g>> /\ t # c
       /\ \A u \in Tasks \ {t, c} : stack'[u] = stack[u]
  BY <1>2, StackType
<1>13. Permits'
  <2>1. \A u \in Tasks : \A d : InCall(stack'[u], d) <=> InCall(stack[u], d)
    BY <1>11, <1>12
  <2> QED BY <1>2, <2>1, CallersSame
<1>14. Held'
  <2>1. ASSUME NEW k \in tokens
        PROVE  k.id \in published' \/ Holds(stack'[k.task], k.id)
    <3>1. k.task \in Tasks \ {c} /\ k.id # NoToken
          /\ (k.id \in published \/ Holds(stack[k.task], k.id))
      BY <1>2, StackType DEF Token, NoToken, HInv, Held
    <3> QED BY <1>2, <1>3, <1>9, <1>12, <3>1 DEF Top
  <2> QED BY <1>4, <1>10, <1>12, <2>1 DEF Held
<1>15. \A u \in Tasks : GoodStack(stack'[u], tokens', published')
  BY <1>4, <1>9, <1>10, <1>12
<1> QED BY <1>1, <1>4, <1>13, <1>14, <1>15 DEF HInv

LEMMA ShutdownKeeps ==
    ASSUME HInv, IInv', NEW t \in Tasks, NEW c \in Children, ShutdownSpawn(t, c)
    PROVE  HInv'
<1> DEFINE f == [Top(t) EXCEPT !.phase = "settling", !.token = Top(c).token,
                               !.child = {}, !.cancel = "unwinding"]
           s == <<f>> \o Tail(stack[t])
<1>1. /\ stack[t] # <<>> /\ Top(t).phase = "starting" /\ c \in Tasks
      /\ stack[c] # <<>> /\ Top(c).phase = "gated"
      /\ UNCHANGED <<permits, tokens>> /\ stack' = [stack EXCEPT ![t] = s, ![c] = <<>>]
      /\ published' = published \cup {Top(c).token}
  BY DEF ShutdownSpawn, At, accountVars
<1>2. /\ Top(t) \in Frame /\ Top(t).token = NoToken /\ Top(c).token \in Tokens
      /\ Len(stack[c]) = 1
  BY <1>1, TopGood, TopToken DEF GoodFrame, HInv, IInv
<1>3. f \in Frame /\ f.token = Top(c).token /\ f.phase = "settling"
  BY <1>2 DEF Frame, FrameRecord
<1>4. GoodFrame(f, tokens, published')
  <2> HIDE DEF f
  <2> QED BY <1>1, <1>3 DEF GoodFrame
<1>5. \A u \in Tasks : GoodStack(stack[u], tokens, published')
  BY <1>1, StackType, KeepStack
<1>6. stack[t] \in Seq(Frame) /\ Tail(stack[t]) \in Seq(Frame) /\ stack[c] \in Seq(Frame)
  BY <1>1, StackType
<1> HIDE DEF f
<1>7. /\ GoodStack(s, tokens, published')
      /\ \A id : Holds(stack[t], id) => Head(stack[t]).token = id \/ Holds(s, id)
  BY <1>1, <1>3, <1>4, <1>5, <1>6, SwapTop
<1>8. /\ \A id : Holds(stack[c], id) => id \in published'
      /\ GoodStack(<<>>, tokens, published')
  <2>1. stack[c][1] = Top(c) /\ Len(<<>>) = 0
    BY <1>1, <1>6 DEF Top
  <2> QED BY <1>1, <1>2, <2>1 DEF Holds, GoodStack
<1>9. \A d : ~InCall(s, d) /\ ~InCall(stack[t], d) /\ ~InCall(<<>>, d) /\ ~InCall(stack[c], d)
  <2>1. \A d : ~InCall(s, d)
    BY <1>3, <1>6, HeadCall
  <2> QED BY <1>1, <2>1 DEF InCall, Top
<1> HIDE DEF s
<1>10. /\ stack'[t] = s /\ stack'[c] = <<>> /\ t # c
       /\ \A u \in Tasks \ {t, c} : stack'[u] = stack[u]
  BY <1>1, StackType
<1>11. Permits'
  <2>1. \A u \in Tasks : \A d : InCall(stack'[u], d) <=> InCall(stack[u], d)
    BY <1>9, <1>10
  <2> QED BY <1>1, <2>1, CallersSame
<1>12. Held' /\ UniqueIds'
  <2>1. ASSUME NEW k \in tokens
        PROVE  k.id \in published' \/ Holds(stack'[k.task], k.id)
    <3>1. k.task \in Tasks /\ k.id # NoToken
          /\ (k.id \in published \/ Holds(stack[k.task], k.id))
      BY StackType DEF Token, NoToken, HInv, Held
    <3> QED BY <1>1, <1>2, <1>7, <1>8, <1>10, <3>1 DEF Top
  <2> QED BY <1>1, <2>1 DEF Held, HInv, UniqueIds
<1>13. \A u \in Tasks : GoodStack(stack'[u], tokens', published')
  BY <1>1, <1>5, <1>7, <1>8, <1>10
<1> QED BY <1>11, <1>12, <1>13 DEF HInv

LEMMA LandKeeps ==
    ASSUME HInv, NEW k \in tokens, Land(k)
    PROVE  HInv'
<1>1. IInv'
  BY LandStep DEF HInv
<1>2. /\ tokens' = tokens \ {k} /\ published' = published \ {k.id}
      /\ UNCHANGED <<permits, stack>>
  BY DEF Land
<1>3. \A j \in tokens' : j \in tokens /\ (j.id \in published => j.id \in published')
  BY <1>2 DEF HInv, UniqueIds
<1>4. ASSUME NEW u \in Tasks
      PROVE  GoodStack(stack'[u], tokens', published')
  <2>1. GoodStack(stack[u], tokens, published)
    BY StackType
  <2> QED BY <1>2, <1>3, <2>1, KeepStack
<1>5. UniqueIds' /\ Held'
  BY <1>2, <1>3 DEF HInv, UniqueIds, Held
<1>6. Permits'
  BY <1>2, CallersSame
<1> QED BY <1>1, <1>4, <1>5, <1>6 DEF HInv

LEMMA ElsewhereKeeps ==
    ASSUME HInv, IInv', UNCHANGED <<tokens, published, permits, stack>>
    PROVE  HInv'
<1>1. Permits'
  BY CallersSame
<1> QED BY <1>1 DEF HInv, UniqueIds, Held

-----------------------------------------------------------------------------
(* The invariant.                                                          *)

LEMMA InitHInv ==
    ASSUME Init
    PROVE  HInv
<1>1. IInv
  BY InitIInv
<1>2. \A e : Callers(e) = {}
  BY DEF Init, Callers, InCall
<1>3. Permits
  <2>1. \A e \in Epochs : permits[e] = Limit /\ permits[e] + 0 = Limit
    BY DEF Init
  <2>2. \A e : IsFiniteSet(Callers(e)) /\ Cardinality(Callers(e)) = 0
    BY <1>2, FS_EmptySet
  <2> QED BY <2>1, <2>2 DEF Permits
<1>4. \A t \in Tasks : GoodStack(stack[t], tokens, published)
  BY DEF Init, GoodStack
<1> QED BY <1>1, <1>3, <1>4 DEF HInv, Init, UniqueIds, Held

LEMMA StepHInv ==
    ASSUME HInv, [Next]_vars
    PROVE  HInv'
<1>1. IInv'
  BY StepIInv DEF HInv
<1>2. ASSUME NEW t \in Tasks, Scope(t)
      PROVE  HInv'
  BY <1>1, <1>2, BeginKeeps, AdmitKeeps, LeaveKeeps, AcquireKeeps, EndKeeps,
     CancelSettlingKeeps DEF Scope
<1>3. ASSUME NEW t \in Tasks, Spawning(t)
      PROVE  HInv'
  BY <1>1, <1>3, SpawnChildKeeps, ShutdownKeeps, LeaveKeeps, ChildMoves DEF Spawning
<1>4. ASSUME NEW c \in Children, StartChild(c)
      PROVE  HInv'
  BY <1>1, <1>4, ChildMoves
<1>5. ASSUME Lifecycle \/ Rest \/ UNCHANGED vars
      PROVE  HInv'
  <2>1. UNCHANGED <<tokens, published, permits, stack>>
    BY <1>5 DEF Lifecycle, Rest, vars, PrepareGeneration, StartAccepting, StopAccepting,
                BeginClosing, MarkClosed, Transition, accountVars
  <2> QED BY <1>1, <2>1, ElsewhereKeeps
<1> QED BY <1>2, <1>3, <1>4, <1>5, LandKeeps DEF Next

(* HInv holds throughout every behaviour.                                  *)
THEOREM HoldInvariance == Spec => []HInv
<1>1. Init => HInv
  BY InitHInv
<1>2. HInv /\ [Next]_vars => HInv'
  BY StepHInv
<1> QED BY <1>1, <1>2, PTL DEF Spec

(* No cancellation, timeout or shutdown between two steps leaks a token or *)
(* a permit: whatever is held has someone who will return it, and the      *)
(* permits and the calls inside add up to max_concurrent_rpcs.             *)
THEOREM NoLeak == Spec => []NothingLeaks
<1>1. HInv => EveryTokenHeld
  BY DEF HInv, Held, Holds, EveryTokenHeld
<1>2. HInv => PermitsExact
  <2> SUFFICES ASSUME HInv, NEW e \in Epochs
               PROVE  permits[e] + Cardinality({t \in Tasks : /\ At(t, "body")
                                                              /\ Top(t).kind = "call"
                                                              /\ Top(t).epoch = e}) = Limit
    BY DEF PermitsExact
  <2>1. {t \in Tasks : At(t, "body") /\ Top(t).kind = "call" /\ Top(t).epoch = e} = Callers(e)
    BY DEF Callers, InCall, At, Top
  <2> QED BY <2>1 DEF HInv, Permits
<1>3. HInv => NothingLeaks
  BY <1>1, <1>2 DEF NothingLeaks
<1> QED BY <1>3, HoldInvariance, PTL

-----------------------------------------------------------------------------
(* What starts.                                                            *)

(* Whoever changes a task's stack is the task itself, or spawns it, or     *)
(* settles for it.                                                         *)
LEMMA WhoMoves ==
    ASSUME HInv, [Next]_vars, NEW t \in Tasks, stack'[t] # stack[t]
    PROVE  \/ Scope(t) \/ Spawning(t) \/ (t \in Children /\ StartChild(t))
           \/ stack[t] = <<>>
           \/ At(t, "gated")
<1>1. DOMAIN stack = Tasks
  BY StackType
<1>2. ASSUME NEW u \in Tasks, Scope(u), u # t
      PROVE  stack'[t] = stack[t]
  BY <1>1, <1>2 DEF Scope, BeginScope, Admit, Refuse, CancelAdmitting, AcquireSlot, LeaveQueue,
       EndBody, EndCall, EndEmit, Return, CancelSettling, Publish, Push, Pop, To, Become
<1>3. ASSUME NEW u \in Tasks, SpawnReturn(u) \/ CancelSpawn(u) \/ Reaped(u) \/ StartChild(u), u # t
      PROVE  stack'[t] = stack[t]
  BY <1>1, <1>3 DEF SpawnReturn, CancelSpawn, Reaped, StartChild, Pop, To, Become
<1>4. ASSUME NEW u \in Tasks, NEW c \in Children, SpawnChild(u, c), u # t
      PROVE  stack[t] = <<>> \/ stack'[t] = stack[t]
  BY <1>1, <1>4 DEF SpawnChild, Fresh
<1>5. ASSUME NEW u \in Tasks, NEW c \in Children, ShutdownSpawn(u, c), u # t
      PROVE  At(t, "gated") \/ stack'[t] = stack[t]
  BY <1>1, <1>5 DEF ShutdownSpawn
<1>6. ASSUME Lifecycle \/ Rest \/ UNCHANGED vars \/ \E k \in tokens : Land(k)
      PROVE  stack' = stack
  BY <1>6 DEF Lifecycle, Rest, vars, PrepareGeneration, StartAccepting, StopAccepting,
              BeginClosing, MarkClosed, Transition, Land
<1>7. ASSUME NEW u \in Tasks, Scope(u) \/ Spawning(u)
      PROVE  Scope(t) \/ Spawning(t) \/ stack[t] = <<>> \/ At(t, "gated")
  <2>1. ASSUME u # t, Spawning(u)
        PROVE  stack[t] = <<>> \/ At(t, "gated")
    BY <1>3, <1>4, <1>5, <2>1 DEF Spawning
  <2> QED BY <1>2, <1>7, <2>1
<1>8. ASSUME NEW c \in Children, StartChild(c)
      PROVE  t \in Children /\ StartChild(t)
  <2>1. c = t
    BY <1>3, <1>8
  <2> QED BY <1>8, <2>1
<1> QED BY <1>6, <1>7, <1>8 DEF Next

(* What a task's innermost scope becomes.                                  *)
LEMMA TopMoves ==
    ASSUME HInv, NEW t \in Tasks, stack[t] # <<>>, NEW f \in Frame, Become(t, f)
    PROVE  stack'[t] # <<>> /\ Top(t)' = f
<1>1. Tail(stack[t]) \in Seq(Frame) /\ stack'[t] = <<f>> \o Tail(stack[t])
  BY StackType DEF Become
<1> QED BY <1>1 DEF Top

LEMMA QueueLeads ==
    ASSUME HInv, [Next]_vars, NEW t \in Tasks, At(t, "queued"), At(t, "body")'
    PROVE  Top(t).epoch = current
<1>1. stack[t] # <<>> /\ Top(t).phase = "queued" /\ Top(t)'.phase = "body"
  BY DEF At
<1>2. Top(t) \in Frame /\ Top(t).epoch \in Epochs
  BY <1>1, TopGood
<1>3. stack'[t] # stack[t]
  BY <1>1 DEF Top
<1>4. AcquireSlot(t) \/ \E b \in BOOLEAN : LeaveQueue(t, b)
  BY <1>1, <1>3, WhoMoves DEF Scope, Spawning, At, BeginScope, Runs, Admit, Refuse,
     CancelAdmitting, EndBody, EndCall, EndEmit, Return, CancelSettling, SpawnChild,
     ShutdownSpawn, SpawnReturn, CancelSpawn, Reaped, StartChild
<1>5. ASSUME NEW phase \in {"emitting", "settling"}, NEW c \in {Top(t).cancel, "none", "unwinding"},
             Become(t, [Top(t) EXCEPT !.phase = phase, !.cancel = c])
      PROVE  FALSE
  <2> DEFINE f == [Top(t) EXCEPT !.phase = phase, !.cancel = c]
  <2>1. f \in Frame /\ f.phase = phase
    BY <1>1, <1>2, TopToken DEF Frame, FrameRecord, HInv, IInv
  <2> HIDE DEF f
  <2>2. Top(t)'.phase = phase
    BY <1>1, <1>5, <2>1, TopMoves DEF f
  <2> QED BY <1>1, <2>2
<1>6. ~To(t, "emitting")
  <2>1. [Top(t) EXCEPT !.phase = "emitting"]
          = [Top(t) EXCEPT !.phase = "emitting", !.cancel = Top(t).cancel]
    BY <1>2 DEF Frame, FrameRecord
  <2> QED BY <1>5, <2>1 DEF To
<1>7. AcquireSlot(t) /\ adm[Top(t).epoch] \notin {"closing", "closed"}
  <2>1. ~Publish(t, TRUE)
    BY <1>5 DEF Publish
  <2> QED BY <1>4, <1>6, <2>1 DEF LeaveQueue, AcquireSlot
<1> QED BY <1>2, <1>7 DEF HInv, IInv, PhaseInv

(* A call that waited for its slot while the client was closed or reopened *)
(* does not run: a queued call is fenced when it is woken.                 *)
THEOREM StartsInOwnGeneration == Spec => StartsOnCurrent
<1>1. HInv /\ [Next]_vars =>
        [\A t \in Tasks : At(t, "queued") /\ At(t, "body")' => Top(t).epoch = current]_vars
  BY QueueLeads
<1> QED BY <1>1, HoldInvariance, PTL DEF Spec, StartsOnCurrent

(* An admission to a draining generation: the task's depth is that of a    *)
(* scope around this one, for a settlement it left behind asked for the    *)
(* condition before it.                                                    *)
LEMMA DrainAdmission ==
    ASSUME HInv, NEW t \in Tasks, Admit(t), adm[Top(t).epoch] = "draining"
    PROVE  \E i \in 2 .. Len(stack[t]) : stack[t][i].epoch = Top(t).epoch
<1> DEFINE e == Top(t).epoch
           s == stack[t]
<1>1. e \in Epochs /\ CanAdmit(t, e)
  BY AdmitStep DEF HInv
<1>2. PICK k \in TokensHeld(e, t) : TRUE
  BY <1>1, DepthMeansToken DEF CanAdmit, HInv
<1>3. k \in tokens /\ k.epoch = e /\ k.task = t /\ k.id # NoToken
  BY <1>2, StackType DEF TokensHeld, Token, NoToken
<1>4. k.id \notin published
  BY <1>3 DEF Admit, HasCondition
<1>5. PICK i \in 1 .. Len(s) : s[i].token = k.id
  BY <1>3, <1>4 DEF HInv, Held, Holds
<1>6. /\ s \in Seq(Frame) /\ s # <<>> /\ Top(t) = s[1] /\ Top(t).phase = "admitting"
      /\ GoodStack(s, tokens, published)
  BY StackType DEF Admit, At, Top
<1>7. i # 1
  BY <1>3, <1>5, <1>6, TopGood DEF GoodFrame
<1>8. i \in 2 .. Len(s) /\ Suspended(s[i]) /\ GoodFrame(s[i], tokens, published)
  BY <1>5, <1>6, <1>7 DEF GoodStack
<1>9. s[i].epoch = e
  BY <1>3, <1>5, <1>8 DEF GoodFrame, Suspended
<1> QED BY <1>8, <1>9

(* While a generation drains, only a task inside one of its scopes enters  *)
(* another.                                                                *)
THEOREM DrainAdmitsNested == Spec => DrainAdmitsNestedOnly
<1>1. ASSUME HInv, [Next]_vars, NEW t \in Tasks,
             At(t, "admitting"), (At(t, "body") \/ At(t, "queued"))', tokens' # tokens
      PROVE  Admit(t)
  <2>1. stack[t] # <<>> /\ Top(t).phase = "admitting"
        /\ Top(t)'.phase \in {"body", "queued"}
    BY <1>1 DEF At
  <2>2. stack'[t] # stack[t]
    BY <2>1 DEF Top
  <2>3. Admit(t) \/ \E c \in Children : SpawnChild(t, c)
    BY <1>1, <2>1, <2>2, WhoMoves DEF Scope, Spawning, At, BeginScope, Runs, Refuse,
       CancelAdmitting, AcquireSlot, LeaveQueue, EndBody, EndCall, EndEmit, Return,
       CancelSettling, ShutdownSpawn, SpawnReturn, CancelSpawn, Reaped, StartChild, accountVars
  <2>4. ASSUME NEW c \in Children, SpawnChild(t, c)
        PROVE  FALSE
    <3> DEFINE f == [Top(t) EXCEPT !.phase = "starting", !.child = {c}]
    <3>1. Top(t) \in Frame /\ t # c /\ c \in Tasks
      BY <1>1, <2>1, <2>4, TopGood DEF SpawnChild, Fresh
    <3>2. f \in Frame /\ f.phase = "starting"
      BY <3>1, <1>1, TopGood, <2>1 DEF Frame, FrameRecord, GoodFrame
    <3>3. stack'[t] = <<f>> \o Tail(stack[t]) /\ Tail(stack[t]) \in Seq(Frame)
      BY <1>1, <2>1, <2>4, <3>1, StackType DEF SpawnChild
    <3> HIDE DEF f
    <3>4. Top(t)' = f
      BY <3>2, <3>3 DEF Top
    <3> QED BY <2>1, <3>2, <3>4
  <2> QED BY <2>3, <2>4
<1>2. HInv /\ [Next]_vars =>
        [\A t \in Tasks :
            At(t, "admitting") /\ (At(t, "body") \/ At(t, "queued"))'
              /\ tokens' # tokens /\ adm[Top(t).epoch] = "draining"
            => \E i \in 2 .. Len(stack[t]) : stack[t][i].epoch = Top(t).epoch]_vars
  BY <1>1, DrainAdmission
<1> QED BY <1>2, HoldInvariance, PTL DEF Spec, DrainAdmitsNestedOnly

=============================================================================
