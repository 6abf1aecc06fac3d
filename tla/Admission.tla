------------------------------ MODULE Admission ------------------------------
(***************************************************************************)
(* What client admission promises, whoever drives it.                      *)
(*                                                                         *)
(* A client lives through resource generations, numbered by epochs.  Work  *)
(* holds tokens of a generation: one token per admitted scope and one per  *)
(* spawned child task.  This module says when a token may come into        *)
(* existence and nothing about how: CallSupervisor shows how scopes,       *)
(* children and settlement tasks do it, and ClientLifecycle drives the     *)
(* generations.  Both are checked to implement this specification.         *)
(***************************************************************************)
EXTENDS Naturals, FiniteSets

CONSTANTS Tasks,     \* asyncio tasks that may hold admission
          Tokens,    \* identities of _AdmissionToken objects
          MaxEpoch   \* bound on the number of generations

Epochs == 1 .. MaxEpoch

VARIABLES state,  \* phase of each generation
          live    \* the tokens that have not been settled

vars == <<state, live>>

Phases == {"unborn", "prepared", "accepting", "draining", "closing", "closed"}

LiveOf(e) == {k \in live : k.epoch = e}
Holds(t, e) == \E k \in LiveOf(e) : k.task = t
Current(e) == state[e] \in {"prepared", "accepting", "draining", "closing"}

Init == /\ state = [e \in Epochs |-> "unborn"]
        /\ live = {}

(* Generations appear in order and one at a time.                          *)
Prepare(e) == /\ state[e] = "unborn"
              /\ \A f \in Epochs : /\ ~Current(f)
                                   /\ f > e => state[f] = "unborn"
              /\ state' = [state EXCEPT ![e] = "prepared"]
              /\ UNCHANGED live

Move(e, from, to) == /\ state[e] \in from
                     /\ state' = [state EXCEPT ![e] = to]
                     /\ UNCHANGED live

StartAccepting(e) == Move(e, {"prepared"}, "accepting")
StopAccepting(e)  == Move(e, {"accepting", "draining"}, "draining")
BeginClosing(e)   == Move(e, {"accepting", "draining", "closing"}, "closing")
Retire(e)         == Move(e, {"prepared", "closing"}, "closed")

(* A scope: top-level while accepting, only nested while draining.         *)
Admit(t, e, k) ==
    /\ \/ state[e] = "accepting"
       \/ state[e] = "draining" /\ Holds(t, e)
    /\ \A f \in Epochs \ {e} : ~Holds(t, f)
    /\ k \notin {j.id : j \in live}
    /\ live' = live \cup {[id |-> k, epoch |-> e, task |-> t]}
    /\ UNCHANGED state

(* Child work: only under a parent that holds the same generation.         *)
Spawn(t, c, e, k) ==
    /\ state[e] \in {"accepting", "draining"}
    /\ Holds(t, e)
    /\ \A f \in Epochs : ~Holds(c, f)
    /\ k \notin {j.id : j \in live}
    /\ live' = live \cup {[id |-> k, epoch |-> e, task |-> c]}
    /\ UNCHANGED state

Settle(k) == /\ k \in live
             /\ live' = live \ {k}
             /\ UNCHANGED state

Next == \/ \E e \in Epochs : \/ Prepare(e)
                             \/ StartAccepting(e)
                             \/ StopAccepting(e)
                             \/ BeginClosing(e)
                             \/ Retire(e)
        \/ \E t \in Tasks, e \in Epochs, k \in Tokens : Admit(t, e, k)
        \/ \E t, c \in Tasks, e \in Epochs, k \in Tokens : Spawn(t, c, e, k)
        \/ \E k \in live : Settle(k)

Spec == Init /\ [][Next]_vars

=============================================================================
