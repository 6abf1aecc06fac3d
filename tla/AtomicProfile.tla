----------------------------- MODULE AtomicProfile -----------------------------
(***************************************************************************)
(* What a shared profile promises to the clients that save cookies to it.  *)
(*                                                                         *)
(* A client hands out numbered observations of its jar.  Each of them has  *)
(* its effect at one moment, on the cookies that are stored at that        *)
(* moment, or none at all, and never after a newer one of the same client. *)
(* This module knows nothing of threads, processes, locks or files:        *)
(* CookiePersistence shows how they keep the promise.                      *)
(***************************************************************************)
EXTENDS Integers

CONSTANTS Clients, Cookies, Values,
          Absent,   \* the value of a cookie that is not there
          Loaded    \* the cookies the clients were made from

Jars == [Cookies -> Values]

VARIABLES stored,   \* the cookies of the profile
          known,    \* known[k]: what client k knows of its baseline
          baseline, \* baseline[k]: the cookies its next save is compared with
          applied,  \* applied[k]: the number of the newest observation applied
          issued,   \* issued[k]: how many observations it has handed out
          asked     \* the observations that may still have their effect

vars == <<stored, known, baseline, applied, issued, asked>>

Init == /\ stored = Loaded
        /\ known \in [Clients -> {"uninitialized", "ready"}]
        /\ baseline = [k \in Clients |-> Loaded]
        /\ applied = [k \in Clients |-> -1]
        /\ issued = [k \in Clients |-> 0]
        /\ asked = {}

(* A client reads its first baseline from the profile, or fails to.        *)
Load(k) ==
    /\ known[k] = "uninitialized"
    /\ \/ /\ known' = [known EXCEPT ![k] = "ready"]
          /\ baseline' = [baseline EXCEPT ![k] = stored]
       \/ known' = [known EXCEPT ![k] = "failed"] /\ UNCHANGED baseline
    /\ UNCHANGED <<stored, applied, issued, asked>>

Ask(k, kind, jar) ==
    /\ issued' = [issued EXCEPT ![k] = @ + 1]
    /\ asked' = asked \cup {[client |-> k, kind |-> kind, seq |-> issued[k], jar |-> jar]}
    /\ UNCHANGED <<stored, known, baseline, applied>>

(* A cookie that the client changed is stored, by comparison with what is  *)
(* stored now; where the comparison fails the client keeps its baseline.   *)
Conflict(o, c) ==
    /\ o.jar[c] # baseline[o.client][c]
    /\ stored[c] \notin {Absent, baseline[o.client][c], o.jar[c]}

Stores(o, c) == o.jar[c] # baseline[o.client][c] /\ ~Conflict(o, c)

Save(o) ==
    /\ o.kind = "save"
    /\ known[o.client] # "failed"
    /\ applied[o.client] <= o.seq
    /\ stored' = [c \in Cookies |-> IF Stores(o, c) THEN o.jar[c] ELSE stored[c]]
    /\ baseline' = [baseline EXCEPT ![o.client] =
                       [c \in Cookies |-> IF Conflict(o, c) THEN @[c] ELSE o.jar[c]]]
    /\ known' = [known EXCEPT ![o.client] = "ready"]
    /\ applied' = [applied EXCEPT ![o.client] = o.seq]
    /\ asked' = asked \ {o}
    /\ UNCHANGED issued

(* A client that took the profile over makes it its baseline, if nobody    *)
(* has written since.                                                      *)
Adopt(o) ==
    /\ o.kind = "adopt"
    /\ stored = o.jar
    /\ baseline' = [baseline EXCEPT ![o.client] = stored]
    /\ known' = [known EXCEPT ![o.client] = "ready"]
    /\ applied' = [applied EXCEPT ![o.client] = IF @ < o.seq THEN o.seq ELSE @]
    /\ asked' = asked \ {o}
    /\ UNCHANGED <<stored, issued>>

(* Too old, refused, or failed.                                            *)
Drop(o) == /\ asked' = asked \ {o}
           /\ UNCHANGED <<stored, known, baseline, applied, issued>>

(* A recovery replaces the profile as a whole.                             *)
Replace(jar) == /\ stored' = jar
                /\ UNCHANGED <<known, baseline, applied, issued, asked>>

Next == \/ \E k \in Clients : \/ Load(k)
                              \/ \E kind \in {"save", "adopt"}, jar \in Jars : Ask(k, kind, jar)
        \/ \E o \in asked : Save(o) \/ Adopt(o) \/ Drop(o)
        \/ \E jar \in Jars : Replace(jar)

Spec == Init /\ [][Next]_vars

=============================================================================
