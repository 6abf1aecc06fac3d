---------------------------- MODULE MCRefreshFlight ----------------------------
(* Instances of RefreshFlight for TLC.                                     *)
EXTENDS RefreshFlight, TLC

CONSTANTS c1, c2, c3, p1, p2

(* Two event loops in one process, a third in another.                     *)
TwoAndOne == (c1 :> p1) @@ (c2 :> p1) @@ (c3 :> p2)

=============================================================================
