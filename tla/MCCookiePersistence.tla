-------------------------- MODULE MCCookiePersistence --------------------------
(* Instances of CookiePersistence for TLC.                                 *)
EXTENDS CookiePersistenceRefinement, TLC

CONSTANTS k1, k2, p1, p2

Two(flock, p, q, bare, n, m) ==
    [flock |-> flock, proc |-> (k1 :> p) @@ (k2 :> q), bare |-> bare,
     saves |-> (k1 :> n) @@ (k2 :> m)]

(* Two processes with flock; one process on a file system without it; and  *)
(* a sibling that was given its cookies without their snapshot.            *)
PassingSites == {Two(TRUE, p1, p2, {}, 2, 1),
                 Two(FALSE, p1, p1, {}, 2, 1),
                 Two(TRUE, p1, p2, {k2}, 1, 1)}

(* Two processes with flock.                                               *)
PlainSite == {Two(TRUE, p1, p2, {}, 2, 1)}

=============================================================================
