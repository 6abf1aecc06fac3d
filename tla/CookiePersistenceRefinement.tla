---------------------- MODULE CookiePersistenceRefinement ----------------------
(***************************************************************************)
(* CookiePersistence implements AtomicProfile: a save takes effect when it *)
(* commits, although its thread compared and read the profile before.      *)
(***************************************************************************)
EXTENDS CookiePersistence

(* What is left of a job without its thread: the stage it is in and the    *)
(* document it has read.                                                   *)
Observation(j) == [client |-> j.client, kind |-> j.kind, seq |-> j.seq, jar |-> j.jar]

Asked == {Observation(j) : j \in jobs}

Atomic == INSTANCE AtomicProfile
          WITH Loaded <- [c \in Cookies |-> 0],
               stored <- disk, issued <- seq, asked <- Asked

(* Whatever locks the file system offers, every save and every adoption    *)
(* acts as if it compared, stored and advanced the baseline of its client  *)
(* in one step, on the profile of that moment, and never after a newer one *)
(* (profile_store.py, merge_cookie_observation: the read, the decision and *)
(* the replacement are made under one lock).                               *)
SavesAreAtomic == Atomic!Spec

=============================================================================
