--------------------------- MODULE MCClientLifecycle ---------------------------
(* Instances of ClientLifecycle for TLC.                                   *)
EXTENDS ClientLifecycle, TLC

=============================================================================
