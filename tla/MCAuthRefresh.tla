----------------------------- MODULE MCAuthRefresh -----------------------------
(* Instances of AuthRefresh for TLC.                                       *)
EXTENDS AuthRefresh, TLC

CONSTANTS c1, c2

TwoCallers == {c1, c2}

=============================================================================
