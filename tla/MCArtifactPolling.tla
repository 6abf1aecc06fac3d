--------------------------- MODULE MCArtifactPolling ---------------------------
(* Instances of ArtifactPolling for TLC.                                   *)
EXTENDS ArtifactPolling, TLC

WaiterSymmetry == Permutations(Waiters)

=============================================================================
