--------------------------- MODULE MCCallSupervisor ---------------------------
(* Instances of CallSupervisor for TLC.                                    *)
EXTENDS CallSupervisorRefinement, TLC

RootSymmetry == Permutations(Roots)

=============================================================================
