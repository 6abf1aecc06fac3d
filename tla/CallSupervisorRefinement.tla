----------------------- MODULE CallSupervisorRefinement -----------------------
(***************************************************************************)
(* CallSupervisor implements Admission: scopes, children and settlement    *)
(* tasks together do no more than create tokens when Admission allows it   *)
(* and return each of them once.                                           *)
(***************************************************************************)
EXTENDS CallSupervisor

(* A generation is unborn until it is prepared and closed once retired;    *)
(* the code's "closed" also covers a prepared one.                         *)
AbstractState ==
    [e \in Epochs |-> IF e > lastEpoch THEN "unborn"
                      ELSE IF e # current THEN "closed"
                      ELSE IF adm[e] = "closed" THEN "prepared" ELSE adm[e]]

Abstract == INSTANCE Admission WITH state <- AbstractState, live <- tokens

(* Every step of the supervisor is a step of Admission or changes neither  *)
(* the generations nor the live tokens.                                    *)
ImplementsAdmission == Abstract!Spec

=============================================================================
