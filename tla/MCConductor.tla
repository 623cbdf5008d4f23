------------------------------ MODULE MCConductor ------------------------------
(* Conductor's instances for TLC. *)
EXTENDS Conductor, TLC

Answered == [state |-> "succeeded", result |-> "yes"]
Broke == [state |-> "failed", result |-> "yes"]
Silent == [state |-> "failed", result |-> "no"]

Ends == {Answered, Broke, Silent}
AnsweredOrSilent == {Answered, Silent}
AnsweredOnly == {Answered}
HandlerSymmetry == Permutations(Handlers)
===============================================================================
