------------------------------ MODULE MCRunTasks ------------------------------
(* RunTasks' instances for TLC. *)
EXTENDS RunTasks, TLC

Res(proofSays, hit, session) == [proof |-> proofSays, hit |-> hit, session |-> session]
Finished == [state |-> "succeeded", error |-> "none", result |-> Res("ok", "none", TRUE)]
FinishedBadly == [state |-> "succeeded", error |-> "none", result |-> Res("bad", "none", TRUE)]
Hung == [state |-> "failed", error |-> "hung", result |-> Res("none", "none", TRUE)]
Limited == [state |-> "failed", error |-> "limit", result |-> Res("none", "none", FALSE)]
OutOfSteps == [state |-> "failed", error |-> "error", result |-> Res("none", "steps", TRUE)]
OutOfMoney == [state |-> "failed", error |-> "error", result |-> Res("none", "usd", TRUE)]
Expired == [state |-> "expired", error |-> "none", result |-> NoResult]

SerialEnds == {Finished, Hung, OutOfSteps}
RaceEnds == {Finished, Hung}
HungEnds == {Hung}
BadEnds == {FinishedBadly}

BeforeDecision == {"read", "apply", "ended", "decide", "outcome"}
Anywhere == Steps \ {"idle"}
HandlerSymmetry == Permutations(Handlers)
===============================================================================
