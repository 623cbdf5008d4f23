----------------------------- MODULE MCSessionLog -----------------------------
(* SessionLog's instances for TLC. *)
EXTENDS SessionLog, TLC

Output(done, cut) == [type |-> "output", done |-> done, cut |-> cut]
Event(type) == [type |-> type, done |-> <<>>, cut |-> "none"]

(* A line that spans two events, one that the stream never carried, and a    *)
(* second job that says a line again.                                        *)
TwoTurns == << <<Output(<<"a">>, "b"), Output(<<"b">>, "none"), Event("end")>>,
               <<Output(<<"c", "a">>, "none")>> >>
TwoLogs == << <<"a", "z", "b">>, <<"c", "a">> >>
TurnsAndTasks == [conductor |-> 2, task |-> 2]

ViewerSymmetry == Permutations(Viewers)
===============================================================================
