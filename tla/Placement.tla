------------------------------ MODULE Placement ------------------------------
(***************************************************************************)
(* Why a task runs where it does, and what its ending teaches the next     *)
(* placement: forTask (server/domain/placement-context.js), route          *)
(* (server/domain/harness-placement.js), recordPlacementOutcome            *)
(* (server/domain/run-tasks.js) and record                                 *)
(* (server/domain/placement-outcomes.js).                                  *)
(*                                                                         *)
(* Several handlers see a task end: Run's event, its redelivery, a page    *)
(* that asks.  Each claims the row first, then reads the learned row,      *)
(* learns and writes it back.  The half-life is left out: the weights are  *)
(* counts.                                                                 *)
(***************************************************************************)
EXTENDS Naturals, FiniteSets

CONSTANTS
    Tasks,
    Harnesses,      \* the catalog's offers
    Paid,           \* those that cost something
    Own,            \* those the person's own machine runs, {} without a machine
    Handlers,       \* the handlers that may see one task's end
    MaxLost         \* bound: crashes and failed statements

VARIABLES
    placed,     \* run_tasks: each task's agent, option key, outcome and placement_recorded
    taught,     \* placement_outcomes: per option key, the good and all outcomes counted
    teacher,    \* recordPlacementOutcome under way, per task and handler
    lost

plvars == <<placed, taught, teacher, lost>>

Waiting == [pc |-> "idle", outcome |-> "none", row |-> [ok |-> 0, n |-> 0]]

InitPlacement ==
    /\ placed = [t \in Tasks |-> [key |-> "none", state |-> "none", outcome |-> "none", recorded |-> "no"]]
    /\ taught = [k \in Harnesses |-> [ok |-> 0, n |-> 0]]
    /\ teacher = [t \in Tasks |-> [h \in Handlers |-> Waiting]]
    /\ lost = 0

(* route: the offers left for the agent the task named.  noCloud keeps the  *)
(* person's own machine, and without one place() rejects every offer;       *)
(* onlyFree keeps what is owned or free.                                    *)
Offers(agent, noCloud, onlyFree) ==
    {o \in Harnesses : /\ o = agent
                       /\ noCloud => o \in Own
                       /\ onlyFree => (noCloud /\ o \in Own) \/ o \notin Paid}

(* start: the placement's line and key; a task whose placement cannot be    *)
(* explained, or that has none, has no key.                                 *)
Start(t, agent, noCloud, onlyFree, explained) ==
    /\ placed[t].state = "none"
    /\ placed' = [placed EXCEPT ![t].state = "open",
           ![t].key = IF explained /\ Offers(agent, noCloud, onlyFree) # {} THEN agent ELSE "none"]
    /\ UNCHANGED <<taught, teacher, lost>>

(* The task ends; continueTask opens it again.                              *)
Ends(t, outcome) ==
    /\ placed[t].state = "open"
    /\ placed' = [placed EXCEPT ![t].state = "over", ![t].outcome = outcome]
    /\ UNCHANGED <<taught, teacher, lost>>

Continue(t) ==
    /\ placed[t].state = "over"
    /\ placed' = [placed EXCEPT ![t].state = "open", ![t].outcome = "none"]
    /\ UNCHANGED <<taught, teacher, lost>>

Goes(t, h, to) == teacher' = [teacher EXCEPT ![t][h] = to]

(* A handler holds the row as it ended.                                     *)
Sees(t, h) ==
    /\ placed[t].state = "over" /\ placed[t].key # "none"
    /\ teacher[t][h].pc = "idle"
    /\ Goes(t, h, [Waiting EXCEPT !.pc = "claim", !.outcome = placed[t].outcome])
    /\ UNCHANGED <<placed, taught, lost>>

(* UPDATE ... WHERE placement_recorded = false; the person's own stop is    *)
(* passed over.  Mutant: without the fence.                                 *)
UnclaimedAny(t) == TRUE
Unclaimed(t) == placed[t].recorded = "no"

Claim(t, h) ==
    /\ teacher[t][h].pc = "claim"
    /\ IF Unclaimed(t)
          THEN /\ placed' = [placed EXCEPT ![t].recorded =
                                IF teacher[t][h].outcome = "stopped" THEN "skipped" ELSE "yes"]
               /\ Goes(t, h, IF teacher[t][h].outcome = "stopped" THEN Waiting
                             ELSE [teacher[t][h] EXCEPT !.pc = "read"])
          ELSE Goes(t, h, Waiting) /\ UNCHANGED placed
    /\ UNCHANGED <<taught, lost>>

(* record: the learned row as it is now ...                                 *)
ReadRow(t, h) ==
    /\ teacher[t][h].pc = "read"
    /\ Goes(t, h, [teacher[t][h] EXCEPT !.pc = "write", !.row = taught[placed[t].key]])
    /\ UNCHANGED <<placed, taught, lost>>

(* ... learn(), and the row it returns written over it.                     *)
Learned(row, outcome) ==
    [ok |-> IF outcome = "done" THEN row.ok + 1 ELSE row.ok, n |-> row.n + 1]

Upsert(t, h) ==
    /\ teacher[t][h].pc = "write"
    /\ taught' = [taught EXCEPT ![placed[t].key] = Learned(teacher[t][h].row, teacher[t][h].outcome)]
    /\ Goes(t, h, Waiting)
    /\ UNCHANGED <<placed, lost>>

(* The server restarts, or a statement fails: the outcome is not learned.   *)
Loses(t, h) ==
    /\ teacher[t][h].pc # "idle"
    /\ lost < MaxLost
    /\ lost' = lost + 1
    /\ Goes(t, h, Waiting)
    /\ UNCHANGED <<placed, taught>>

NextPlacement ==
    \E t \in Tasks :
        \/ \E agent \in Harnesses, noCloud \in BOOLEAN, onlyFree \in BOOLEAN, explained \in BOOLEAN :
               Start(t, agent, noCloud, onlyFree, explained)
        \/ \E outcome \in {"done", "failed", "stopped"} : Ends(t, outcome)
        \/ Continue(t)
        \/ \E h \in Handlers : \/ Sees(t, h) \/ Claim(t, h) \/ ReadRow(t, h)
                               \/ Upsert(t, h) \/ Loses(t, h)

Spec == InitPlacement /\ [][NextPlacement]_plvars

-----------------------------------------------------------------------------

Claimed(k) == {t \in Tasks : placed[t].key = k /\ placed[t].recorded = "yes"}

(* A task teaches the placement of its agent at most once, however often it *)
(* ends, is continued, and its ends are delivered (recordPlacementOutcome,  *)
(* "exactly once"): the counts never exceed the tasks that ended.           *)
TaughtOnce ==
    \A k \in Harnesses : taught[k].ok <= taught[k].n /\ taught[k].n <= Cardinality(Claimed(k))

(* "Record one placement outcome at the task's end, exactly once"           *)
(* (run-tasks.js:188): violated without any failure when two tasks of a     *)
(* person end together, since both write the row they read.                 *)
EveryEndTeaches ==
    (lost = 0 /\ \A t \in Tasks : \A h \in Handlers : teacher[t][h].pc = "idle")
        => \A k \in Harnesses : taught[k].n >= Cardinality(Claimed(k))
==============================================================================
