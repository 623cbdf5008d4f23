------------------------------ MODULE Approvals ------------------------------
(***************************************************************************)
(* The approvals inbox (server/domain/approvals.js): a risky tool call of  *)
(* a conductor's turn asks its owner and waits.  The tool (bin/mcp.js      *)
(* `approve`) posts the call and polls for the decision; the owner decides *)
(* on the task's page, in the inbox or from the phone; a stop denies what  *)
(* waits.  `create` is two statements without a lock, so the calls of one  *)
(* turn interleave between them, and the answer to the POST may be lost.   *)
(* What the person reads of a call is its summary, SummaryOf[c].           *)
(***************************************************************************)
EXTENDS Naturals, Sequences, FiniteSets

CONSTANTS
    Calls,        \* the tool calls of the turn
    SummaryOf,    \* the one line each call shows its owner (400 characters at most)
    MaxFaults     \* bound: requests of the tool that fail or lose their answer

VARIABLES
    rows,     \* codes_approvals of the task, in the order of their insert
    call,     \* where each tool call is, the row it waits on and what it was answered
    task,     \* the conductor: "running", "stopping" (between two statements of its stop), "stopped"
    faults

vars == <<rows, call, task, faults>>

Decisions == {"none", "allow", "deny"}
Row(c) == [line |-> SummaryOf[c], decision |-> "none", by |-> "nobody"]

Init ==
    /\ rows = <<>>
    /\ call = [c \in Calls |-> [pc |-> "new", row |-> 0, answer |-> "none"]]
    /\ task = "running"
    /\ faults = 0

At(c, pc) == call[c].pc = pc
Goes(c, pc, row) == call' = [call EXCEPT ![c].pc = pc, ![c].row = row]
Answers(c, answer) == call' = [call EXCEPT ![c].pc = "done", ![c].answer = answer]
Fails == faults < MaxFaults /\ faults' = faults + 1

(* `create`, first statement: a row that still waits with the same line is  *)
(* the call's too; ORDER BY created_at DESC takes the newest.               *)
WaitsAs(c) == {i \in DOMAIN rows : rows[i].decision = "none" /\ rows[i].line = SummaryOf[c]}

Seen(c) ==
    /\ At(c, "new")
    /\ \E i \in WaitsAs(c) :
        /\ \A j \in WaitsAs(c) : j <= i
        /\ Goes(c, "created", i)
    /\ UNCHANGED <<rows, task, faults>>

NotSeen(c) ==
    /\ At(c, "new")
    /\ WaitsAs(c) = {}
    /\ Goes(c, "insert", 0)
    /\ UNCHANGED <<rows, task, faults>>

(* `create`, second statement: a row of its own; `tell` then notifies the   *)
(* owner, best effort, and changes nothing here.                            *)
Insert(c) ==
    /\ At(c, "insert")
    /\ rows' = Append(rows, Row(c))
    /\ Goes(c, "created", Len(rows) + 1)
    /\ UNCHANGED <<task, faults>>

(* The POST's answer arrives: the row as `create` read it, undecided.       *)
Created(c) ==
    /\ At(c, "created")
    /\ Goes(c, "wait", call[c].row)
    /\ UNCHANGED <<rows, task, faults>>

(* The POST fails, before it arrived or after: the tool denies the call.    *)
NotAsked(c) ==
    /\ At(c, "new") \/ At(c, "insert") \/ At(c, "created")
    /\ Fails
    /\ Answers(c, "deny")
    /\ UNCHANGED <<rows, task>>

(* One turn of the tool's loop: a long-polled GET of its row.  A GET that   *)
(* fails, and one that finds no decision within its 20 seconds, is tried    *)
(* again.                                                                   *)
AnswerOf(row) == IF row.decision = "allow" THEN "allow" ELSE "deny"

Poll(c) ==
    /\ At(c, "wait")
    /\ rows[call[c].row].decision # "none"
    /\ Answers(c, AnswerOf(rows[call[c].row]))
    /\ UNCHANGED <<rows, task, faults>>

(* APPROVAL_TIMEOUT_MS without an answer: the tool denies, the row waits on.*)
TimesOutDecided(c) ==
    /\ At(c, "wait")
    /\ rows[call[c].row].decision # "none"
    /\ Answers(c, "deny")
    /\ UNCHANGED <<rows, task, faults>>

TimesOut(c) ==
    /\ At(c, "wait")
    /\ Answers(c, "deny")
    /\ UNCHANGED <<rows, task, faults>>

(* `settle`: under FOR UPDATE, a decided row is answered as it is.          *)
SettledLast(row, decision, by) == [row EXCEPT !.decision = decision, !.by = by]

Settled(row, decision, by) ==
    IF row.decision = "none" THEN [row EXCEPT !.decision = decision, !.by = by] ELSE row

Decided(i, decision) ==
    /\ rows' = [rows EXCEPT ![i] = Settled(rows[i], decision, "owner")]
    /\ UNCHANGED <<call, task, faults>>

(* The task's page; the inbox and the phone, which know no task.  Each may  *)
(* show a row that was decided meanwhile.                                   *)
Decide(i, decision) == Decided(i, decision)
DecideAny(i, decision) == Decided(i, decision)

(* conductor.stop: the task's row and its messages, then what waits here.   *)
StopTask ==
    /\ task = "running"
    /\ task' = "stopping"
    /\ UNCHANGED <<rows, call, faults>>

Denied(row) ==
    IF row.decision = "none" THEN [row EXCEPT !.decision = "deny", !.by = "stop"] ELSE row

Stop ==
    /\ task = "stopping"
    /\ task' = "stopped"
    /\ rows' = [i \in DOMAIN rows |-> Denied(rows[i])]
    /\ UNCHANGED <<call, faults>>

Step(c) ==
    \/ Seen(c) \/ NotSeen(c) \/ Insert(c) \/ Created(c) \/ NotAsked(c)
    \/ Poll(c) \/ TimesOut(c)

Next ==
    \/ \E c \in Calls : Step(c)
    \/ \E i \in DOMAIN rows, d \in {"allow", "deny"} : Decide(i, d) \/ DecideAny(i, d)
    \/ StopTask
    \/ Stop

Spec == Init /\ [][Next]_vars

-----------------------------------------------------------------------------

TypeOK ==
    /\ rows \in Seq([line : {SummaryOf[c] : c \in Calls}, decision : Decisions,
                     by : {"nobody", "owner", "stop"}])
    /\ Len(rows) <= Cardinality(Calls)
    /\ call \in [Calls -> [pc : {"new", "insert", "created", "wait", "done"},
                           row : 0..Cardinality(Calls), answer : Decisions]]
    /\ task \in {"running", "stopping", "stopped"}
    /\ faults \in 0..MaxFaults

(* A tool call runs only when its owner allowed the row it waited on, a row *)
(* that showed the call's own line, and neither a stop nor a second press   *)
(* has taken that back: the first answer wins.                              *)
AllowedByTheOwner ==
    \A c \in Calls : call[c].answer = "allow" =>
        /\ call[c].row \in DOMAIN rows
        /\ rows[call[c].row].line = SummaryOf[c]
        /\ rows[call[c].row].decision = "allow"
        /\ rows[call[c].row].by = "owner"

(* Every call is answered: by its owner, by a stop, or by its own timeout.  *)
CallsAreAnswered == \A c \in Calls : <>(call[c].pc = "done")

(* A person is not asked the same thing twice: two rows with one line never *)
(* wait at once (the comment in `create`).                                  *)
NotAskedTwice ==
    \A i, j \in DOMAIN rows : i # j /\ rows[i].line = rows[j].line =>
        rows[i].decision # "none" \/ rows[j].decision # "none"

(* After the stop nothing waits any more (the header of approvals.js).      *)
NothingWaitsAfterStop ==
    task = "stopped" => \A i \in DOMAIN rows : rows[i].decision # "none"
=============================================================================
