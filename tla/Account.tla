------------------------------- MODULE Account -------------------------------
(***************************************************************************)
(* The deletion of a person's account (server/account-data.js): the SDK    *)
(* erases the tables that name the person, then extraErase reads the ids   *)
(* of their tasks, erases what hangs under those ids, the tasks, the       *)
(* skills after their share rows, and the other share rows they own: one   *)
(* transaction, one statement a table, read committed.  The person's other *)
(* handlers go on meanwhile: a task starts, a job's event or a stream      *)
(* writes rows under a task it read before.  Nothing but the ids ties      *)
(* those rows to a task (no foreign key).  A share row cannot go while     *)
(* another person's membership refers to it (migrations/0026_shares.sql).  *)
(***************************************************************************)
EXTENDS Naturals, Sequences, FiniteSets

CONSTANTS
    Tasks,       \* the person's tasks
    Writers,     \* the handlers that write beside the deletion
    Own,         \* tables that name the person (TABLES)
    Keyed,       \* tables that hang under a task (TASK_KEYED)
    MaxAborts    \* bound: deletions that fail or die and are delivered again

VARIABLES
    rows,      \* what is committed: its table, its task and who wrote it
    writer,    \* where each handler is and the task it read
    erase,     \* the deletion: the step it is at, the ids it read, the rows its statements took
    aborts

acvars == <<rows, writer, erase, aborts>>

Row(table, k, by) == [table |-> table, task |-> k, by |-> by]
TasksHeld == {r.task : r \in {x \in rows : x.table = "run_tasks"}}
Tables == Own \cup Keyed \cup {"run_tasks", "skill_shares", "skills", "shares"}
Quiet == [pc |-> "idle", n |-> 0, ids |-> {}, gone |-> {}, before |-> {}]

InitAccount ==
    /\ \E held \in SUBSET Tasks : \E shared \in SUBSET held :
        rows = {Row(t, k, "before") : t \in Tables, k \in held} \cup {Row("members", k, "before") : k \in shared}
    /\ writer = [w \in Writers |-> [pc |-> "idle", task |-> "none"]]
    /\ erase = Quiet
    /\ aborts = 0

(* tasks.start: the row of a new task, and its handler goes on to the first *)
(* attempt.                                                                 *)
Start(w, k) ==
    /\ writer[w].pc = "idle"
    /\ k \notin TasksHeld /\ \A r \in rows : r.task # k
    /\ rows' = rows \cup {Row("run_tasks", k, w)}
    /\ writer' = [writer EXCEPT ![w] = [pc |-> "write", task |-> k]]
    /\ UNCHANGED <<erase, aborts>>

(* An event or a stream's page reads the task it is about ...               *)
Look(w, k) ==
    /\ writer[w].pc = "idle"
    /\ k \in TasksHeld
    /\ writer' = [writer EXCEPT ![w] = [pc |-> "write", task |-> k]]
    /\ UNCHANGED <<rows, erase, aborts>>

(* ... and writes a row under it, or one that names the person.             *)
Write(w, table) ==
    /\ writer[w].pc = "write"
    /\ rows' = rows \cup {Row(table, writer[w].task, w)}
    /\ writer' = [writer EXCEPT ![w].pc = "done"]
    /\ UNCHANGED <<erase, aborts>>

(* network.account.deleted is delivered, again if it failed.                *)
Begin ==
    /\ erase.pc = "idle"
    /\ erase' = [Quiet EXCEPT !.pc = "erase", !.n = 1, !.before = rows]
    /\ UNCHANGED <<rows, writer, aborts>>

(* The statements, in order.                                                *)
TasksFirst ==
    <<"own", "run_tasks", "ids", "keyed", "skill_shares", "skills", "shares">>

Statements ==
    <<"own", "ids", "keyed", "run_tasks", "skill_shares", "skills", "shares">>

(* What a statement takes: of the rows committed by then, and not taken.    *)
Takes(what) ==
    {r \in rows :
        \/ what = "own" /\ r.table \in Own
        \/ what = "keyed" /\ r.table \in Keyed /\ r.task \in erase.ids
        \/ what \in {"run_tasks", "skill_shares", "skills", "shares"} /\ r.table = what}

Seen == {r.task : r \in {x \in rows \ erase.gone : x.table = "run_tasks"}}

(* The members of a skill go with it; those of a task are left.             *)
Refused(what) == what = "shares" /\ \E r \in rows : r.table = "members"

Statement ==
    /\ erase.pc = "erase"
    /\ erase.n <= Len(Statements)
    /\ ~Refused(Statements[erase.n])
    /\ LET what == Statements[erase.n]
       IN  erase' = [erase EXCEPT !.n = erase.n + 1,
                                  !.ids = IF what = "ids" THEN Seen ELSE erase.ids,
                                  !.gone = erase.gone \cup Takes(what)]
    /\ UNCHANGED <<rows, writer, aborts>>

Commit ==
    /\ erase.pc = "erase"
    /\ erase.n > Len(Statements)
    /\ rows' = rows \ erase.gone
    /\ erase' = [erase EXCEPT !.pc = "erased"]
    /\ UNCHANGED <<writer, aborts>>

(* A statement fails or Codes stops: everything is rolled back.             *)
Abort ==
    /\ erase.pc = "erase"
    /\ aborts < MaxAborts
    /\ aborts' = aborts + 1
    /\ erase' = Quiet
    /\ UNCHANGED <<rows, writer>>

(* The foreign key refuses the statement: everything is rolled back.        *)
Refuse ==
    /\ erase.pc = "erase"
    /\ erase.n <= Len(Statements)
    /\ Refused(Statements[erase.n])
    /\ erase' = Quiet
    /\ UNCHANGED <<rows, writer, aborts>>

NextAccount ==
    \/ \E w \in Writers :
        \/ \E k \in Tasks : Start(w, k) \/ Look(w, k)
        \/ \E t \in Own \cup Keyed : Write(w, t)
    \/ Begin \/ Statement \/ Commit \/ Abort \/ Refuse

Spec == InitAccount /\ [][NextAccount]_acvars

-----------------------------------------------------------------------------

TypeOK ==
    /\ rows \subseteq [table : Tables \cup {"members"}, task : Tasks, by : Writers \cup {"before"}]
    /\ writer \in [Writers -> [pc : {"idle", "write", "done"}, task : Tasks \cup {"none"}]]
    /\ erase.pc \in {"idle", "erase", "erased"} /\ erase.n \in 0..(Len(Statements) + 1)
    /\ erase.ids \subseteq Tasks
    /\ aborts \in 0..MaxAborts

(* A deletion takes all that was there when it began, of every table, or    *)
(* nothing: whatever else is written meanwhile, and however often it fails  *)
(* and is delivered again (extraErase).                                     *)
ErasedIsGone ==
    /\ erase.pc = "erased" => erase.before \cap rows = {}
    /\ erase.pc = "erase" => erase.before \subseteq rows

(* Not so: "the share rows they own carry their subject too", "so they are   *)
(* erased in extraErase" (account-data.js).  A task of theirs with another   *)
(* member keeps the whole deletion from ever committing.                     *)
DeletionGoesThrough == erase.pc = "erase" /\ erase.n <= Len(Statements) => ~Refused(Statements[erase.n])

(* "Every row hangs under a task and is erased with it" (migrations/0016),  *)
(* "Deletion erases everything task-keyed and then the tasks"               *)
(* (account-data.js): no row is left without its task.                      *)
NothingIsOrphaned == \A r \in rows : r.table \in Keyed => r.task \in TasksHeld
=============================================================================
