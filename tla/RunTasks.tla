------------------------------- MODULE RunTasks -------------------------------
(***************************************************************************)
(* One coding task of OpenVibe.Codes, from the press of "start" to its     *)
(* outcome: server/domain/run-tasks.js over the tables run_tasks,          *)
(* codes_attempts, codes_task_proof and codes_notices, with the consumer   *)
(* of Run's events (server/events-consumer.js) and the codes.task.*        *)
(* announcements (server/events/outbox.js emitTask).                       *)
(*                                                                         *)
(* Every request, delivery and page view is a handler: it runs up to its   *)
(* next await in one step, so each action below is one database statement  *)
(* or transaction, or one call of OpenVibe.Run; consecutive reads that no  *)
(* property tells apart are one step. A crash of the server drops every    *)
(* handler where it stands. What a handler keeps between two steps is in   *)
(* h[p]: the row it read, the Run document or event it applies, the        *)
(* attempt it works for and the engine's plan.                             *)
(*                                                                         *)
(* OpenVibe.Run is external: job n is the one submitted under the          *)
(* idempotency key of attempt n; its events are delivered at least once,   *)
(* in any order.                                                           *)
(***************************************************************************)
EXTENDS Engine

CONSTANTS
    Handlers,       \* the handlers that may be in flight at once
    JobEnds,        \* how a Run job may end: [state, error, result]
    RunsFirst,      \* TRUE: a job is seen running before it ends
    MaxAttempts,    \* bound: attempts of the task
    MaxFaults,      \* bound: crashes, failed calls and lost answers together
    MaxPresses,     \* bound: the owner's presses of continue, stop and cancel
    CrashAt,        \* the steps of a handler at which the server may crash
    MayExhaust      \* the task's budget may run out

AttemptIds == 1..MaxAttempts
Terminal == {"succeeded", "failed", "cancelled", "expired"}
TaskStates == {"queued", "placed", "running"} \cup Terminal
Rank == [s \in TaskStates |-> CASE s = "queued" -> 0 [] s = "placed" -> 1
                                [] s = "running" -> 2 [] OTHER -> 3]
Groups == {"queued", "running", "succeeded", "failed", "cancelled"}

(* What the machine's result says: its proof, the limit it reached and whether
   it names a session. NoResult: Run has no result document for the job. *)
Results == [proof : {"none", "ok", "bad"}, hit : {"none", "steps", "usd"}, session : BOOLEAN]
NoResult == [proof |-> "no result", hit |-> "none", session |-> FALSE]
Errors == {"none"} \cup Reasons
JobEndType == [state : Terminal, error : Errors, result : Results \cup {NoResult}]

ASSUME RunTasksAssumption ==
    /\ JobEnds \subseteq JobEndType
    /\ RunsFirst \in BOOLEAN /\ MayExhaust \in BOOLEAN
    /\ MaxAttempts \in Nat \ {0} /\ MaxFaults \in Nat /\ MaxPresses \in Nat

VARIABLES
    task,      \* the row of run_tasks ("none" before it is written)
    att,       \* the task's rows of codes_attempts, in order
    proof,     \* codes_task_proof: what attempt n's proof says
    notices,   \* codes_notices: the kinds the person was told
    learned,   \* the placement outcome that was recorded
    said,      \* the state the last codes.task.* event announced
    inbox,     \* codes_events_inbox: the events consumed
    applied,   \* how often each event reached recordState (history)
    jobs,      \* OpenVibe.Run's jobs
    sent,      \* the run.job.* events OpenVibe.Events holds
    h,         \* the handlers
    faults, presses

db == <<task, att, proof, notices, learned, said>>
vars == <<db, inbox, applied, jobs, sent, h, faults, presses>>

Row == [state : TaskStates \cup {"none"}, outcome : Outcomes \cup {"none"}, job : {0} \cup AttemptIds,
        error : Errors, result : Results \cup {NoResult}]
NoRow == [state |-> "none", outcome |-> "none", job |-> 0, error |-> "none", result |-> NoResult]

Attempt == [state : AttemptStates, reason : Errors, kind : Kinds, parent : {0} \cup AttemptIds,
            job : {0} \cup AttemptIds, hit : {"none", "steps", "usd"}, session : BOOLEAN]
NewAttempt(kind, parent) ==
    [state |-> "queued", reason |-> "none", kind |-> kind, parent |-> parent, job |-> 0,
     hit |-> "none", session |-> FALSE]

Job == [state : TaskStates \cup {"none"}, error : Errors, result : Results \cup {NoResult}]
NoJob == [state |-> "none", error |-> "none", result |-> NoResult]

Event == [job : AttemptIds, state : TaskStates]

(* What a handler applies: an event's or a Run document's state and result. *)
Doc == [job : {0} \cup AttemptIds, state : TaskStates \cup {"none"}, error : Errors,
        result : Results \cup {NoResult}]
NoDoc == [job |-> 0, state |-> "none", error |-> "none", result |-> NoResult]

DocOf(job) == [NoDoc EXCEPT !.job = job]

Ops == {"none", "start", "event", "refresh", "follow", "continue", "stop", "cancel"}
Steps == {"idle", "create", "submit", "failAttempt", "failRow", "bind", "setJob", "emit", "read", "apply",
          "ended", "decide", "outcome", "tell", "learn", "follow", "check", "budget", "lock", "cancelJob",
          "stopRow", "stopAttempt"}
Handler == [pc : Steps, op : Ops, row : Row, doc : Doc, n : {0} \cup AttemptIds,
            outcome : Outcomes \cup {"none"}, kind : Kinds \cup {"none"}]
Idle == [pc |-> "idle", op |-> "none", row |-> NoRow, doc |-> NoDoc, n |-> 0,
         outcome |-> "none", kind |-> "none"]

-------------------------------------------------------------------------------
GroupOf(state) ==
    CASE state \in {"placed", "running"} -> "running"
      [] state \in {"failed", "expired"} -> "failed"
      [] state = "none"                  -> "none"
      [] OTHER                           -> state

(* emitTask: the event is written unless the announced group stays the same. *)
EmitTask(state, previous) ==
    said' = IF GroupOf(state) = GroupOf(previous) THEN said ELSE GroupOf(state)

(* The attempt's own state for a task's or a job's state. *)
AttemptState(state) ==
    CASE state \in {"queued", "placed"}  -> "queued"
      [] state = "running"               -> "running"
      [] state = "succeeded"             -> "done"
      [] state = "cancelled"             -> "stopped"
      [] OTHER                           -> "failed"

ReasonOf(state, error) ==
    IF state = "cancelled" THEN "stopped"
    ELSE IF state = "expired" THEN "capacity"
    ELSE IF error = "none" THEN "error" ELSE error

(* attempts.list: a task without attempts gets its first one written. *)
Listed ==
    IF att # <<>> \/ task.state = "none" THEN att
    ELSE <<[NewAttempt("first", 0) EXCEPT !.state = AttemptState(task.state), !.job = task.job]>>

Live(a) == a.state \notin Ended

SomeLive(as) == \E i \in DOMAIN as : Live(as[i])

(* attempts.end and the usage an ended attempt keeps. *)
EndedAttempt(a, state, result, error) ==
    LET why     == ReasonOf(state, error)
        refused == result.hit = "usd"
        hit     == IF refused \/ (result.hit = "steps" /\ why \in {"error", "hung", "context"})
                   THEN result.hit ELSE "none"
    IN  [a EXCEPT !.state = IF hit # "none" THEN "budget-stopped" ELSE AttemptState(state),
                  !.reason = IF hit # "none" THEN "budget" ELSE why,
                  !.hit = IF hit # "none" THEN hit ELSE @,
                  !.session = @ \/ result.session]

(* recordState ignores what it does not know, what would move the task
   backwards and what would move it away from its end. *)
Ignored(next) ==
    \/ next.state \notin TaskStates \/ task.state = "none"
    \/ Rank[next.state] < Rank[task.state]
    \/ task.state \in Terminal /\ task.state # next.state

(* recordState: the row, and the attempt of the row's job, follow the state. *)
RecordState(next) ==
    IF Ignored(next) THEN UNCHANGED <<task, att, said>>
    ELSE LET result == IF next.state \in Terminal /\ next.result # NoResult
                       THEN next.result ELSE task.result
             error  == IF next.state \in Terminal /\ next.error # "none"
                       THEN next.error ELSE task.error
         IN  /\ task' = [task EXCEPT !.state = next.state, !.result = result, !.error = error]
             /\ EmitTask(next.state, task.state)
             /\ att' = [i \in DOMAIN att |->
                          IF task.job = 0 \/ att[i].job # task.job THEN att[i]
                          ELSE IF next.state \in Terminal
                               THEN EndedAttempt(att[i], next.state, result, error)
                               ELSE [att[i] EXCEPT !.state = AttemptState(next.state)]]

(* attempts.decide, on this task's attempts: 90 seconds apart, one agent. *)
Decision(as) ==
    Decide([i \in DOMAIN as |->
              [runner |-> "mm", state |-> as[i].state, reason |-> as[i].reason, kind |-> as[i].kind,
               parent |-> as[i].parent, hit |-> as[i].hit, session |-> as[i].session,
               created |-> 90 * i]],
           NoFacts, "standard", Runners)

(* proof.js outcomeOf: evidence that failed unmakes a done. *)
OutcomeOf(collected, verdict) ==
    IF collected = "bad" /\ verdict = "done" THEN "unfinished" ELSE verdict

-------------------------------------------------------------------------------
Fault == faults < MaxFaults /\ faults' = faults + 1
NoFault == UNCHANGED faults
Press == presses < MaxPresses /\ presses' = presses + 1

Go(p, r) == h' = [h EXCEPT ![p] = r]
Goto(p, step) == h' = [h EXCEPT ![p].pc = step]
Done(p) == h' = [h EXCEPT ![p] = Idle]

(* start: the row and its announcement, in one transaction. *)
StartTask(p) ==
    /\ h[p] = Idle /\ task.state = "none"
    /\ task' = [task EXCEPT !.state = "queued"]
    /\ EmitTask("queued", "none")
    /\ Go(p, [Idle EXCEPT !.pc = "create", !.op = "start", !.kind = "first"])
    /\ UNCHANGED <<att, proof, notices, learned, inbox, applied, jobs, sent, faults, presses>>

(* start: the first attempt. *)
CreateFirst(p) ==
    /\ h[p].pc = "create"
    /\ Len(att) < MaxAttempts
    /\ att' = Append(att, NewAttempt("first", 0))
    /\ Go(p, [h[p] EXCEPT !.pc = "submit", !.n = Len(att) + 1])
    /\ UNCHANGED <<task, proof, notices, learned, said, inbox, applied, jobs, sent, faults, presses>>

(* run.submit under the attempt's key: accepted, refused, or accepted with its
   answer lost. *)
Submit(p) ==
    /\ h[p].pc = "submit"
    /\ \/ /\ jobs' = [jobs EXCEPT ![h[p].n] = [NoJob EXCEPT !.state = "queued"]]
          /\ \/ NoFault /\ Goto(p, "bind")
             \/ Fault /\ Goto(p, "failAttempt")
       \/ Fault /\ UNCHANGED jobs /\ Goto(p, "failAttempt")
    /\ UNCHANGED <<db, inbox, applied, sent, presses>>

(* The submit failed: the attempt ends. *)
FailAttempt(p) ==
    /\ h[p].pc = "failAttempt"
    /\ att' = [att EXCEPT ![h[p].n] = [@ EXCEPT !.state = "failed", !.reason = "error"]]
    /\ Goto(p, "failRow")
    /\ UNCHANGED <<task, proof, notices, learned, said, inbox, applied, jobs, sent, faults, presses>>

(* ... and the task needs a person: start and continueTask fail the row, an
   automatic follow-up leaves its state alone; only start announces it. *)
FailRow(p) ==
    /\ h[p].pc = "failRow"
    /\ task' = IF h[p].op = "follow" THEN [task EXCEPT !.outcome = "unfinished"]
               ELSE [task EXCEPT !.state = "failed", !.error = "error", !.outcome = "unfinished"]
    /\ IF h[p].op = "start" THEN EmitTask("failed", "queued") ELSE UNCHANGED said
    /\ Go(p, [h[p] EXCEPT !.pc = "tell", !.row = task'])
    /\ UNCHANGED <<att, proof, notices, learned, inbox, applied, jobs, sent, faults, presses>>

(* attempts.bind: the attempt carries its Run job. *)
Bound(a, job) == [a EXCEPT !.job = job, !.state = "queued"]

Bind(p) ==
    /\ h[p].pc = "bind"
    /\ att' = [att EXCEPT ![h[p].n] = Bound(@, h[p].n)]
    /\ Goto(p, "setJob")
    /\ UNCHANGED <<task, proof, notices, learned, said, inbox, applied, jobs, sent, faults, presses>>

(* The row gets the job, whatever happened to it since the handler read it.
   start writes the job's state too, a follow-up clears the outcome. *)
SetJob(p) ==
    /\ h[p].pc = "setJob"
    /\ task' = CASE h[p].op = "start"    -> [task EXCEPT !.job = h[p].n, !.state = "queued"]
                 [] h[p].op = "follow"   -> [task EXCEPT !.job = h[p].n, !.state = "queued",
                                                         !.outcome = "none", !.error = "none"]
                 [] OTHER                -> [task EXCEPT !.job = h[p].n]
    /\ IF h[p].op = "start" THEN Done(p)
       ELSE Go(p, [h[p] EXCEPT !.pc = "emit", !.doc = [NoDoc EXCEPT !.state = task'.state]])
    /\ UNCHANGED <<att, proof, notices, learned, said, inbox, applied, jobs, sent, faults, presses>>

(* A follow-up's emitTask, after its update. *)
Emit(p) ==
    /\ h[p].pc = "emit"
    /\ EmitTask(h[p].doc.state, h[p].row.state)
    /\ Done(p)
    /\ UNCHANGED <<task, att, proof, notices, learned, inbox, applied, jobs, sent, faults, presses>>

-------------------------------------------------------------------------------
(* Mutant: the task is found by the subject, whatever its job. *)
AnyJob(e) == task.job # 0

(* handleRun finds the task of an event by its job. *)
Ours(e) == task.job = e.job

(* handleRun, up to its first await: an event of a job that is not the task's
   job is recorded and forgotten; the end of the task's job is read from Run. *)
DeliverEvent(p) ==
    /\ h[p] = Idle
    /\ \E e \in sent \ inbox :
        IF ~Ours(e)
        THEN inbox' = inbox \cup {e} /\ UNCHANGED h
        ELSE /\ Go(p, [Idle EXCEPT !.op = "event", !.pc = IF e.state \in Terminal THEN "read" ELSE "apply",
                                   !.doc = [NoDoc EXCEPT !.job = e.job, !.state = e.state]])
             /\ UNCHANGED inbox
    /\ UNCHANGED <<db, applied, jobs, sent, faults, presses>>

(* Mutant: the fallback looks at running tasks only. *)
RefreshRunning(p) ==
    /\ h[p] = Idle /\ task.job # 0 /\ task.state \notin Terminal
    /\ Go(p, [Idle EXCEPT !.op = "refresh", !.pc = "read", !.doc = DocOf(task.job)])
    /\ UNCHANGED <<db, inbox, applied, jobs, sent, faults, presses>>

(* refresh: the fallback reads Run, or takes the decision nobody took. *)
Refresh(p) ==
    /\ h[p] = Idle /\ task.job # 0
    /\ \/ /\ task.state \in Terminal /\ task.outcome = "none"
          /\ Go(p, [Idle EXCEPT !.op = "refresh", !.pc = "ended"])
       \/ /\ task.state \notin Terminal
          /\ Go(p, [Idle EXCEPT !.op = "refresh", !.pc = "read", !.doc = DocOf(task.job)])
    /\ UNCHANGED <<db, inbox, applied, jobs, sent, faults, presses>>

(* run.read: a failure ends the handler (the delivery is retried). *)
ReadJob(p) ==
    /\ h[p].pc = "read"
    /\ \/ LET j == jobs[h[p].doc.job]
              state == IF h[p].op = "event" THEN h[p].doc.state ELSE j.state
          IN  /\ Go(p, [h[p] EXCEPT !.pc = "apply",
                           !.doc = [job |-> @.job, state |-> state, error |-> j.error, result |-> j.result]])
              /\ NoFault
       \/ Fault /\ Done(p)
    /\ UNCHANGED <<db, inbox, applied, jobs, sent, presses>>

(* The inbox row is there already: a delivery that was applied meanwhile. *)
Duplicate(e) == e \in inbox

(* applyEvent with its inbox row, or applyJob: recordState, then afterEnd. *)
Apply(p) ==
    /\ h[p].pc = "apply"
    /\ LET e == [job |-> h[p].doc.job, state |-> h[p].doc.state]
       IN  IF h[p].op = "event" /\ Duplicate(e)
           THEN Done(p) /\ UNCHANGED <<task, att, said, inbox, applied>>
           ELSE /\ RecordState(h[p].doc)
                /\ IF h[p].op = "event"
                   THEN /\ inbox' = inbox \cup {e}
                        /\ applied' = [applied EXCEPT ![e] = @ + 1]
                   ELSE UNCHANGED <<inbox, applied>>
                /\ Go(p, [h[p] EXCEPT !.pc = "ended", !.doc = NoDoc])
    /\ UNCHANGED <<proof, notices, learned, jobs, sent, faults, presses>>

-------------------------------------------------------------------------------
(* Mutant: a stopped task is decided about like any other. *)
DecideStoppedToo == task.state \notin Terminal

(* afterEnd: nothing is decided about a task that runs or that was stopped. *)
NothingToDecide == task.state \notin Terminal \/ task.outcome = "stopped"

(* afterEnd: the row, read without a lock. *)
ReadEnded(p) ==
    /\ h[p].pc = "ended"
    /\ IF NothingToDecide THEN Done(p)
       ELSE Go(p, [h[p] EXCEPT !.pc = "decide", !.row = task])
    /\ UNCHANGED <<db, inbox, applied, jobs, sent, faults, presses>>

(* afterEnd: the last attempt's proof is kept (once), the engine decides, and
   the evidence this call stored is weighed against its verdict. *)
DecideEnded(p) ==
    /\ h[p].pc = "decide"
    /\ att' = Listed
    /\ LET n == Len(Listed)
           fresh == h[p].row.result.proof \in {"ok", "bad"} /\ proof[n] = "none"
           collected == IF fresh THEN h[p].row.result.proof ELSE "none"
           plan == Decision(Listed)
       IN  IF Live(Listed[n])
           THEN Done(p) /\ UNCHANGED proof
           ELSE /\ proof' = IF fresh THEN [proof EXCEPT ![n] = collected] ELSE proof
                /\ IF plan.outcome # "none"
                   THEN Go(p, [h[p] EXCEPT !.pc = "outcome", !.n = n,
                                           !.outcome = OutcomeOf(collected, plan.outcome)])
                   ELSE IF plan.kind # "none"
                        THEN Go(p, [h[p] EXCEPT !.pc = "follow", !.n = n, !.kind = plan.kind])
                        ELSE Done(p)
    /\ UNCHANGED <<task, notices, learned, said, inbox, applied, jobs, sent, faults, presses>>

(* afterEnd: the outcome. *)
WriteOutcome(p) ==
    /\ h[p].pc = "outcome"
    /\ task' = [task EXCEPT !.outcome = h[p].outcome]
    /\ Go(p, [h[p] EXCEPT !.pc = "tell", !.row = task'])
    /\ UNCHANGED <<att, proof, notices, learned, said, inbox, applied, jobs, sent, faults, presses>>

(* recordPlacementOutcome: once per task, a stopped one teaches nothing. *)
Learn(row) ==
    learned' = IF learned # "none" THEN learned
               ELSE IF row.state = "cancelled" \/ row.outcome = "stopped" THEN "skipped" ELSE row.outcome

(* notifyOutcome: the notice of an outcome. *)
NoticeOf(outcome) ==
    CASE outcome = "done"       -> {"done"}
      [] outcome = "unfinished" -> {"needs"}
      [] OTHER                  -> {}

(* notifyOutcome claims one notice per kind; then the placement learns. *)
Tell(p) ==
    /\ h[p].pc \in {"tell", "learn"}
    /\ notices' = IF h[p].pc = "learn" THEN notices
                  ELSE notices \cup NoticeOf(h[p].row.outcome)
    /\ Learn(h[p].row)
    /\ Done(p)
    /\ UNCHANGED <<task, att, proof, said, inbox, applied, jobs, sent, faults, presses>>

(* Mutant: no fence. *)
NeverFenced(ending) == FALSE

(* attempts.create with followUpOf: the fence is the unique follow_up_of. *)
Fenced(ending) == \E i \in DOMAIN att : att[i].parent = ending

(* The budget is spent: the task ends there. *)
Exhausted(p) ==
    /\ MayExhaust
    /\ task' = [task EXCEPT !.outcome = "unfinished"]
    /\ Go(p, [h[p] EXCEPT !.pc = "learn", !.row = task'])
    /\ UNCHANGED att

(* startFollowUp, up to its submit. *)
FollowUp(p) ==
    /\ h[p].pc = "follow"
    /\ \/ Exhausted(p)
       \/ Fenced(h[p].n) /\ Done(p) /\ UNCHANGED <<task, att>>
       \/ /\ ~Fenced(h[p].n)
          /\ Len(att) < MaxAttempts
          /\ att' = Append(att, NewAttempt(h[p].kind, h[p].n))
          /\ Go(p, [h[p] EXCEPT !.pc = "submit", !.op = "follow", !.n = Len(att) + 1])
          /\ UNCHANGED task
    /\ UNCHANGED <<proof, notices, learned, said, inbox, applied, jobs, sent, faults, presses>>

-------------------------------------------------------------------------------
(* continueTask, first read: a live attempt answers the press. *)
ContinueTask(p) ==
    /\ h[p] = Idle /\ task.state # "none" /\ Press
    /\ att' = Listed
    /\ IF SomeLive(Listed) THEN UNCHANGED h
       ELSE Go(p, [Idle EXCEPT !.op = "continue", !.pc = "check", !.row = task])
    /\ UNCHANGED <<task, proof, notices, learned, said, inbox, applied, jobs, sent, faults>>

(* continueTask carries on a task that ended and was not stopped. *)
Continuable == task.state \in Terminal /\ task.outcome # "stopped"

(* continueTask: the row read again. *)
CheckContinue(p) ==
    /\ h[p].pc = "check"
    /\ IF Continuable THEN Goto(p, "budget") ELSE Done(p)
    /\ UNCHANGED <<db, inbox, applied, jobs, sent, faults, presses>>

(* continueTask: the budget that is left. *)
BudgetContinue(p) ==
    /\ h[p].pc = "budget"
    /\ \/ Exhausted(p)
       \/ Goto(p, "lock") /\ UNCHANGED <<task, att>>
    /\ UNCHANGED <<proof, notices, learned, said, inbox, applied, jobs, sent, faults, presses>>

(* The row of a task that is carried on. *)
ContinuedRow == [task EXCEPT !.state = "queued", !.outcome = "none", !.error = "none", !.job = 0]

(* continueTask: the attempt and the reset row, with the row locked. *)
LockContinue(p) ==
    /\ h[p].pc = "lock"
    /\ IF ~Continuable THEN Done(p) /\ UNCHANGED <<task, att>>
       ELSE /\ Len(att) < MaxAttempts
            /\ att' = Append(att, NewAttempt("manual", 0))
            /\ task' = ContinuedRow
            /\ Go(p, [h[p] EXCEPT !.pc = "submit", !.n = Len(att) + 1])
    /\ UNCHANGED <<proof, notices, learned, said, inbox, applied, jobs, sent, faults, presses>>

(* The latest live attempt of as is the n-th; 0: none is live. *)
LatestLive(as, n) ==
    IF SomeLive(as) THEN n \in DOMAIN as /\ Live(as[n]) /\ \A k \in (n + 1)..Len(as) : ~Live(as[k])
    ELSE n = 0

(* stopTask and the cancel route, first read: the latest live attempt. *)
StopTask(p) ==
    /\ h[p] = Idle /\ task.state # "none" /\ Press
    /\ LET asked == task.job # 0 /\ task.state \notin Terminal
       IN  \/ \E last \in 0..Len(Listed) :
              /\ LatestLive(Listed, last)
              /\ att' = Listed
              /\ Go(p, [Idle EXCEPT !.op = "stop", !.pc = IF asked THEN "cancelJob" ELSE "stopRow",
                                    !.doc = DocOf(task.job), !.n = last])
           \/ /\ asked
              /\ Go(p, [Idle EXCEPT !.op = "cancel", !.pc = "cancelJob", !.doc = DocOf(task.job)])
              /\ UNCHANGED att
    /\ UNCHANGED <<task, proof, notices, learned, said, inbox, applied, jobs, sent, faults>>

(* run.cancel, best effort. *)
CancelJob(p) ==
    /\ h[p].pc = "cancelJob"
    /\ LET j == h[p].doc.job
       IN  \/ /\ jobs[j].state \notin Terminal
              /\ jobs' = [jobs EXCEPT ![j].state = "cancelled"]
              /\ sent' = sent \cup {[job |-> j, state |-> "cancelled"]}
              /\ NoFault
           \/ jobs[j].state \in Terminal /\ NoFault /\ UNCHANGED <<jobs, sent>>
           \/ Fault /\ UNCHANGED <<jobs, sent>>
    /\ Goto(p, IF h[p].op = "stop" THEN "stopRow" ELSE "read")
    /\ UNCHANGED <<db, inbox, applied, presses>>

(* stopTask: the row, locked; a task that has its outcome is left alone. *)
StopRow(p) ==
    /\ h[p].pc = "stopRow"
    /\ IF task.state \in Terminal /\ task.outcome # "none"
       THEN Done(p) /\ UNCHANGED <<task, said>>
       ELSE /\ task' = [task EXCEPT !.state = "cancelled", !.outcome = "stopped"]
            /\ EmitTask("cancelled", task.state)
            /\ IF h[p].n = 0 THEN Done(p) ELSE Goto(p, "stopAttempt")
    /\ UNCHANGED <<att, proof, notices, learned, inbox, applied, jobs, sent, faults, presses>>

(* stopTask: the attempt it found live, ended. *)
StopAttempt(p) ==
    /\ h[p].pc = "stopAttempt"
    /\ att' = [att EXCEPT ![h[p].n] = [@ EXCEPT !.state = "stopped", !.reason = "stopped"]]
    /\ Done(p)
    /\ UNCHANGED <<task, proof, notices, learned, said, inbox, applied, jobs, sent, faults, presses>>

(* A page of the task: its timeline lists the attempts. *)
ViewTimeline(p) ==
    /\ h[p] = Idle /\ att = <<>> /\ task.state # "none"
    /\ att' = Listed
    /\ UNCHANGED <<task, proof, notices, learned, said, inbox, applied, jobs, sent, h, faults, presses>>

(* The server dies: every handler is gone where it stood. *)
Crash ==
    /\ Fault
    /\ \E p \in Handlers : h[p].pc \in CrashAt
    /\ h' = [p \in Handlers |-> Idle]
    /\ UNCHANGED <<db, inbox, applied, jobs, sent, presses>>

-------------------------------------------------------------------------------
(* OpenVibe.Run: a job starts, a job ends; each is an event. *)
RunStarts(j) ==
    /\ RunsFirst /\ jobs[j].state = "queued"
    /\ jobs' = [jobs EXCEPT ![j].state = "running"]
    /\ sent' = sent \cup {[job |-> j, state |-> "running"]}
    /\ UNCHANGED <<db, inbox, applied, h, faults, presses>>

RunEnds(j) ==
    /\ jobs[j].state = IF RunsFirst THEN "running" ELSE "queued"
    /\ \E e \in JobEnds :
        /\ jobs' = [jobs EXCEPT ![j] = e]
        /\ sent' = sent \cup {[job |-> j, state |-> e.state]}
    /\ UNCHANGED <<db, inbox, applied, h, faults, presses>>

Init ==
    /\ task = NoRow /\ att = <<>> /\ said = "none"
    /\ proof = [n \in AttemptIds |-> "none"]
    /\ notices = {} /\ learned = "none"
    /\ inbox = {} /\ applied = [e \in Event |-> 0]
    /\ jobs = [j \in AttemptIds |-> NoJob] /\ sent = {}
    /\ h = [p \in Handlers |-> Idle]
    /\ faults = 0 /\ presses = 0

(* A handler that has begun goes on. *)
Continues(p) ==
    \/ CreateFirst(p) \/ Submit(p) \/ FailAttempt(p) \/ FailRow(p) \/ Bind(p) \/ SetJob(p) \/ Emit(p)
    \/ ReadJob(p) \/ Apply(p) \/ ReadEnded(p) \/ WriteOutcome(p) \/ Tell(p) \/ FollowUp(p)
    \/ CheckContinue(p) \/ BudgetContinue(p) \/ LockContinue(p) \/ CancelJob(p) \/ StopRow(p) \/ StopAttempt(p)

Next ==
    \/ \E p \in Handlers :
          StartTask(p) \/ DeliverEvent(p) \/ Refresh(p) \/ ContinueTask(p) \/ StopTask(p)
          \/ ViewTimeline(p) \/ DecideEnded(p) \/ Continues(p)
    \/ Crash
    \/ \E j \in AttemptIds : RunStarts(j) \/ RunEnds(j)

Spec == Init /\ [][Next]_vars

(* Fairness: a handler that awaits a statement or a call gets its answer (for
   DecideEnded, always enabled at its step, weak fairness is written out); Events
   redelivers until it is answered and a page or API view reaches refresh, both
   on a handler of their own (SF: the model's handlers are shared); Run starts
   and, with its TTL, ends every job. Presses, faults and crashes owe nothing. *)
Fairness ==
    /\ \A p \in Handlers : /\ WF_vars(Continues(p)) /\ []<>(h[p].pc # "decide")
                          /\ SF_vars(DeliverEvent(p)) /\ SF_vars(Refresh(p))
    /\ \A j \in AttemptIds : WF_vars(RunStarts(j) \/ RunEnds(j))

FairSpec == Spec /\ Fairness

-------------------------------------------------------------------------------
(* Types: in particular, every state a handler writes on a row, an attempt or a
   notice is one the tables know. *)
TypeOK ==
    /\ task \in Row
    /\ att \in Seq(Attempt) /\ Len(att) <= MaxAttempts
    /\ proof \in [AttemptIds -> {"none", "ok", "bad"}]
    /\ notices \subseteq {"done", "needs"}
    /\ learned \in {"none", "skipped", "done", "unfinished"}
    /\ said \in Groups \cup {"none"}
    /\ inbox \subseteq Event /\ applied \in [Event -> Nat]
    /\ jobs \in [AttemptIds -> Job] /\ sent \subseteq Event
    /\ h \in [Handlers -> Handler]
    /\ faults \in Nat /\ presses \in Nat

(* One ending starts at most one follow-up, however many handlers decide about
   it at once (attempts.create: follow_up_of is unique). *)
OneFollowUpPerEnding ==
    \A i, k \in DOMAIN att : att[i].parent # 0 /\ att[i].parent = att[k].parent => i = k

(* The job of the row is the job of an attempt, through every interleaving and
   crash: start, startFollowUp and continueTask bind the attempt before the row,
   so recordState's byJob finds the attempt an event is about. *)
RowsJobIsAnAttempts ==
    task.job # 0 => task.job \in DOMAIN att /\ att[task.job].job = task.job

(* A redelivered or concurrently delivered event is applied once: the inbox row
   is written in the transaction that applies it (handleRun). *)
EventAppliedOnce == \A e \in Event : applied[e] <= 1

(* A late or out-of-order state never moves the task backwards, and never from
   one end to another (recordState). *)
NeverBackwards ==
    [][\A p \in Handlers : Apply(p) =>
            /\ task.state # "none" => Rank[task'.state] >= Rank[task.state]
            /\ task.state \in Terminal => task'.state = task.state]_vars

(* A handler past the read that would have shown it a stop. *)
Unaware(p) ==
    h[p].pc \in {"create", "submit", "failAttempt", "failRow", "bind", "setJob",
                 "decide", "outcome", "follow", "budget"}

Stopped == task.outcome = "stopped" /\ \A p \in Handlers : ~Unaware(p)

(* A stop is final for everything that begins after it: once no handler is left
   that read the row before the stop, no event, refresh, press or page view
   changes the outcome, adds an attempt or gets as far as writing one (stopTask:
   "nothing carries it on"). *)
StopIsFinal == [][Stopped => Stopped' /\ Len(att') = Len(att)]_vars

(* An outcome is only on a task that has ended: carrying a task on clears it
   (startFollowUp, continueTask). *)
OutcomeMeansEnded == task.outcome # "none" => task.state \in Terminal

(* An attempt is done or failed only when its own Run job is over (recordState:
   "the attempt of this job follows the job"). *)
AttemptFollowsItsJob ==
    \A i \in DOMAIN att :
        att[i].job # 0 /\ att[i].state \in {"done", "failed", "budget-stopped"}
            => jobs[att[i].job].state \in Terminal

(* Not so: "while an attempt is still live [...] that attempt is returned, and
   no second one is started beside it. Two sessions on one worktree would fight
   over the same files" (run-tasks.js:893). A follow-up may be written between a
   press's look at the attempts and its lock of the row, and the other way round:
   two jobs of the task are then with OpenVibe.Run at once. *)
OneLiveJob ==
    \A i, k \in AttemptIds :
        jobs[i].state \in {"queued", "running"} /\ jobs[k].state \in {"queued", "running"} => i = k

(* A stopped task stays stopped (stopTask). *)
StopNeverUndone == [][task.outcome = "stopped" => task'.outcome = "stopped"]_vars

(* A task whose last attempt left failing evidence is not called done, however
   often its ending is processed (recordProof, outcomeOf). *)
EvidenceDecides ==
    task.outcome = "done" /\ att # <<>> => proof[Len(att)] # "bad"

(* A task that needs the person has told them, once its handler is through
   (notifyOutcome, notices.needs). *)
NeedsIsTold ==
    (task.outcome = "unfinished" /\ \A p \in Handlers : h[p] = Idle) => "needs" \in notices

(* What codes.task.* last announced is the state the row has, whenever no
   handler is at work (emitTask). *)
SaidIsTrue ==
    (\A p \in Handlers : h[p] = Idle) => said = GroupOf(task.state)

(* A follow-up that nobody carries on: a crash left its attempt live, beside the
   row. The fence then keeps the task from being decided about (startFollowUp). *)
LeftBehind ==
    \E i \in DOMAIN att : Live(att[i]) /\ task.job # i /\ \A p \in Handlers : h[p].n # i

(* The bound stops a handler that is about to write one attempt more. *)
AtTheBound == Len(att) = MaxAttempts /\ \E p \in Handlers : h[p].pc \in {"follow", "lock"}

(* An ended task gets its decision, its outcome or the attempt that follows:
   from the handler that ended it or, when that one failed, from refresh; unless
   a crash came between the follow-up's insert and the row that names its job. *)
DecisionIsMade ==
    (task.state \in Terminal /\ task.outcome = "none")
        ~> (task.outcome # "none" \/ task.state \notin Terminal
            \/ LeftBehind \/ AtTheBound)
===============================================================================
