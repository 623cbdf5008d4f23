------------------------------- MODULE Conductor -------------------------------
(***************************************************************************)
(* One conductor (server/domain/conductor.js): a task whose single attempt  *)
(* is a conversation. Every message is a turn, every turn a Run job that    *)
(* resumes its agent's session; messages wait in codes_conductor_messages   *)
(* while a turn runs. Run's events and documents reach it through           *)
(* recordState and afterEnd (server/domain/run-tasks.js), of which this     *)
(* module has the conductor's branch.                                       *)
(*                                                                          *)
(* Every request, delivery, page view and pump is a handler that runs up to *)
(* its next await in one step. OpenVibe.Run is external: job n is the one   *)
(* submitted under the key of message n. A session is named by the job that *)
(* left it behind. Announcements (Outbox) and session lines are left out.   *)
(***************************************************************************)
EXTENDS Integers, FiniteSets

CONSTANTS
    Handlers,       \* the handlers that may be in flight at once
    Agents, Primary,
    JobEnds,        \* how a turn's job may end: [state, result]
    MaxTurns,       \* bound: messages
    Faults,         \* what may go wrong: "crash", "choose", "refused", "lost"
    MaxFaults,      \* bound: how often
    Streams,        \* TRUE: pump can follow a job's stream to its end (else it gives up)
    MayStop,        \* the person may stop the conductor
    MayRetarget     \* ... and may change its agent

Turns == 1..MaxTurns
Terminal == {"succeeded", "failed", "cancelled"}
RunStates == {"queued", "running"} \cup Terminal
Rank == [s \in RunStates |-> CASE s = "queued" -> 0 [] s = "running" -> 2 [] OTHER -> 3]

ASSUME ConductorAssumption ==
    /\ Primary \in Agents /\ MaxTurns \in Nat /\ MaxFaults \in Nat
    /\ "none" \notin Agents
    /\ JobEnds \subseteq [state : Terminal, result : {"yes", "no"}]
    /\ Faults \subseteq {"crash", "choose", "refused", "lost"}
    /\ Streams \in BOOLEAN /\ MayStop \in BOOLEAN /\ MayRetarget \in BOOLEAN

VARIABLES
    row,       \* the conductor's row of run_tasks
    att,       \* its one attempt
    msgs,      \* codes_conductor_messages
    inbox,     \* codes_events_inbox
    jobs,      \* OpenVibe.Run's jobs
    pumped,    \* the jobs whose stream was followed to its end
    h,         \* the handlers
    faults,
    stopped    \* the person was told that the conductor stopped (history)

vars == <<row, att, msgs, inbox, jobs, pumped, h, faults, stopped>>

Maybe(S) == S \cup {0}
Row == [state : RunStates \cup {"none"}, outcome : {"none", "unfinished", "stopped"},
        job : Maybe(Turns), result : Maybe(Turns), agent : Agents]
Attempt == [state : {"none", "queued", "running", "waiting", "done", "failed", "stopped"}, session : Maybe(Turns)]
Message == [state : {"none", "queued", "running", "done", "failed", "stopped"}, job : Maybe(Turns),
            agent : Agents \cup {"none"}, result : Maybe(Turns), session : Maybe(Turns)]
NoMessage == [state |-> "none", job |-> 0, agent |-> "none", result |-> 0, session |-> 0]
(* A job: the agent its turn asked for, the session it was told to resume, the
   result it left (its own number, or none) and whether its cancel was asked. *)
Job == [state : RunStates \cup {"none"}, agent : Agents \cup {"none"}, resume : Maybe(Turns),
        result : Maybe(Turns), cancel : {"yes", "no"}]
NoJob == [state |-> "none", agent |-> "none", resume |-> 0, result |-> 0, cancel |-> "no"]

Events == Turns \X RunStates
Steps == {"idle", "attempt", "write", "take", "choose", "submit", "refused", "bind", "apply", "ended",
          "land", "stop", "stop attempt", "stop messages"}
Handler == [pc : Steps, n : Maybe(Turns), state : RunStates \cup {"none"}, result : Maybe(Turns),
            agent : Agents \cup {"none"}, resume : Maybe(Turns), event : {"yes", "no"}]
Idle == [pc |-> "idle", n |-> 0, state |-> "none", result |-> 0, agent |-> "none", resume |-> 0,
         event |-> "no"]

Go(p, to) == h' = [h EXCEPT ![p] = to]
Done(p) == Go(p, Idle)
Free(p) == h[p].pc = "idle"

Fault(kind) == kind \in Faults /\ faults < MaxFaults /\ faults' = faults + 1
Alive(n) == jobs[n].state \in {"queued", "running"}

-------------------------------------------------------------------------------
(* create: the row, then the attempt, then the hand-over message. *)
Create(p) ==
    /\ Free(p) /\ row.state = "none"
    /\ row' = [row EXCEPT !.state = "queued"]
    /\ Go(p, [Idle EXCEPT !.pc = "attempt"])
    /\ UNCHANGED <<att, msgs, inbox, jobs, pumped, faults, stopped>>

CreateAttempt(p) ==
    /\ h[p].pc = "attempt"
    /\ att' = IF att.state = "none" THEN [att EXCEPT !.state = "queued"] ELSE att
    /\ Go(p, [Idle EXCEPT !.pc = "write"])
    /\ UNCHANGED <<row, msgs, inbox, jobs, pumped, faults, stopped>>

(* message: the person writes, and may hand the conductor to another agent. *)
Write(p) ==
    /\ Free(p) /\ row.state # "none"
    /\ \E n \in Turns : msgs[n].state = "none"
    /\ \E a \in Agents :
        /\ a = row.agent \/ MayRetarget
        /\ row' = [row EXCEPT !.agent = a]
    /\ Go(p, [Idle EXCEPT !.pc = "write"])
    /\ UNCHANGED <<att, msgs, inbox, jobs, pumped, faults, stopped>>

(* enqueue: the next message, unless the conductor was stopped. *)
Enqueue(p) ==
    /\ h[p].pc = "write"
    /\ IF row.outcome = "stopped" THEN Done(p) /\ UNCHANGED msgs
       ELSE \E n \in Turns :
                /\ \A m \in Turns : msgs[m].state = "none" <=> m >= n
                /\ msgs' = [msgs EXCEPT ![n] = [NoMessage EXCEPT !.state = "queued"]]
                /\ Go(p, [Idle EXCEPT !.pc = "take"])
    /\ UNCHANGED <<row, att, inbox, jobs, pumped, faults, stopped>>

(* Mutant: any waiting message may be next. *)
AnyTurn(n) == msgs[n].state = "queued" /\ row.outcome # "stopped" /\ \A m \in Turns : msgs[m].state # "running"

(* startNext: the oldest message that waits, if no turn runs. *)
NextTurn(n) ==
    /\ row.outcome # "stopped"
    /\ \A m \in Turns : msgs[m].state # "running"
    /\ msgs[n].state = "queued" /\ \A m \in 1..(n - 1) : msgs[m].state # "queued"

(* startNext: the message is taken with the row locked. *)
Take(p) ==
    /\ h[p].pc = "take"
    /\ IF \A n \in Turns : ~NextTurn(n) THEN Done(p) /\ UNCHANGED <<row, msgs>>
       ELSE \E n \in Turns :
                /\ NextTurn(n)
                /\ msgs' = [msgs EXCEPT ![n].state = "running"]
                /\ row' = [row EXCEPT !.state = "queued", !.outcome = "none"]
                (* The handler keeps the conductor's agent and the attempt's session as read here. *)
                /\ Go(p, [Idle EXCEPT !.pc = "choose", !.n = n, !.agent = row.agent, !.resume = att.session])
    /\ UNCHANGED <<att, inbox, jobs, pumped, faults, stopped>>

(* s is the session agent a left behind last, before turn n. *)
LastOwn(n, a, s) ==
    LET own == {m \in 1..(n - 1) : /\ msgs[m].session # 0
                                   /\ (IF msgs[m].agent = "none" THEN Primary ELSE msgs[m].agent) = a}
    IN  IF own = {} THEN s = 0
        ELSE \E m \in own : s = msgs[m].session /\ \A k \in own : k <= m

(* Mutant: the attempt's session, whichever agent left it. *)
ResumeAttempts(n, pick, lead, session, s) == s = session

(* startNext: what the turn resumes: its agent's own session, or the attempt's
   when the conductor's agent leads and no earlier turn names an agent. *)
Resume(n, pick, lead, session, s) ==
    IF /\ LastOwn(n, pick, 0) /\ pick = lead
       /\ \A m \in 1..(n - 1) : msgs[m].agent = "none"
    THEN s = session ELSE LastOwn(n, pick, s)

(* startNext: the failover picks the turn's agent; when that fails, the turn
   runs on the conductor's own with the attempt's session. *)
Choose(p) ==
    /\ h[p].pc = "choose"
    /\ \/ \E a \in Agents, s \in Maybe(Turns) :
            /\ Resume(h[p].n, a, h[p].agent, h[p].resume, s)
            /\ msgs' = [msgs EXCEPT ![h[p].n].agent = a]
            /\ Go(p, [h[p] EXCEPT !.pc = "submit", !.agent = a, !.resume = s])
            /\ UNCHANGED faults
       \/ /\ Fault("choose")
          /\ Go(p, [h[p] EXCEPT !.pc = "submit"])
          /\ UNCHANGED msgs
    /\ UNCHANGED <<row, att, inbox, jobs, pumped, stopped>>

(* startNext: run.submit under the message's key: Run takes the job, refuses
   it, or takes it and the answer is lost. *)
Submit(p) ==
    /\ h[p].pc = "submit"
    /\ LET n == h[p].n
           job == [NoJob EXCEPT !.state = "queued", !.agent = h[p].agent, !.resume = h[p].resume]
       IN  \/ /\ jobs' = [jobs EXCEPT ![n] = job]
              /\ Go(p, [h[p] EXCEPT !.pc = "bind"])
              /\ UNCHANGED faults
           \/ /\ Fault("refused")
              /\ Go(p, [h[p] EXCEPT !.pc = "refused"])
              /\ UNCHANGED jobs
           \/ /\ Fault("lost")
              /\ jobs' = [jobs EXCEPT ![n] = job]
              /\ Go(p, [h[p] EXCEPT !.pc = "refused"])
    /\ UNCHANGED <<row, att, msgs, inbox, pumped, stopped>>

(* startNext: the turn could not start; the message and the row say so. *)
Refused(p) ==
    /\ h[p].pc = "refused"
    /\ msgs' = [msgs EXCEPT ![h[p].n].state = "failed"]
    /\ row' = [row EXCEPT !.state = "failed", !.outcome = "unfinished"]
    /\ Done(p)
    /\ UNCHANGED <<att, inbox, jobs, pumped, faults, stopped>>

(* startNext: the job is the turn's, the attempt's and the row's. *)
Bind(p) ==
    /\ h[p].pc = "bind"
    /\ att' = IF att.state = "none" THEN att ELSE [att EXCEPT !.state = "queued"]
    /\ msgs' = [msgs EXCEPT ![h[p].n].job = h[p].n]
    /\ row' = [row EXCEPT !.job = h[p].n, !.state = "queued"]
    /\ Done(p)
    /\ UNCHANGED <<inbox, jobs, pumped, faults, stopped>>

-------------------------------------------------------------------------------
(* A run.job.* delivery: of the job the row names, or consumed without effect. *)
Deliver(p, e) ==
    /\ Free(p) /\ e \notin inbox
    /\ jobs[e[1]].state = e[2] \/ (e[2] = "running" /\ jobs[e[1]].state \in Terminal)
    /\ e[2] # "queued"
    /\ IF row.job # e[1] THEN inbox' = inbox \cup {e} /\ UNCHANGED h
       ELSE /\ Go(p, [Idle EXCEPT !.pc = "apply", !.n = e[1], !.state = e[2], !.event = "yes",
                                  !.result = IF e[2] \in Terminal THEN jobs[e[1]].result ELSE 0])
            /\ UNCHANGED inbox
    /\ UNCHANGED <<row, att, msgs, jobs, pumped, faults, stopped>>

(* refresh: the decision that was not made, or Run's own word about a turn
   nothing was heard of. *)
Refresh(p) ==
    /\ Free(p) /\ row.job # 0
    /\ IF row.state \in Terminal
       THEN row.outcome = "none" /\ Go(p, [Idle EXCEPT !.pc = "ended"])
       ELSE Go(p, [Idle EXCEPT !.pc = "apply", !.n = row.job, !.state = jobs[row.job].state,
                               !.result = jobs[row.job].result])
    /\ UNCHANGED <<row, att, msgs, inbox, jobs, pumped, faults, stopped>>

(* pump: the turn's stream ended; unless the row ended too, its job is read. *)
Pump(p, n) ==
    /\ Streams /\ Free(p) /\ n \notin pumped /\ msgs[n].job = n /\ jobs[n].state \in Terminal
    /\ pumped' = pumped \cup {n}
    /\ IF row.state \in Terminal THEN UNCHANGED h
       ELSE Go(p, [Idle EXCEPT !.pc = "apply", !.n = n, !.state = jobs[n].state, !.result = jobs[n].result])
    /\ UNCHANGED <<row, att, msgs, inbox, jobs, faults, stopped>>

(* recordState: never backwards, and a terminal state is final. *)
Ignored(s) == Rank[s] < Rank[row.state] \/ (row.state \in Terminal /\ row.state # s)

(* recordState: COALESCE(new result, the one on the row). *)
Coalesce(r) == IF r # 0 THEN r ELSE row.result

(* applyEvent, applyJob: recordState with the row locked; an event is consumed
   in the same transaction. The attempt waits for the person, with the session
   of the result on the row. *)
Apply(p) ==
    /\ h[p].pc = "apply"
    /\ LET e == <<h[p].n, h[p].state>>
           result == Coalesce(h[p].result)
       IN  IF h[p].event = "yes" /\ e \in inbox THEN Done(p) /\ UNCHANGED <<row, att, inbox>>
           ELSE /\ inbox' = IF h[p].event = "yes" THEN inbox \cup {e} ELSE inbox
                /\ IF Ignored(h[p].state) THEN UNCHANGED <<row, att>>
                   ELSE /\ row' = [row EXCEPT !.state = h[p].state, !.result = result]
                        /\ att' = IF row.job = 0 \/ att.state = "none" THEN att
                                  ELSE IF h[p].state \in Terminal
                                    THEN [state |-> "waiting", session |-> IF result # 0 THEN result ELSE att.session]
                                    ELSE [att EXCEPT !.state = "running"]
                /\ Go(p, [Idle EXCEPT !.pc = "ended"])
    /\ UNCHANGED <<msgs, jobs, pumped, faults, stopped>>

(* afterEnd: the row, read without a lock; a stopped one is left alone. *)
ReadEnded(p) ==
    /\ h[p].pc = "ended"
    /\ IF row.state \notin Terminal \/ row.outcome = "stopped" THEN Done(p)
       ELSE Go(p, [Idle EXCEPT !.pc = "land", !.n = row.job])
    /\ UNCHANGED <<row, att, msgs, inbox, jobs, pumped, faults, stopped>>

(* onTurnEnd: the turn of the job is the one that runs. *)
Lands(n) == n # 0 /\ msgs[n].job = n /\ msgs[n].state = "running"

(* A message that waits or runs is stopped. *)
Halted(m) == IF m.state \in {"queued", "running"} THEN [m EXCEPT !.state = "stopped"] ELSE m

(* onTurnEnd: done when the job succeeded. *)
DoneOrFailed == IF row.state = "succeeded" THEN "done" ELSE "failed"

(* onTurnEnd: the message with the answer, the agent and the session the
   result on the row names. *)
Landed(n) ==
    [msgs[n] EXCEPT !.state = DoneOrFailed,
                    !.result = row.result,
                    !.agent = IF row.result # 0 THEN jobs[row.result].agent
                              ELSE IF @ # "none" THEN @ ELSE row.agent,
                    !.session = IF row.result # 0 THEN row.result
                                ELSE IF msgs[n].agent = "none" THEN att.session ELSE 0]

(* Mutant: what waits is left to the person's next message. *)
NeverStartNext == FALSE

(* onTurnEnd: a message waits. *)
Waits == \E n \in Turns : msgs[n].state = "queued"

(* onTurnEnd: the message of the job that ended is landed, the row says when
   the turn did not finish, and the next message is started. *)
OnTurnEnd(p) ==
    /\ h[p].pc = "land"
    /\ IF row.outcome = "stopped"
       THEN msgs' = [n \in Turns |-> Halted(msgs[n])] /\ Done(p) /\ UNCHANGED row
       ELSE IF h[p].n # 0 /\ row.job # 0 /\ row.job # h[p].n
       THEN Done(p) /\ UNCHANGED <<row, msgs>>
       ELSE LET ended == IF h[p].n # 0 THEN h[p].n ELSE row.job
            IN  /\ msgs' = IF Lands(ended) THEN [msgs EXCEPT ![ended] = Landed(ended)] ELSE msgs
                /\ row' = IF ~Waits /\ row.state # "succeeded" THEN [row EXCEPT !.outcome = "unfinished"] ELSE row
                /\ IF Waits THEN Go(p, [Idle EXCEPT !.pc = "take"]) ELSE Done(p)
    /\ UNCHANGED <<att, inbox, jobs, pumped, faults, stopped>>

-------------------------------------------------------------------------------
(* attempts.list: a task without attempts gets its first one written. *)
Listed ==
    IF att.state # "none" THEN att
    ELSE [att EXCEPT !.state = CASE row.state = "succeeded" -> "done"
                                 [] row.state = "cancelled" -> "stopped"
                                 [] OTHER -> row.state]

(* stopTask: the job of the row as read is asked to cancel. *)
Stop(p) ==
    /\ MayStop /\ Free(p) /\ row.state # "none"
    /\ att' = Listed
    /\ jobs' = IF row.job # 0 /\ row.state \notin Terminal
               THEN [jobs EXCEPT ![row.job].cancel = "yes"] ELSE jobs
    /\ Go(p, [Idle EXCEPT !.pc = "stop", !.event = IF Listed.state \in {"done", "failed", "stopped"} THEN "no" ELSE "yes"])
    /\ UNCHANGED <<row, msgs, inbox, pumped, faults, stopped>>

(* stopTask: the row, locked; one that ended with an outcome stays. *)
StopRow(p) ==
    /\ h[p].pc = "stop"
    /\ IF row.state \in Terminal /\ row.outcome # "none" THEN Done(p) /\ UNCHANGED row
       ELSE /\ row' = [row EXCEPT !.state = "cancelled", !.outcome = "stopped"]
            /\ Go(p, [h[p] EXCEPT !.pc = "stop attempt"])
    /\ UNCHANGED <<att, msgs, inbox, jobs, pumped, faults, stopped>>

(* stopTask: the attempt that ran when the stop began. *)
StopAttempt(p) ==
    /\ h[p].pc = "stop attempt"
    /\ att' = IF h[p].event = "yes" THEN [att EXCEPT !.state = "stopped"] ELSE att
    /\ Go(p, [Idle EXCEPT !.pc = "stop messages"])
    /\ UNCHANGED <<row, msgs, inbox, jobs, pumped, faults, stopped>>

(* stop: the running turn and every waiting message; the person is told. *)
StopMessages(p) ==
    /\ h[p].pc = "stop messages"
    /\ msgs' = [n \in Turns |-> Halted(msgs[n])]
    /\ stopped' = "yes"
    /\ Done(p)
    /\ UNCHANGED <<row, att, inbox, jobs, pumped, faults>>

-------------------------------------------------------------------------------
(* A handler is dropped: the server crashes, or a statement fails and the
   error is logged or answered. *)
Crash(p) ==
    /\ ~Free(p) /\ Fault("crash")
    /\ Done(p)
    /\ UNCHANGED <<row, att, msgs, inbox, jobs, pumped, stopped>>

(* OpenVibe.Run: a job starts and ends; one asked to cancel may be cancelled. *)
RunStarts(n) ==
    /\ jobs[n].state = "queued"
    /\ jobs' = [jobs EXCEPT ![n].state = "running"]
    /\ UNCHANGED <<row, att, msgs, inbox, pumped, h, faults, stopped>>

RunEnds(n) ==
    /\ Alive(n)
    /\ \E end \in JobEnds \cup (IF jobs[n].cancel = "yes" THEN {[state |-> "cancelled", result |-> "no"]} ELSE {}) :
        jobs' = [jobs EXCEPT ![n].state = end.state, ![n].result = IF end.result = "yes" THEN n ELSE 0]
    /\ UNCHANGED <<row, att, msgs, inbox, pumped, h, faults, stopped>>

Init ==
    /\ row = [state |-> "none", outcome |-> "none", job |-> 0, result |-> 0, agent |-> Primary]
    /\ att = [state |-> "none", session |-> 0]
    /\ msgs = [n \in Turns |-> NoMessage]
    /\ inbox = {} /\ pumped = {}
    /\ jobs = [n \in Turns |-> NoJob]
    /\ h = [p \in Handlers |-> Idle]
    /\ faults = 0 /\ stopped = "no"

StartNext(p) == Take(p) \/ Choose(p) \/ Submit(p) \/ Refused(p) \/ Bind(p)
GoesOn(p) ==
    \/ CreateAttempt(p) \/ Enqueue(p) \/ StartNext(p) \/ Apply(p) \/ ReadEnded(p) \/ OnTurnEnd(p)
    \/ StopRow(p) \/ StopAttempt(p) \/ StopMessages(p)

Next ==
    \/ \E p \in Handlers :
        \/ Create(p) \/ Write(p) \/ Stop(p) \/ Refresh(p) \/ GoesOn(p) \/ Crash(p)
        \/ \E e \in Events : Deliver(p, e)
        \/ \E n \in Turns : Pump(p, n)
    \/ \E n \in Turns : RunStarts(n) \/ RunEnds(n)

Spec == Init /\ [][Next]_vars

(* Fairness: awaits come back, Run's jobs end, and the conductor's page is looked
   at again (refresh reads Run after ten quiet minutes). *)
Fairness ==
    /\ \A p \in Handlers : WF_vars(GoesOn(p)) /\ WF_vars(Refresh(p))
    /\ \A n \in Turns : WF_vars(RunEnds(n))

FairSpec == Spec /\ Fairness

-------------------------------------------------------------------------------
TypeOK ==
    /\ row \in Row /\ att \in Attempt
    /\ msgs \in [Turns -> Message]
    /\ inbox \subseteq Events /\ pumped \subseteq Turns
    /\ jobs \in [Turns -> Job]
    /\ h \in [Handlers -> Handler]
    /\ faults \in Nat /\ stopped \in {"yes", "no"}

(* The conversation runs one turn at a time and in the order it was written:
   when a turn has started, no earlier message waits or runs, whoever presses,
   delivers or looks at the same time (startNext: "two presses start one turn
   and not two"). *)
TurnsInOrder ==
    \A n \in Turns : msgs[n].state \in {"running", "done", "failed"} =>
        \A m \in 1..(n - 1) : msgs[m].state \notin {"queued", "running"}

(* Never two sessions in the conductor's folder: at most one of its jobs is
   alive at Run ("One task, one attempt, many turns"). *)
OneSession == \A m, n \in Turns : Alive(m) /\ Alive(n) => m = n

(* A message landed as done is one whose own job succeeded; one landed as
   failed under a job, one whose job ended otherwise (onTurnEnd). *)
LandedAsItsJob ==
    \A n \in Turns :
        /\ msgs[n].state = "done" => jobs[n].state = "succeeded"
        /\ msgs[n].state = "failed" /\ msgs[n].job # 0 => jobs[n].state \in Terminal \ {"succeeded"}

(* The answer and the session on a message are those of its own turn
   (onTurnEnd: "The session this turn ended with"). *)
ResultIsTheTurns == \A n \in Turns : msgs[n].result \in {0, n} /\ msgs[n].session \in {0, n}

(* A turn resumes only a session its own agent left behind (header: "Each agent
   keeps its own session"). *)
ResumesOwnSession == \A n \in Turns : jobs[n].resume # 0 => jobs[jobs[n].resume].agent = jobs[n].agent

(* What a message landed as is never changed by a later or a second delivery,
   view or pump (onTurnEnd). *)
LandedIsFinal ==
    [][\A n \in Turns : msgs[n].state \in {"done", "failed"} => msgs'[n] = msgs[n]]_vars

(* "Unfinished" is said of a turn that ended, never while one runs (onTurnEnd:
   "a second, racing call is a no-op"). *)
OutcomeMeansEnded == row.outcome = "unfinished" => row.state \in Terminal

(* Once the person was told that the conductor stopped and nothing is in flight,
   no job of it is alive that was not asked to cancel (stop: "nothing carries
   on"). *)
NothingCarriesOn ==
    stopped = "yes" /\ (\A p \in Handlers : Free(p)) => \A n \in Turns : Alive(n) => jobs[n].cancel = "yes"

(* Every message is answered, fails or is stopped: "when the turn ends the next
   queued message starts" (conductor.js, onTurnEnd and startNext). *)
EveryMessageLands ==
    \A n \in Turns : msgs[n].state = "queued" ~> msgs[n].state \in {"done", "failed", "stopped"}

(* Where no call fails and the server does not crash, every message lands: an
   ending that is delivered early, late, twice or not at all (then refresh reads
   it) never leaves the queue standing. *)
MessagesLand == [](faults = 0) => EveryMessageLands
===============================================================================
