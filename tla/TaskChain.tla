------------------------------ MODULE TaskChain ------------------------------
(***************************************************************************)
(* The timeline of one coding task, one ending after the other: an attempt *)
(* runs and ends (run-tasks.js recordState), the engine decides (afterEnd, *)
(* attempts.js decide), and the task gets a follow-up attempt or its       *)
(* outcome; after an outcome the owner may carry the task on               *)
(* (continueTask). Races between these steps are RunTasks' subject; here   *)
(* every decision is taken at once, so what is checked is the decision.    *)
(***************************************************************************)
EXTENDS Engine

CONSTANTS Settings, MaxAttempts

(* What may happen to a task: who starts it and whether its owner may carry it
   on, how its attempts may end, and the bound on their number. *)
Setting == [starts : SUBSET Runners,            \* the harnesses the owner may name
            tier : Tiers,                       \* what router.classify makes of the brief
            owner : BOOLEAN,                    \* the owner may continue it
            reasons : SUBSET Reasons,           \* what an attempt may fail for
            hits : SUBSET {"steps", "minutes", "usd", "tokens"},    \* the budgets it may reach
            facts : SUBSET Facts,               \* what its log may say
            rooms : SUBSET SUBSET Runners,      \* the runners the fleet may have room on
            gaps : SUBSET Nat,                  \* seconds between two attempts
            bound : 1..MaxAttempts]

VARIABLES
    attempts,   \* the task's rows of codes_attempts, in order
    outcome,    \* run_tasks.outcome, "none" while there is none
    facts,      \* what the last attempt's log says
    fleet,      \* the runners the fleet had room on when it was last read
    setting     \* what may happen to this task

vars == <<attempts, outcome, facts, fleet, setting>>

Attempt ==
    [runner : Runners, state : AttemptStates, reason : Reasons \cup {"none"}, kind : Kinds,
     parent : 0..MaxAttempts, hit : {"none", "steps", "minutes", "usd", "tokens"},
     session : BOOLEAN, created : Nat]

NewAttempt(runner, kind, parent, created) ==
    [runner |-> runner, state |-> "queued", reason |-> "none", kind |-> kind, parent |-> parent,
     hit |-> "none", session |-> FALSE, created |-> created]

(* The row of an attempt that ended. *)
Closed(a, state, reason, hit, session) ==
    [a EXCEPT !.state = state, !.reason = reason, !.hit = hit, !.session = session]

Ending == attempts[Len(attempts)]

TypeOK ==
    /\ attempts \in Seq(Attempt) /\ Len(attempts) \in 1..MaxAttempts
    /\ outcome \in Outcomes \cup {"none"}
    /\ facts \in Facts
    /\ fleet \in SUBSET Runners
    /\ setting \in Settings

Init ==
    /\ setting \in Settings
    /\ \E r \in setting.starts : attempts = <<NewAttempt(r, "first", 0, 0)>>
    /\ outcome = "none"
    /\ facts = NoFacts
    /\ fleet \in setting.rooms

(* How an attempt may end. One at its budget is a budget-stop, never a plain
   failure; what no decision reads is the same every time. *)
MayEnd(state, reason, hit, session, said) ==
    /\ state = "done" => reason = "error"
    /\ state = "stopped" => reason = "stopped"
    /\ state = "budget-stopped" => reason = "budget"
    /\ state = "failed" => reason \in setting.reasons
    /\ (state = "budget-stopped") <=> (hit # "none")
    /\ state # "failed" => ~session /\ said = NoFacts

(* recordState on a terminal state: the attempt's own state and reason. *)
RecordEnd ==
    /\ Ending.state = "queued"
    /\ \E state \in {"done", "failed", "stopped", "budget-stopped"},
          reason \in Reasons, hit \in setting.hits \cup {"none"}, session \in BOOLEAN, said \in setting.facts :
        /\ MayEnd(state, reason, hit, session, said)
        /\ attempts' = [attempts EXCEPT ![Len(attempts)] = Closed(@, state, reason, hit, session)]
        /\ facts' = said
    /\ fleet' \in setting.rooms
    /\ UNCHANGED <<outcome, setting>>

(* afterEnd and startFollowUp: the decision, carried out. *)
AfterEnd ==
    /\ Ending.state \in Ended
    /\ outcome = "none"
    /\ \E gap \in setting.gaps :
        LET plan == Decide(attempts, facts, setting.tier, fleet)
        IN  \/ /\ plan.outcome # "none"
               /\ outcome' = plan.outcome
               /\ UNCHANGED attempts
            \/ /\ plan.kind # "none"
               /\ Len(attempts) < setting.bound
               /\ attempts' = Append(attempts, NewAttempt(plan.runner, plan.kind, Len(attempts),
                                                          Ending.created + gap))
               /\ UNCHANGED outcome
    /\ UNCHANGED <<facts, fleet, setting>>

(* continueTask: the owner carries the task on, with the same agent or another. *)
ContinueTask ==
    /\ setting.owner
    /\ outcome \in {"done", "unfinished"}
    /\ Len(attempts) < setting.bound
    /\ \E gap \in setting.gaps :
        \/ attempts' = Append(attempts, NewAttempt(Ending.runner, "manual", 0, Ending.created + gap))
        \/ \E r \in setting.starts :
             attempts' = Append(attempts, NewAttempt(r, "switch", 0, Ending.created + gap))
    /\ outcome' = "none"
    /\ UNCHANGED <<facts, fleet, setting>>

Next == RecordEnd \/ AfterEnd \/ ContinueTask

Spec == Init /\ [][Next]_vars

-------------------------------------------------------------------------------
Automatic(i) == attempts[i].parent # 0

(* No attempt after i was written a minute or more after the one before it. *)
Unbroken(i) ==
    \A j \in i..(Len(attempts) - 1) : attempts[j + 1].created - attempts[j].created < 60

(* Deciding after an ending looks at that ending or at one close to it: the chain
   the engine settles (annotate, chainEnd) never reaches back over a minute in
   which no attempt was written. *)
DecidesNearTheEnd ==
    Ending.state \in Ended =>
        LET end == ChainEnd(attempts, Resolved(attempts))
        IN  end \in DOMAIN attempts /\ Unbroken(end)

(* A task is called done only on work that is done and close to its last attempt:
   what was done before a minute without a new attempt never stands in for the
   attempt that just failed (chain.js annotate's later attempts, step). *)
DoneIsRecent ==
    outcome = "done" => \E i \in DOMAIN attempts : attempts[i].state = "done" /\ Unbroken(i)

(* Only the last attempt makes a task done. It does not hold: within a minute the
   engine takes an earlier attempt for what ended a later one (chain.js:217). *)
DoneMeansFinished == outcome = "done" => Ending.state = "done"

(* The owner's money is a hard stop: no attempt follows up one that ran out of
   dollars or tokens, neither a wrap-up turn nor another agent (decide). *)
MoneyIsAHardStop ==
    \A i \in DOMAIN attempts :
        Automatic(i) => attempts[attempts[i].parent].hit \notin {"usd", "tokens"}

(* A wrap-up is the last word of its turn: it follows a steps or minutes stop
   and is never itself wrapped up (budget.js wrapUp, step's end.wrapUp). *)
WrapUpOnce ==
    \A i \in DOMAIN attempts : attempts[i].kind = "wrap-up" =>
        LET p == attempts[attempts[i].parent]
        IN  p.kind # "wrap-up" /\ p.hit \in {"steps", "minutes"}

(* The engine never hands a task to Claude, and a switch leaves the agent that
   stopped unless only its model was busy (FALLBACK_ORDER, nextAgent). *)
SwitchGoesElsewhere ==
    \A i \in DOMAIN attempts : attempts[i].kind = "switch" /\ Automatic(i) =>
        LET p == attempts[attempts[i].parent]
        IN  /\ attempts[i].runner # "claude"
            /\ attempts[i].runner # p.runner \/ p.reason = "capacity"

(* Without the owner, a task that only crashes, hits limits and spends its steps
   settles: switches stop at the fourth attempt, MaxContinues continues follow,
   and each attempt that is not a wrap-up buys one at most. (A context that
   keeps overflowing restarts, and a turn cap without a session switches,
   without any such bound.) *)
AutomaticChainBounded ==
    (/\ ~setting.owner
     /\ {"context", "turns"} \cap setting.reasons = {}
     /\ \A f \in setting.facts : f.api # "context")
        => Len(attempts) <= 2 * MaxContinues + 5

(* What attempts.js nextAgent says of the fleet: no job goes to an agent whose
   window is full or that is not signed in on any machine. *)
SwitchHasRoom ==
    [][(AfterEnd /\ attempts' # attempts /\ attempts'[Len(attempts')].kind = "switch")
            => attempts'[Len(attempts')].runner \in fleet]_vars
===============================================================================
