-------------------------------- MODULE Engine --------------------------------
(***************************************************************************)
(* What happens to a coding task when one of its attempts ends: the pure   *)
(* part of engine/chain.js (annotate, chainEnd, detect, step, nextRunner), *)
(* engine/budget.js (wrapUp), engine/router.js (pick, on a ladder) and     *)
(* server/domain/attempts.js (engineAttempt, decide, nextAgent).           *)
(*                                                                         *)
(* A task's attempts are a sequence of records, attempt n at index n:      *)
(*   runner   the engine's id of the harness that ran it                   *)
(*   state    the attempt's state in codes_attempts                        *)
(*   reason   why it ended ("none" while it lives)                         *)
(*   kind     first | continue | switch | wrap-up | restart | manual       *)
(*   parent   the attempt it follows up (follow_up_of), 0 for none         *)
(*   hit      the budget it reached, "none" for none                       *)
(*   session  TRUE when the harness session to resume is known             *)
(*   created  when it was written, in seconds                              *)
(* The texts the engine reads with regular expressions are abstracted to   *)
(* the class the expressions put them in.                                  *)
(***************************************************************************)
EXTENDS Integers, Sequences, FiniteSets, SequencesExt

CONSTANTS
    MaxContinues,   \* CODES_TASK_MAX_CONTINUES: automatic continues of one task
    AltModels       \* the runners whose catalog offers a second model

ASSUME MaxContinuesAssumption == MaxContinues \in Nat

Switchable == {"limit", "auth", "capacity", "refused"}
Reasons == Switchable \cup {"error", "budget", "stopped", "hung", "context", "turns"}
Kinds == {"first", "continue", "switch", "wrap-up", "restart", "manual"}
AttemptStates ==
    {"queued", "running", "done", "failed", "stopped", "budget-stopped", "interrupted"}
Ended == AttemptStates \ {"queued", "running"}

Outcomes == {"done", "unfinished", "stopped"}

(* The harnesses: chain.js RUNNERS does not match Claude's id. *)
Runners == {"claude", "cx", "mm", "cc", "oc", "dsh"}
Portal(r) == r \in Runners \ {"claude"}
FallbackOrder == <<"cx", "mm", "cc", "oc", "dsh">>
Tiers == {"basic", "research", "standard", "hard", "design"}
TierOrder ==
    [basic    |-> <<"oc", "cc", "mm", "dsh">>,
     research |-> <<"cx", "mm", "dsh", "oc">>,
     standard |-> <<"mm", "cx", "cc", "oc", "dsh">>,
     hard     |-> <<"cx", "mm", "dsh">>,
     design   |-> <<"cx", "mm", "oc", "dsh">>]

-------------------------------------------------------------------------------
(* What the log of the ending attempt says (attempts.js factsOf): the class of
   its error and of its last words. *)
ApiErrors == {"none", "context", "switchable", "other"}
Finals == {"none", "incomplete", "other"}
Facts == [api : ApiErrors, final : Finals]
NoFacts == [api |-> "none", final |-> "none"]

(* chain.js reason applied to attempts.js ERROR_TEXT[reason]. *)
ReasonOfText(reason) ==
    CASE reason \in Switchable \cup {"turns"} -> reason
      [] reason = "none" -> "unknown"
      [] OTHER -> "error"

(* The class of the error the engine finds: the log's own, else the text of the
   attempt's reason. *)
ApiError(a, facts) ==
    IF facts.api # "none" THEN facts.api
    ELSE CASE a.reason \in Switchable        -> "switchable"
           [] a.reason \in {"context", "none"} -> a.reason
           [] OTHER                          -> "other"

(* The reason annotate leaves on an attempt. *)
AnnotatedReason(a) ==
    IF a.state = "budget-stopped" THEN "budget"
    ELSE IF ~Portal(a.runner) THEN a.reason
    ELSE CASE a.state = "failed"         -> ReasonOfText(a.reason)
           [] a.state = "interrupted"    -> "crash"
           [] a.state = "stopped"        -> "stopped"
           [] OTHER                      -> a.reason

(* engineAttempt: the order the engine reads the chain in, in milliseconds. *)
Updated(as, i) == 1000 * as[i].created + i

(* The attempt that carried i on (the follow-up of i), 0 for none. *)
Carried(as, i) ==
    LET kids == {k \in DOMAIN as : as[k].parent = i}
    IN  IF kids = {} THEN 0
        ELSE CHOOSE k \in kids : \A l \in kids : Updated(as, l) <= Updated(as, k)

Unresolved == [how |-> "none", by |-> 0]

(* The end of the explicit retry links from i (at most 8 hops), 0 for none. *)
LinkEnd(as, i) ==
    LET hop[h \in 0..8] ==
            IF h = 0 THEN Carried(as, i)
            ELSE LET e == hop[h - 1]
                     k == IF e = 0 THEN 0 ELSE Carried(as, e)
                 IN  IF k = 0 THEN e ELSE k
    IN  hop[7]

(* Mutant: two minutes. *)
TwoMinutes == 120000

(* How much older an attempt may be and still count as a later one (ms). *)
LaterWindow == 60000

(* Without a link: another attempt of the chain, not more than a minute older.
   A live one first, then a finished one, then the latest. *)
LaterEnd(as, i) ==
    LET later == {k \in DOMAIN as :
                    /\ k # i
                    /\ Portal(as[k].runner)
                    /\ Updated(as, k) >= Updated(as, i) - LaterWindow}
        live == {k \in later : as[k].state \in {"running", "queued"}}
        done == {k \in later : as[k].state = "done"}
        Latest(S) == CHOOSE k \in S : \A l \in S : Updated(as, l) <= Updated(as, k)
    IN  IF live # {} THEN Latest(live)
        ELSE IF done # {} THEN Latest(done)
        ELSE IF later # {} THEN Latest(later) ELSE 0

How(as, i) ==
    CASE as[i].state = "done"                    -> "done"
      [] as[i].state \in {"running", "queued"}   -> "running"
      [] OTHER                                   -> "failed"

(* annotate, first pass: what resolved each failure. *)
FirstResolved(as) ==
    [i \in DOMAIN as |->
        LET end == IF Carried(as, i) # 0 THEN LinkEnd(as, i) ELSE LaterEnd(as, i)
        IN  IF ~(Portal(as[i].runner) /\ as[i].state \in {"failed", "stopped", "interrupted"}) THEN Unresolved
            ELSE IF as[i].state = "stopped" THEN [how |-> "stopped", by |-> 0]
            ELSE IF end = 0 THEN Unresolved ELSE [how |-> How(as, end), by |-> end]]

(* settleChain: from start through what carried each attempt on and what
   resolved it, at most 12 hops, never twice through one attempt. *)
SettleChain(as, res, start) ==
    LET Onward(e) ==
            LET by == res[e].by
            IN  IF Carried(as, e) \notin {0, e} THEN Carried(as, e)
                ELSE IF by \notin {0, e, start} THEN by ELSE 0
        hop[h \in 0..12] ==
            IF h = 0 THEN [end |-> start, trail |-> {start}]
            ELSE LET t == hop[h - 1]
                     k == Onward(t.end)
                 IN  IF k = 0 \/ k \in t.trail THEN t
                     ELSE [end |-> k, trail |-> t.trail \cup {k}]
    IN  hop[12].end

(* ended: how r reads once its chain ended at end. *)
EndedAs(as, res, end) ==
    [how |-> IF as[end].state = "done" THEN "done"
             ELSE IF as[end].state \in {"running", "queued"} THEN "running"
             ELSE IF res[end].how \in {"note", "stopped"} THEN "note"
             ELSE IF as[end].state = "budget-stopped" THEN "budget" ELSE "failed",
     by  |-> end]

(* annotate, second pass, of one attempt: a step-limit stop that something
   carried on, and any other attempt that something resolved. *)
SettleStop(as, res, i) ==
    LET end == SettleChain(as, res, i)
    IN  IF as[i].state = "budget-stopped" /\ end # i THEN [res EXCEPT ![i] = EndedAs(as, res, end)] ELSE res

SettleOther(as, res, i) ==
    IF as[i].state = "budget-stopped" \/ res[i].by = 0 THEN res
    ELSE [res EXCEPT ![i] = EndedAs(as, res, SettleChain(as, res, res[i].by))]

(* The stops first, then the others, each in order: every attempt reads what the
   earlier ones left. *)
StopsSettled(as) ==
    LET settled[n \in 0..Len(as)] == IF n = 0 THEN FirstResolved(as) ELSE SettleStop(as, settled[n - 1], n)
    IN  settled[Len(as)]

Resolved(as) ==
    LET settled[n \in 0..Len(as)] == IF n = 0 THEN StopsSettled(as) ELSE SettleOther(as, settled[n - 1], n)
    IN  settled[Len(as)]

(* chainEnd: the latest attempt, followed to whatever ended it. *)
ChainEnd(as, res) ==
    LET latest == CHOOSE i \in DOMAIN as :
                    \A k \in DOMAIN as : Updated(as, k) <= Updated(as, i)
    IN  SettleChain(as, res, latest)

(* The attempt's number along the prev links (at most 8 hops). *)
Tries(as, i) == IF Portal(as[i].runner) /\ i > 9 THEN 9 ELSE i

-------------------------------------------------------------------------------
(* detect: why an attempt stopped, "none" when nothing is to be done about it. *)
Detect(a, facts) ==
    LET api == ApiError(a, facts)
    IN  IF a.state = "done" THEN "none"
        ELSE IF api = "context" THEN "context"
        ELSE IF a.state = "interrupted" THEN "crash"
        ELSE IF api = "switchable" THEN "none"
        ELSE IF facts.final = "incomplete" THEN "incomplete"
        ELSE IF facts.final = "none" /\ api = "none" THEN "crash" ELSE "none"

(* nextRunner: the first of the fallback order after the runner that is not the
   runner itself (after an error, from the order's start); a busy model is swapped
   for the runner's next one first. In Codes' routing every runner of the order is
   on, healthy and below its limit. *)
NextRunner(runner, why) ==
    LET at == IF runner \in Range(FallbackOrder)
              THEN CHOOSE i \in DOMAIN FallbackOrder : FallbackOrder[i] = runner ELSE 0
    IN  CASE why = "error" -> IF at = 1 THEN FallbackOrder[2] ELSE FallbackOrder[1]
          [] why = "capacity" /\ Portal(runner) /\ runner \in AltModels -> runner
          [] OTHER -> FallbackOrder[(at % Len(FallbackOrder)) + 1]

(* budget.js wrapUp: one closing turn, never after money, never twice. *)
WrapUp(hit, done) == IF hit \notin {"usd", "none"} /\ ~done THEN "wrap-up" ELSE "stop"

(* step, once the chain is known to end at the attempt e. *)
StepFrom(as, facts, res, e) ==
    LET end == as[e]
        own == IF e = Len(as) THEN facts ELSE NoFacts
        ann == AnnotatedReason(end)
        why == IF ann = "none" THEN "unknown" ELSE ann
        detected == IF end.reason = "hung" THEN "hung" ELSE Detect(end, own)
        settled == end.parent # 0 /\ res[end.parent].how \in {"note", "stopped"}
        Act(a) == [action |-> a, runner |-> NextRunner(end.runner, why)]
    IN  IF end.state \in {"running", "queued"} THEN Act("wait")
        ELSE IF end.state = "done" THEN Act("done")
        ELSE IF why = "stopped" THEN Act("stop")
        ELSE IF why = "budget"
               THEN Act(WrapUp(IF end.hit = "none" THEN "steps" ELSE end.hit, end.kind = "wrap-up"))
        ELSE IF why = "turns"
               THEN Act(IF end.session THEN "continue" ELSE IF settled THEN "failed" ELSE "switch")
        ELSE IF detected = "context" THEN Act("restart")
        ELSE IF detected # "none" THEN Act(IF end.session THEN "continue" ELSE "failed")
        ELSE IF why \in Switchable \cup {"error"}
               THEN Act(IF Tries(as, e) >= (IF why = "error" THEN 2 ELSE 4) \/ settled
                        THEN "failed" ELSE "switch")
        ELSE Act("failed")

(* step: what should happen to the task, given the chain's end. *)
Step(as, facts) ==
    LET res == Resolved(as)
    IN  StepFrom(as, facts, res, ChainEnd(as, res))

-------------------------------------------------------------------------------
(* nextAgent (with router.pick): the first of the tier's ladder with room in
   the fleet that is not the agent that just stopped; "none" when there is none. *)
NextAgent(tier, room, exclude) ==
    LET order == TierOrder[tier]
        usable == {i \in DOMAIN order : order[i] \in room \ {exclude}}
    IN  IF usable = {} THEN "none" ELSE order[CHOOSE i \in usable : \A j \in usable : i <= j]

Plan(outcome, kind, runner) == [outcome |-> outcome, kind |-> kind, runner |-> runner]

(* decide: the owner's money, in dollars or tokens, ends the task. *)
HardStop(a) == a.reason = "budget" /\ a.hit \in {"usd", "tokens"}

(* Mutant: one continue more than the task may have. *)
SpentLater(as) == Cardinality({i \in DOMAIN as : as[i].kind = "continue"}) > MaxContinues

(* decide: the automatic continues of the task are used up. *)
Spent(as) == Cardinality({i \in DOMAIN as : as[i].kind = "continue"}) >= MaxContinues

(* decide: the ladder's choice, else the runner the engine proposed. *)
SwitchTo(choice, proposed) == IF choice # "none" THEN choice ELSE proposed

(* decide: the engine's step as a plan, an outcome or a follow-up attempt (both
   "none": nothing happens). *)
PlanFor(as, tier, room, step) ==
    LET ending == as[Len(as)]
        choice == NextAgent(tier, room, ending.runner)
    IN  IF HardStop(ending) \/ (step.action = "continue" /\ Spent(as)) THEN Plan("unfinished", "none", "none")
        ELSE CASE step.action = "done"    -> Plan("done", "none", "none")
               [] step.action = "stop"    -> Plan("stopped", "none", "none")
               [] step.action = "wait"    -> Plan("none", "none", "none")
               [] step.action \in {"wrap-up", "continue", "restart"} -> Plan("none", step.action, ending.runner)
               [] step.action = "switch"  -> Plan("none", "switch", SwitchTo(choice, step.runner))
               [] OTHER                   -> Plan("unfinished", "none", "none")

(* decide: what follows the ending of the last attempt. *)
Decide(as, facts, tier, room) == PlanFor(as, tier, room, Step(as, facts))
===============================================================================
