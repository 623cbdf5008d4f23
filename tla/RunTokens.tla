------------------------------ MODULE RunTokens ------------------------------
(***************************************************************************)
(* The money of a task: its budget, the run token each attempt carries     *)
(* (server/domain/run-tokens.js) and what is left for the next attempt     *)
(* (remainingBudget and attemptEnv of server/domain/run-tasks.js).         *)
(*                                                                         *)
(* A token is minted at OpenVibe.Network, its budget is registered at      *)
(* OpenVibe.AI, a row traces it, and the job gets it; AI counts what the   *)
(* token's requests cost and refuses the next one when the budget is       *)
(* spent.  Any of the calls may fail.  One unit stands for dollars and for *)
(* tokens, which the code caps in the same way.                            *)
(***************************************************************************)
EXTENDS Naturals, Sequences

CONSTANTS
    Cap,           \* the task's budget
    MaxCost,       \* what one request can cost at most
    MaxAttempts,   \* bound
    MaxFaults,     \* bound: submits whose answer is lost, traces not written, counters not read
    MaxRefusals    \* bound: calls that fail before anything is handed out

VARIABLES
    attempt,    \* the attempts: the budget each was given, how it is funded, what it reported
    job,        \* the machine's job of each attempt: "none", "runs", "over"
    budget,     \* OpenVibe.AI: the budget registered for each attempt's token, 0 for none
    used,       \* OpenVibe.AI: what each attempt's token spent
    traced,     \* codes_run_tokens: attempts whose token has a row
    hand,       \* the handler: start, a follow-up or a continue
    faults, refusals

tvars == <<attempt, job, budget, used, traced, hand, faults, refusals>>

Idle == [pc |-> "idle", left |-> 0, read |-> 0]

InitTokens ==
    /\ attempt = <<>>
    /\ job = <<>>
    /\ budget = <<>>
    /\ used = <<>>
    /\ traced = {}
    /\ hand = Idle
    /\ faults = 0
    /\ refusals = 0

Now == Len(attempt)
At(pc) == hand.pc = pc
Goes(pc) == hand' = [hand EXCEPT !.pc = pc]
Faulty == faults < MaxFaults /\ faults' = faults + 1
Refusing == refusals < MaxRefusals /\ refusals' = refusals + 1

(* The first attempt has the task's budget; a later one begins when the one *)
(* before it ended, with the whole budget to subtract from.                 *)
Begin ==
    /\ At("idle")
    /\ Now < MaxAttempts
    /\ Now > 0 => attempt[Now].state = "ended"
    /\ hand' = [pc |-> "remaining", left |-> Cap, read |-> 0]
    /\ UNCHANGED <<attempt, job, budget, used, traced, faults, refusals>>

Minus(a, b) == IF a > b THEN a - b ELSE 0

(* taskSpend: the counter of one traced token after the other; one that     *)
(* cannot be read counts as what the harness reported.                      *)
Spend ==
    /\ At("remaining") /\ hand.read < Now
    /\ hand' = [hand EXCEPT !.read = @ + 1,
                            !.left = IF hand.read + 1 \in traced THEN Minus(@, used[hand.read + 1]) ELSE @]
    /\ UNCHANGED <<attempt, job, budget, used, traced, faults, refusals>>

SpendUnread ==
    /\ At("remaining") /\ hand.read < Now
    /\ hand.read + 1 \in traced
    /\ Faulty
    /\ hand' = [hand EXCEPT !.read = @ + 1, !.left = Minus(@, attempt[hand.read + 1].reported)]
    /\ UNCHANGED <<attempt, job, budget, used, traced, refusals>>

(* Nothing left: the task ends at its budget.                               *)
Exhausted(left) == left = 0

StopsAtBudget ==
    /\ At("remaining") /\ hand.read = Now
    /\ Exhausted(hand.left)
    /\ Goes("stopped")
    /\ UNCHANGED <<attempt, job, budget, used, traced, faults, refusals>>

Create ==
    /\ At("remaining") /\ hand.read = Now
    /\ ~Exhausted(hand.left)
    /\ attempt' = Append(attempt, [state |-> "queued", mode |-> "none", reported |-> 0])
    /\ job' = Append(job, "none")
    /\ budget' = Append(budget, 0)
    /\ used' = Append(used, 0)
    /\ Goes("mint")
    /\ UNCHANGED <<traced, faults, refusals>>

(* mint: Network's answer, or none; attemptEnv goes on without a token.     *)
Minted ==
    /\ At("mint")
    /\ Goes("register")
    /\ UNCHANGED <<attempt, job, budget, used, traced, faults, refusals>>

NotMinted ==
    /\ At("mint")
    /\ Refusing
    /\ Goes("submit")
    /\ UNCHANGED <<attempt, job, budget, used, traced, faults>>

Registered ==
    /\ At("register")
    /\ budget' = [budget EXCEPT ![Now] = hand.left]
    /\ Goes("record")
    /\ UNCHANGED <<attempt, job, used, traced, faults, refusals>>

(* A token whose budget cannot be registered is not handed out; the PUT may *)
(* have arrived all the same.                                               *)
NotRegisteredHandedOut ==
    /\ At("register")
    /\ Refusing
    /\ Goes("record")
    /\ UNCHANGED <<attempt, job, budget, used, traced, faults>>

NotRegistered ==
    /\ At("register")
    /\ Refusing
    /\ Goes("submit")
    /\ budget' \in {budget, [budget EXCEPT ![Now] = hand.left]}
    /\ UNCHANGED <<attempt, job, used, traced, faults>>

(* record: the trace of the token; one that cannot be written is passed     *)
(* over.  The attempt is funded through AI.                                 *)
Funded == attempt' = [attempt EXCEPT ![Now].mode = "ai"]

Recorded ==
    /\ At("record")
    /\ traced' = traced \cup {Now}
    /\ Funded
    /\ Goes("submit")
    /\ UNCHANGED <<job, budget, used, faults, refusals>>

NotRecorded ==
    /\ At("record")
    /\ Faulty
    /\ Funded
    /\ Goes("submit")
    /\ UNCHANGED <<job, budget, used, traced, refusals>>

Submitted ==
    /\ At("submit")
    /\ job' = [job EXCEPT ![Now] = "runs"]
    /\ attempt' = [attempt EXCEPT ![Now].state = "running"]
    /\ Goes("idle")
    /\ UNCHANGED <<budget, used, traced, faults, refusals>>

NotSubmitted ==
    /\ At("submit")
    /\ Refusing
    /\ attempt' = [attempt EXCEPT ![Now].state = "ended"]
    /\ Goes("idle")
    /\ UNCHANGED <<job, budget, used, traced, faults>>

(* The answer is lost: the attempt has failed, and its job runs.            *)
SubmitLost ==
    /\ At("submit")
    /\ Faulty
    /\ job' = [job EXCEPT ![Now] = "runs"]
    /\ attempt' = [attempt EXCEPT ![Now].state = "ended"]
    /\ Goes("idle")
    /\ UNCHANGED <<budget, used, traced, refusals>>

(* OpenVibe.AI: a request of a token whose budget is not spent yet counts;  *)
(* a token without a registered budget has no end.                          *)
Allowed(a) == budget[a] > 0 => used[a] < budget[a]

Request(a, cost) ==
    /\ job[a] = "runs" /\ attempt[a].mode = "ai"
    /\ Allowed(a)
    /\ used[a] <= 2 * (Cap + MaxCost)
    /\ used' = [used EXCEPT ![a] = @ + cost]
    /\ UNCHANGED <<attempt, job, budget, traced, hand, faults, refusals>>

(* The job ends (its work is done, or AI refused its budget); the harness   *)
(* reports what it knows of.  Nothing follows the job of a lost submit.     *)
JobEnds(a, reported) ==
    /\ job[a] = "runs"
    /\ job' = [job EXCEPT ![a] = "over"]
    /\ attempt' = IF attempt[a].state = "running"
                     THEN [attempt EXCEPT ![a].state = "ended", ![a].reported = reported]
                     ELSE attempt
    /\ UNCHANGED <<budget, used, traced, hand, faults, refusals>>

NextTokens ==
    \/ Begin \/ Spend \/ SpendUnread \/ StopsAtBudget \/ Create
    \/ Minted \/ NotMinted \/ Registered \/ NotRegistered \/ Recorded \/ NotRecorded
    \/ Submitted \/ NotSubmitted \/ SubmitLost
    \/ \E a \in 1..Now : \/ \E cost \in 1..MaxCost : Request(a, cost)
                         \/ \E reported \in {0, used[a]} : JobEnds(a, reported)

Spec == InitTokens /\ [][NextTokens]_tvars

-----------------------------------------------------------------------------

SpentInAll ==
    LET upTo[n \in 0..Now] == IF n = 0 THEN 0 ELSE upTo[n - 1] + used[n] IN upTo[Now]

(* A task spends its budget at most, and what the last request costs beyond *)
(* it; each lost answer, missing trace or unread counter can cost one more  *)
(* budget and no more, whatever else fails on the way to the machine.       *)
BudgetHolds == SpentInAll <= (1 + faults) * (Cap + MaxCost - 1)

(* The task's budget holds whatever fails (run-tasks.js:831 "what is left   *)
(* of the task's budget"): violated by a token row that "is a trace, not    *)
(* the point" (run-tokens.js:204), and by a lost answer to a submit.        *)
BudgetAlwaysHolds == SpentInAll <= Cap + MaxCost - 1
==============================================================================
