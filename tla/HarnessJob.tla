------------------------------ MODULE HarnessJob ------------------------------
(***************************************************************************)
(* One job on a person's machine (harness/job.js runJob): the clone, the   *)
(* agents one after the other (harness/index.js run, harness/process.js     *)
(* spawnAgent, harness/adapters/), what changed, the proof of it            *)
(* (engine/proof.js), the branch and the result.                            *)
(*                                                                          *)
(* What a tree, a commit or a branch holds is a set of works: an agent's    *)
(* own edits are named by the agent, since no agent is tried twice.         *)
(***************************************************************************)
EXTENDS Integers, Sequences, FiniteSets

CONSTANTS
    Agents,         \* the harnesses of the catalog
    Available,      \* those that are set up here and fit for the permission
    Reads,          \* how the adapter of each finds out that it finished
    Jobs,           \* the inputs a job may have
    MaxTries,       \* maxAttempts of a job that may be handed over
    MayCommit,      \* an agent may commit in the clone
    MayHold,        \* a process an agent started may keep its output open
    MaxFaults       \* bound: failing commands, lost answers and a job that is killed

Others == "other"           \* somebody else's commit
Works == Agents \cup {"earlier", "markers", "artifact", Others}

(* What parseArgs makes of the input. *)
Job == [kind : {"code", "conductor", "bench", "refused"}, agent : Agents \cup {"none"},
        patch : {"none", "given"}, push : {"none", "base", "own"}]

ASSUME HarnessJobAssumption ==
    /\ Available \subseteq Agents /\ "none" \notin Agents
    /\ Agents \cap {"earlier", "markers", "artifact", Others} = {}
    /\ Reads \in [Agents -> {"line", "code", "text", "api"}]
    /\ Jobs \subseteq Job
    /\ MaxTries \in Nat \ {0} /\ MaxFaults \in Nat
    /\ MayCommit \in BOOLEAN /\ MayHold \in BOOLEAN

VARIABLES
    job, stage,
    tried,          \* the agents of the run's attempts, in order
    proc,           \* what each agent's process is at
    final,          \* the run's result event: none yet, ok or error
    tree, index, head,      \* the clone: its files, its index, its commits
    files,          \* the changes the result reports
    applied,        \* result.base_patch
    push,           \* result.push
    remote,         \* the branch at the forge: who made it and what it has
    written,        \* the result document, once it is handed over
    faults

vars == <<job, stage, tried, proc, final, tree, index, head, files, applied, push, remote, written, faults>>
clone == <<tree, index, head>>

Stages == {"parse", "prepare", "patch", "pick", "agent", "changes", "proof", "push", "ask", "commit", "send",
           "request", "write", "over", "gone"}

(* An agent's process: what it printed that its adapter reads, how it exited,
   whether its output is still held open, how it was stopped and why. *)
Proc == [pc : {"none", "running", "exited", "closed"}, said : {"nothing", "text", "failed", "ok", "error"},
         code : {"zero", "other"}, pipe : {"free", "held"}, stop : {"no", "term", "kill"},
         cut : SUBSET {"stall", "timeout"}]
NoProc == [pc |-> "none", said |-> "nothing", code |-> "other", pipe |-> "free", stop |-> "no", cut |-> {}]

TypeOK ==
    /\ job \in Job /\ stage \in Stages
    /\ tried \in Seq(Agents) /\ Len(tried) <= MaxTries
    /\ proc \in [Agents -> Proc]
    /\ final \in {"none", "ok", "error"}
    /\ tree \subseteq Works /\ index \subseteq Works /\ head \subseteq Works /\ files \subseteq Works
    /\ applied \in {"none", "applied", "failed"}
    /\ push \in {"none", "refused", "pushed"}
    /\ remote \in [made : {"nobody", "job", "other"}, has : SUBSET Works]
    /\ written \in [ok : {"none", "ok", "error"}, push : {"none", "refused", "pushed"}]
    /\ faults \in 0..MaxFaults

Init ==
    /\ job \in Jobs /\ stage = "parse"
    /\ tried = <<>> /\ proc = [a \in Agents |-> NoProc] /\ final = "none"
    /\ tree = {} /\ index = {} /\ head = {} /\ files = {}
    /\ applied = "none" /\ push = "none"
    /\ remote = [made |-> "nobody", has |-> {}]
    /\ written = [ok |-> "none", push |-> "none"]
    /\ faults = 0

Fault == faults < MaxFaults /\ faults' = faults + 1
NoFault == UNCHANGED faults

-------------------------------------------------------------------------------
(* runJob: an input parseArgs refuses is answered at once. *)
Parse ==
    /\ stage = "parse"
    /\ stage' = IF job.kind = "refused" THEN "write" ELSE "prepare"
    /\ UNCHANGED <<job, tried, proc, final, clone, files, applied, push, remote, written, faults>>

(* The clone, the conductor's folder or the empty workspace, with the owner's
   files in it; without it the job ends with its error. *)
Prepare ==
    /\ stage = "prepare"
    /\ \/ NoFault /\ stage' = IF job.kind = "code" /\ job.patch = "given" THEN "patch" ELSE "pick"
       \/ Fault /\ job.kind # "bench" /\ stage' = "write"
    /\ UNCHANGED <<job, tried, proc, final, clone, files, applied, push, remote, written>>

(* git apply --3way: the earlier turns' work, nothing, or the marks of a merge
   that met a conflict (which exits like a failure). *)
ApplyPatch ==
    /\ stage = "patch" /\ stage' = "pick"
    /\ \/ NoFault /\ applied' = "applied" /\ tree' = {"earlier"}
       \/ Fault /\ applied' = "failed" /\ tree' \in {{}, {"markers"}}
    /\ index' = tree'
    /\ UNCHANGED <<job, tried, proc, final, head, files, push, remote, written>>

-------------------------------------------------------------------------------
Handoff == job.agent = "none"
Tries == IF job.kind = "conductor" THEN 1 ELSE MaxTries
Tried == {tried[i] : i \in DOMAIN tried}
Current == tried[Len(tried)]

(* The run has tried as many agents as it may. *)
LastTry(n) == n >= Tries

(* The agents that may take the attempt: the one that was named, or any the
   planner has left. *)
Candidates == IF tried = <<>> /\ ~Handoff THEN {job.agent} \cap Available ELSE Available \ Tried

(* run: the next attempt starts, or the run ends with what it has. *)
Pick ==
    /\ stage = "pick"
    /\ \/ \E a \in Candidates :
            /\ tried' = Append(tried, a)
            /\ proc' = [proc EXCEPT ![a] = [NoProc EXCEPT !.pc = "running"]]
            /\ stage' = "agent" /\ UNCHANGED final
       \/ /\ Candidates = {}
          /\ final' = IF tried = <<>> THEN "error" ELSE final
          /\ stage' = "changes" /\ UNCHANGED <<tried, proc>>
    /\ UNCHANGED <<job, clone, files, applied, push, remote, written, faults>>

(* An agent at work: it edits, it may commit. *)
Edit(a) ==
    /\ proc[a].pc = "running" /\ a \notin tree
    /\ tree' = tree \cup {a}
    /\ UNCHANGED <<job, stage, tried, proc, final, index, head, files, applied, push, remote, written, faults>>

AgentCommits(a) ==
    /\ MayCommit /\ proc[a].pc = "running" /\ ~(tree \subseteq head)
    /\ head' = head \cup tree /\ index' = tree
    /\ UNCHANGED <<job, stage, tried, proc, final, tree, files, applied, push, remote, written, faults>>

(* Its output: a result line, or words and failures the adapter remembers. *)
Says(a) ==
    /\ proc[a].pc = "running"
    /\ \E said \in IF Reads[a] = "line" THEN {"ok", "error"} ELSE {"text", "failed"} :
        /\ proc[a].said = "nothing" \/ (proc[a].said = "text" /\ said = "failed")
        /\ proc' = [proc EXCEPT ![a] = [proc[a] EXCEPT !.said = said]]
    /\ UNCHANGED <<job, stage, tried, final, clone, files, applied, push, remote, written, faults>>

(* Its process ends; one it started may still hold its output. *)
Exit(a) ==
    /\ proc[a].pc = "running"
    /\ \E code \in IF proc[a].stop = "kill" THEN {"other"} ELSE {"zero", "other"},
          pipe \in IF MayHold /\ Reads[a] # "api" THEN {"free", "held"} ELSE {"free"} :
        proc' = [proc EXCEPT ![a] = [proc[a] EXCEPT !.pc = "exited", !.code = code, !.pipe = pipe]]
    /\ UNCHANGED <<job, stage, tried, final, clone, files, applied, push, remote, written, faults>>

LetsGo(a) ==
    /\ proc[a].pipe = "held"
    /\ proc' = [proc EXCEPT ![a] = [proc[a] EXCEPT !.pipe = "free"]]
    /\ UNCHANGED <<job, stage, tried, final, clone, files, applied, push, remote, written, faults>>

(* cancel: SIGTERM, unless the process is gone already. *)
Cancelled(p, why) ==
    [p EXCEPT !.cut = p.cut \cup {why},
              !.stop = IF p.pc = "running" /\ p.stop = "no" THEN "term" ELSE p.stop]

(* run: nothing was heard for stallMs. spawnAgent: the time is up. *)
Stops(a) ==
    /\ stage = "agent" /\ a = Current
    /\ \E why \in {"stall", "timeout"} :
        /\ why \notin proc[a].cut
        /\ why = "timeout" => Reads[a] # "api" /\ proc[a].pc = "running"
        /\ proc' = [proc EXCEPT ![a] = Cancelled(proc[a], why)]
    /\ UNCHANGED <<job, stage, tried, final, clone, files, applied, push, remote, written, faults>>

(* Mutant: SIGTERM once more. *)
AskedAgain(p) == [p EXCEPT !.stop = "term"]

(* SIGKILL. *)
ForceStopped(p) == [p EXCEPT !.stop = "kill"]

(* spawnAgent: the timer cancel sets, five seconds later. *)
KillTimer(a) ==
    /\ proc[a].pc = "running" /\ proc[a].stop = "term" /\ Reads[a] # "api"
    /\ proc' = [proc EXCEPT ![a] = ForceStopped(proc[a])]
    /\ UNCHANGED <<job, stage, tried, final, clone, files, applied, push, remote, written, faults>>

(* The parser's end: the result the adapter makes of what it heard. OpenCode's
   does not ask how the process ended; an API model that has nothing to say and
   was not stopped is done. *)
Answered(a, p) ==
    CASE Reads[a] = "line" -> p.said = "ok"
      [] Reads[a] = "code" -> p.said = "text" /\ p.code = "zero"
      [] Reads[a] = "text" -> p.said = "text"
      [] Reads[a] = "api"  -> p.said \in {"nothing", "text"} /\ p.stop = "no"

(* Mutant: the stalled agent's own result counts. *)
SucceededStalled(a, p) == Answered(a, p)

(* run: an attempt that went quiet failed, whatever it said. *)
Succeeded(a, p) == Answered(a, p) /\ "stall" \notin p.cut

(* Mutant: the run goes on when the process was told to stop. *)
StoppedProc(p) == p.pc = "exited" \/ p.stop # "no"

(* spawnAgent ends its events at the process's close: it exited and nothing
   holds its output any more. *)
Closed(p) == p.pc = "exited" /\ p.pipe = "free"

(* What is kept of an attempt's process: after a hand-off, what it printed no
   longer matters. *)
LeftBehind(p, over) == [(IF over THEN p ELSE NoProc) EXCEPT !.pc = IF p.pc = "exited" THEN "closed" ELSE p.pc]

(* run: the attempt is over; the run is too, or it hands the task over. *)
EndAttempt ==
    /\ stage = "agent" /\ Closed(proc[Current])
    /\ LET ok == Succeeded(Current, proc[Current])
           over == ok \/ ~Handoff \/ LastTry(Len(tried))
       IN  /\ proc' = [proc EXCEPT ![Current] = LeftBehind(proc[Current], over)]
           /\ final' = IF ok THEN "ok" ELSE "error"
           /\ stage' = IF over THEN "changes" ELSE "pick"
    /\ UNCHANGED <<job, tried, clone, files, applied, push, remote, written, faults>>

-------------------------------------------------------------------------------
(* changes: everything in the tree is staged and compared with HEAD; a conductor
   or a bench reports none. A git command that fails ends the job. *)
Changes ==
    /\ stage = "changes"
    /\ \/ /\ NoFault
          /\ IF job.kind = "code" THEN index' = tree /\ files' = tree \ head
             ELSE UNCHANGED <<index, files>>
          /\ stage' = "proof"
       \/ Fault /\ job.kind = "code" /\ stage' = "write" /\ UNCHANGED <<index, files>>
    /\ UNCHANGED <<job, tried, proc, final, tree, head, applied, push, remote, written>>

(* A branch is pushed for a task that asked for it, finished and changed files. *)
ToPush == job.push # "none" /\ final = "ok" /\ files # {}

(* collectProof runs the repository's tests in the clone: they may leave files. *)
CollectProof ==
    /\ stage = "proof"
    /\ tree' \in IF job.kind = "code" THEN {tree, tree \cup {"artifact"}} ELSE {tree}
    /\ stage' = IF ToPush THEN "push" ELSE "write"
    /\ UNCHANGED <<job, tried, proc, final, index, head, files, applied, push, remote, written, faults>>

Refuse == push' = "refused" /\ stage' = "write"

(* pushBranch: a token, and a branch that is not the base. *)
PushTarget ==
    /\ stage = "push"
    /\ \/ job.push = "own" /\ NoFault /\ stage' = "ask" /\ UNCHANGED push
       \/ job.push = "base" /\ NoFault /\ Refuse
       \/ job.push = "own" /\ Fault /\ Refuse      \* no token here
    /\ UNCHANGED <<job, tried, proc, final, clone, files, applied, remote, written>>

(* ls-remote: a branch that exists, or no answer, is refused. *)
AskRemote ==
    /\ stage = "ask"
    /\ \/ remote.made = "nobody" /\ NoFault /\ stage' = "commit" /\ UNCHANGED push
       \/ remote.made # "nobody" /\ NoFault /\ Refuse
       \/ Fault /\ Refuse
    /\ UNCHANGED <<job, tried, proc, final, clone, files, applied, remote, written>>

(* Mutant: git commit -a. *)
CommittedAll == head \cup tree

(* checkout -b and commit: the index as changes left it. *)
Committed == head \cup index

CommitWork ==
    /\ stage = "commit"
    /\ \/ NoFault /\ head' = Committed /\ stage' = "send" /\ UNCHANGED push
       \/ Fault /\ Refuse /\ UNCHANGED head
    /\ UNCHANGED <<job, tried, proc, final, tree, index, files, applied, remote, written>>

(* Mutant: the push is forced. *)
TakenForced(r) == TRUE

(* The forge takes a push that is not forced when it loses no commit. *)
Taken(r) == r.made = "nobody" \/ r.has \subseteq head

(* git push: taken, rejected, lost on the way there or on the way back. *)
SendBranch ==
    /\ stage = "send"
    /\ \/ /\ Taken(remote)
          /\ remote' = [made |-> IF remote.made = "nobody" THEN "job" ELSE remote.made, has |-> head]
          /\ \/ NoFault /\ push' = "pushed" /\ stage' = "request"
             \/ Fault /\ Refuse
       \/ ~Taken(remote) /\ NoFault /\ Refuse /\ UNCHANGED remote
       \/ Fault /\ Refuse /\ UNCHANGED remote
    /\ UNCHANGED <<job, tried, proc, final, clone, files, applied, written>>

(* The pull request, made or not: the job goes on. *)
PullRequest ==
    /\ stage = "request" /\ stage' = "write"
    /\ UNCHANGED <<job, tried, proc, final, clone, files, applied, push, remote, written, faults>>

(* The scratch folder is removed and the result handed over. *)
WriteResult ==
    /\ stage = "write" /\ stage' = "over"
    /\ written' = [ok |-> IF final = "ok" THEN "ok" ELSE "error", push |-> push]
    /\ UNCHANGED <<job, tried, proc, final, clone, files, applied, push, remote, faults>>

-------------------------------------------------------------------------------
(* Somebody else makes the branch, as it was cloned or with their own work, or
   pushes to it. Before the job asks, when does not matter. *)
SomebodyPushes ==
    /\ Others \notin remote.has /\ stage \in {"push", "ask", "commit", "send", "request", "write"}
    /\ \/ remote.made = "nobody" /\ remote' = [made |-> "other", has |-> {}]
       \/ remote' = [made |-> IF remote.made = "nobody" THEN "other" ELSE remote.made,
                     has |-> remote.has \cup {Others}]
    /\ UNCHANGED <<job, stage, tried, proc, final, clone, files, applied, push, written, faults>>

(* The Node stops the job, and everything it started. *)
JobKilled ==
    /\ stage \notin {"over", "gone"} /\ Fault
    /\ stage' = "gone"
    /\ proc' = [a \in Agents |-> [proc[a] EXCEPT !.pc = IF proc[a].pc = "none" THEN "none" ELSE "closed",
                                                 !.pipe = "free"]]
    /\ UNCHANGED <<job, tried, final, clone, files, applied, push, remote, written>>

JobSteps ==
    \/ Parse \/ Prepare \/ ApplyPatch \/ Pick \/ EndAttempt \/ Changes \/ CollectProof
    \/ PushTarget \/ AskRemote \/ CommitWork \/ SendBranch \/ PullRequest \/ WriteResult

Next ==
    \/ JobSteps
    \/ \E a \in Agents : Edit(a) \/ AgentCommits(a) \/ Says(a) \/ Exit(a) \/ LetsGo(a) \/ Stops(a) \/ KillTimer(a)
    \/ SomebodyPushes \/ JobKilled

Spec == Init /\ [][Next]_vars

(* A killed process dies, an API agent ends when its request is aborted. *)
Dies(a) == (proc[a].stop = "kill" \/ (Reads[a] = "api" /\ proc[a].stop # "no")) /\ Exit(a)

(* The job's own steps and its timers happen. Nothing is assumed of an agent;
   what it started lets go of its output at some time. *)
FairSpec ==
    /\ Spec /\ WF_vars(JobSteps)
    /\ \A a \in Agents : WF_vars(Stops(a)) /\ WF_vars(KillTimer(a)) /\ WF_vars(Dies(a)) /\ WF_vars(LetsGo(a))

(* The same, with processes that may hold the output for good. *)
HeldSpec ==
    /\ Spec /\ WF_vars(JobSteps)
    /\ \A a \in Agents : WF_vars(Stops(a)) /\ WF_vars(KillTimer(a)) /\ WF_vars(Dies(a))

-------------------------------------------------------------------------------
(* One agent works on the tree at a time, and none once the job looks at what
   changed: a hand-off, a stall or a time limit never leaves the one before at
   work (harness/index.js run waits for the close, not for the signal). *)
OneAgentAtATime ==
    \A a \in Agents : proc[a].pc \in {"running", "exited"} => stage = "agent" /\ a = Current

(* A job is ok for what its last agent did: it reported no failure, it was not stopped
   for being quiet, and where its adapter reads the exit code it exited with zero
   (harness/index.js run, adapters). *)
OkIsEarned ==
    written.ok = "ok" =>
        LET p == proc[Current]
        IN  /\ p.said \notin {"failed", "error"} /\ "stall" \notin p.cut
            /\ Reads[Current] # "api" => p.said # "nothing"
            /\ Reads[Current] = "code" => p.code = "zero"
            /\ Reads[Current] = "api" => p.stop = "no"

(* The branch holds the change the result reports, nothing the proof's tests
   left behind, and only for a job that finished (job.js changes, pushBranch). *)
PushedIsThePatch ==
    push = "pushed" =>
        /\ final = "ok" /\ files # {} /\ files \subseteq remote.has
        /\ "artifact" \notin remote.has

(* Whatever somebody else pushed stays: "a push is never forced, so a branch
   made meanwhile is not overwritten either" (job.js:538). *)
OthersWorkStays == [][(Others \in remote.has) => (Others \in (remote').has)]_vars

(* Every job hands over its result or is killed, however its agents behave:
   they may ignore SIGTERM, talk forever or never talk (run's stall timer,
   spawnAgent's time limit and SIGKILL). *)
JobEnds == <>(stage \in {"over", "gone"})

(* What the job says when the earlier turns' work does not apply: "this turn
   starts from the branch as it is" (job.js:683). *)
StartsFromTheBranch == applied = "failed" => "markers" \notin tree

(* What pushBranch promises: "Only ever a branch that does not exist yet"
   (job.js:537). *)
BranchIsNew == [][(push' = "pushed" /\ push # "pushed") => remote.made = "nobody"]_vars

(* What the job's own description promises of its result: "the changed files
   and the patch" (job.js:12). *)
ChangesReported ==
    written.ok = "ok" /\ job.kind = "code" => tree \ {"artifact"} \subseteq files

(* What exitReason says of an agent at its time limit: it "ran past its time
   limit and was stopped" (process.js:75), so it did not finish. *)
CutShortIsNotOk ==
    written.ok = "ok" =>
        proc[Current].stop = "no" \/ proc[Current].said = "ok"
===============================================================================
