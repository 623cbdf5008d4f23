---------------------------- MODULE AttemptProofs ----------------------------
(***************************************************************************)
(* What is proved of one attempt of a coding task: of the job that carries *)
(* it out on a machine (HarnessJob), for every catalog of agents, job and  *)
(* bound, and of what the engine decides when it ends (TaskChain), for     *)
(* every setting, whatever time lies between the attempts.                 *)
(***************************************************************************)
EXTENDS HarnessJob, MCTaskChain, SequenceTheorems, FiniteSetTheorems, TLAPS

WF == INSTANCE WellFoundedInduction

(* A set of numbers that is not empty has a least one. *)
LEMMA LeastNumber ==
    ASSUME NEW S \in SUBSET Nat, S # {} PROVE \E i \in S : \A j \in S : i <= j
<1> DEFINE R == {ss \in Nat \X Nat : ss[1] < ss[2]}
<1>1. WF!OpToRel(<, Nat) = R
    BY DEF WF!OpToRel
<1>2. WF!IsWellFoundedOn(R, Nat)
    BY <1>1, WF!NatLessThanWellFounded
<1>3. \A i, j \in S : j < i => <<j, i>> \in R
    OBVIOUS
<1> HIDE DEF R
<1>4. PICK i \in S : \A j \in S : ~(<<j, i>> \in R)
    BY <1>2, WF!WFMin
<1>5. \A j \in S : ~(j < i)
    BY <1>3, <1>4
<1> QED
    BY <1>5

-------------------------------------------------------------------------------
(* The job on a machine (HarnessJob): the inductive invariant, by what each part
   is about. *)

BeforeRun == {"parse", "prepare", "patch", "pick"}
BeforeProof == BeforeRun \cup {"agent", "changes", "proof"}
Pushing == {"push", "ask", "commit", "send"}
AfterPush == {"request", "write", "over", "gone"}

(* While an agent may still be started there is an attempt left; while one is at
   work there is a last one. *)
Attempts ==
    /\ stage \in BeforeRun => Len(tried) < Tries
    /\ stage = "agent" => tried # <<>>

(* What the run's result rests on. *)
Earned(a) ==
    /\ proc[a].said \notin {"failed", "error"} /\ "stall" \notin proc[a].cut
    /\ Reads[a] # "api" => proc[a].said # "nothing"
    /\ Reads[a] = "code" => proc[a].code = "zero"
    /\ Reads[a] = "api" => proc[a].stop = "no"

RunResult ==
    /\ final = "ok" => /\ stage \notin BeforeRun \cup {"agent"}
                       /\ tried # <<>> /\ Earned(Current)
    /\ written.ok = "ok" => final = "ok"

(* Nothing of the proof's tests is in the index, a commit or the branch. *)
Clean ==
    /\ "artifact" \notin index /\ "artifact" \notin head /\ "artifact" \notin remote.has
    /\ stage \in BeforeProof => "artifact" \notin tree

(* The branch, from the change that is measured to the push. *)
Branch ==
    /\ remote.made = "nobody" => remote.has = {}
    /\ stage \in BeforeRun \cup {"agent", "changes"} => files = {}
    /\ stage \in {"proof"} \cup Pushing => files \subseteq index
    /\ stage \in Pushing => final = "ok" /\ files # {}
    /\ stage = "send" => files \subseteq head
    /\ push = "pushed" => /\ stage \in AfterPush /\ final = "ok" /\ files # {}
                          /\ remote.made # "nobody" /\ files \subseteq remote.has

Inv == TypeOK /\ OneAgentAtATime /\ Attempts /\ RunResult /\ Clean /\ Branch

-------------------------------------------------------------------------------
(* No attempt is possible beyond MaxTries. *)
LEMMA TriesBound == Tries \in Nat /\ Tries >= 1 /\ Tries <= MaxTries
  BY HarnessJobAssumption DEF Tries

(* The last agent tried is an agent. *)
LEMMA CurrentAgent ==
    ASSUME TypeOK, tried # <<>>
    PROVE  Current \in Agents
  <1>1. tried \in Seq(Agents) /\ Len(tried) \in 1..Len(tried)
    BY EmptySeq, LenProperties DEF TypeOK
  <1> QED BY <1>1, ElementOfSeq DEF Current

(* The edits of a process are processes. *)
LEMMA NoProcType == NoProc \in Proc /\ NoProc.pc = "none"
  BY DEF NoProc, Proc

LEMMA StartedType == [NoProc EXCEPT !.pc = "running"] \in Proc
  BY DEF NoProc, Proc

(* A step that edits one agent's process and nothing else: it may not wake a
   process that was over, nor change what the run's result rests on. *)
LEMMA ProcEdit ==
    ASSUME Inv, NEW a \in Agents, NEW q \in Proc,
           proc' = [proc EXCEPT ![a] = q],
           UNCHANGED <<job, stage, tried, final, clone, files, applied, push, remote, written, faults>>,
           q.pc \in {"running", "exited"} => proc[a].pc \in {"running", "exited"},
           stage = "agent" \/ (q.said = proc[a].said /\ q.code = proc[a].code
                               /\ q.stop = proc[a].stop /\ q.cut = proc[a].cut)
    PROVE  Inv'
  <1> USE DEF Inv
  <1>1. TypeOK' BY DEF TypeOK, clone
  <1>2. OneAgentAtATime' BY DEF OneAgentAtATime, TypeOK, Current
  <1>3. Attempts' BY DEF Attempts, Tries
  <1>4. RunResult' BY CurrentAgent DEF RunResult, Earned, Current, TypeOK, BeforeRun
  <1>5. Clean' BY DEF Clean, clone
  <1>6. Branch' BY DEF Branch, clone
  <1> QED BY <1>1, <1>2, <1>3, <1>4, <1>5, <1>6

-------------------------------------------------------------------------------
(* A job begins in the invariant, whatever its catalog and bounds. *)
THEOREM JobInvInit == Init => Inv
  <1> SUFFICES ASSUME Init PROVE Inv OBVIOUS
  <1>1. TypeOK BY HarnessJobAssumption, NoProcType, EmptySeq DEF Init, TypeOK, Stages, Works
  <1>2. OneAgentAtATime BY NoProcType DEF Init, OneAgentAtATime
  <1>3. Attempts BY TriesBound, EmptySeq DEF Init, Attempts
  <1>4. RunResult BY DEF Init, RunResult
  <1>5. Clean /\ Branch BY DEF Init, Clean, Branch, Pushing
  <1> QED BY <1>1, <1>2, <1>3, <1>4, <1>5 DEF Inv

-------------------------------------------------------------------------------
(* An agent's own steps, and the timers that stop it. *)
LEMMA AgentStep ==
    ASSUME Inv, NEW a \in Agents,
           Says(a) \/ Exit(a) \/ LetsGo(a) \/ Stops(a) \/ KillTimer(a)
    PROVE  Inv'
  <1>0. proc[a] \in Proc /\ (proc[a].pc = "running" => stage = "agent")
    BY DEF Inv, TypeOK, OneAgentAtATime
  <1>1. CASE Says(a)
    <2>1. PICK said \in {"ok", "error", "text", "failed"} :
            proc' = [proc EXCEPT ![a] = [proc[a] EXCEPT !.said = said]]
      BY <1>1 DEF Says
    <2>2. [proc[a] EXCEPT !.said = said] \in Proc /\ [proc[a] EXCEPT !.said = said].pc = proc[a].pc
      BY <1>0 DEF Proc
    <2> QED BY <1>0, <1>1, <2>1, <2>2, ProcEdit DEF Says
  <1>2. CASE Exit(a)
    <2>1. PICK code \in {"zero", "other"}, pipe \in {"free", "held"} :
            proc' = [proc EXCEPT ![a] = [proc[a] EXCEPT !.pc = "exited", !.code = code, !.pipe = pipe]]
      BY <1>2 DEF Exit
    <2>2. [proc[a] EXCEPT !.pc = "exited", !.code = code, !.pipe = pipe] \in Proc
      BY <1>0 DEF Proc
    <2> QED BY <1>0, <1>2, <2>1, <2>2, ProcEdit DEF Exit
  <1>3. CASE LetsGo(a)
    <2> DEFINE q == [proc[a] EXCEPT !.pipe = "free"]
    <2>1. q \in Proc /\ q.pc = proc[a].pc /\ q.said = proc[a].said /\ q.code = proc[a].code
          /\ q.stop = proc[a].stop /\ q.cut = proc[a].cut
      BY <1>0 DEF Proc
    <2>2. proc' = [proc EXCEPT ![a] = q] BY <1>3 DEF LetsGo
    <2> HIDE DEF q
    <2> QED BY <1>3, <2>1, <2>2, ProcEdit DEF LetsGo
  <1>4. CASE Stops(a)
    <2>1. PICK why \in {"stall", "timeout"} : proc' = [proc EXCEPT ![a] = Cancelled(proc[a], why)]
      BY <1>4 DEF Stops
    <2>2. Cancelled(proc[a], why) \in Proc /\ Cancelled(proc[a], why).pc = proc[a].pc
      BY <1>0 DEF Proc, Cancelled
    <2> QED BY <1>4, <2>1, <2>2, ProcEdit DEF Stops
  <1>5. CASE KillTimer(a)
    <2>1. ForceStopped(proc[a]) \in Proc /\ ForceStopped(proc[a]).pc = proc[a].pc
      BY <1>0 DEF Proc, ForceStopped
    <2> QED BY <1>0, <1>5, <2>1, ProcEdit DEF KillTimer
  <1> QED BY <1>1, <1>2, <1>3, <1>4, <1>5

(* The next attempt is one more than those before, and its agent the last. *)
LEMMA PickStep ==
    ASSUME Inv, Pick
    PROVE  Inv'
  <1> USE DEF Inv
  <1>0. /\ tried \in Seq(Agents) /\ Len(tried) \in Nat /\ Len(tried) < Tries
        /\ proc \in [Agents -> Proc] /\ stage = "pick" /\ final # "ok"
        /\ \A b \in Agents : proc[b].pc \notin {"running", "exited"}
    BY LenProperties DEF Pick, TypeOK, Attempts, RunResult, OneAgentAtATime, BeforeRun
  <1>1. ASSUME NEW a \in Candidates, tried' = Append(tried, a), stage' = "agent", UNCHANGED final,
               proc' = [proc EXCEPT ![a] = [NoProc EXCEPT !.pc = "running"]],
               UNCHANGED <<job, clone, files, applied, push, remote, written, faults>>
        PROVE  Inv'
    <2>1. a \in Agents BY HarnessJobAssumption DEF Candidates
    <2>2. tried' \in Seq(Agents) /\ tried' # <<>> /\ Len(tried') = Len(tried) + 1
          /\ Append(tried, a)[Len(tried) + 1] = a
      BY <1>0, <1>1, <2>1, AppendProperties
    <2>3. Current' = a BY <1>1, <2>2 DEF Current
    <2>4. TypeOK'
      <3>1. Len(tried') <= MaxTries BY <1>0, <2>2, TriesBound, HarnessJobAssumption
      <3>2. proc' \in [Agents -> Proc] BY <1>0, <1>1, <2>1, StartedType
      <3> QED BY <1>1, <2>2, <3>1, <3>2 DEF TypeOK, clone, Stages
    <2>5. OneAgentAtATime' BY <1>0, <1>1, <2>1, <2>3 DEF OneAgentAtATime
    <2>6. Attempts' BY <1>1, <2>2 DEF Attempts, BeforeRun
    <2>7. RunResult' BY <1>0, <1>1 DEF RunResult
    <2>8. Clean' BY <1>0, <1>1 DEF Clean, clone, BeforeProof, BeforeRun
    <2>9. Branch' BY <1>0, <1>1 DEF Branch, clone, BeforeRun, Pushing, AfterPush
    <2> QED BY <2>4, <2>5, <2>6, <2>7, <2>8, <2>9
  <1>2. ASSUME Candidates = {}, final' = IF tried = <<>> THEN "error" ELSE final,
               stage' = "changes", UNCHANGED <<tried, proc>>,
               UNCHANGED <<job, clone, files, applied, push, remote, written, faults>>
        PROVE  Inv'
    <2>1. final' # "ok" /\ final' \in {"none", "ok", "error"} BY <1>0, <1>2 DEF TypeOK
    <2>2. TypeOK' BY <1>2, <2>1 DEF TypeOK, clone, Stages
    <2>3. OneAgentAtATime' BY <1>0, <1>2 DEF OneAgentAtATime
    <2>4. Attempts' BY <1>2 DEF Attempts, BeforeRun
    <2>5. RunResult' BY <1>0, <1>2, <2>1 DEF RunResult
    <2>6. Clean' BY <1>0, <1>2 DEF Clean, clone, BeforeProof, BeforeRun
    <2>7. Branch' BY <1>0, <1>2 DEF Branch, clone, BeforeRun, Pushing, AfterPush
    <2> QED BY <2>2, <2>3, <2>4, <2>5, <2>6, <2>7
  <1> QED BY <1>1, <1>2 DEF Pick

(* The end of an attempt: the result is what its agent earned. *)
LEMMA EndStep ==
    ASSUME Inv, EndAttempt
    PROVE  Inv'
  <1> USE DEF Inv
  <1> DEFINE ok == Succeeded(Current, proc[Current])
             over == ok \/ ~Handoff \/ LastTry(Len(tried))
             q == LeftBehind(proc[Current], over)
  <1>0. /\ stage = "agent" /\ tried # <<>> /\ Current \in Agents /\ Closed(proc[Current])
        /\ proc \in [Agents -> Proc] /\ Len(tried) \in Nat
    BY CurrentAgent, LenProperties DEF EndAttempt, Attempts, TypeOK
  <1>1. /\ proc' = [proc EXCEPT ![Current] = q]
        /\ final' = IF ok THEN "ok" ELSE "error"
        /\ stage' = IF over THEN "changes" ELSE "pick"
        /\ UNCHANGED <<job, tried, clone, files, applied, push, remote, written, faults>>
    BY DEF EndAttempt
  <1>2. q \in Proc /\ q.pc = "closed"
    BY <1>0, NoProcType DEF Proc, LeftBehind, Closed
  <1>3. ok => /\ q.said = proc[Current].said /\ q.code = proc[Current].code
              /\ q.stop = proc[Current].stop /\ q.cut = proc[Current].cut
    BY <1>0 DEF Proc, LeftBehind
  <1>4. ok => Earned(Current)
    BY <1>0, HarnessJobAssumption DEF Succeeded, Answered, Earned, TypeOK, Proc
  <1>5. ~over => Len(tried) < Tries
    BY <1>0, TriesBound DEF LastTry
  <1>6. Current' = Current /\ proc'[Current] = q BY <1>0, <1>1 DEF Current
  <1> HIDE DEF q
  <1>7. TypeOK' BY <1>0, <1>1, <1>2 DEF TypeOK, clone, Stages
  <1>8. OneAgentAtATime' BY <1>0, <1>1, <1>2 DEF OneAgentAtATime
  <1>9. Attempts' BY <1>1, <1>5 DEF Attempts, BeforeRun, Tries
  <1>10. RunResult'
    <2>1. ok => Earned(Current)' BY <1>1, <1>3, <1>4, <1>6 DEF Earned
    <2> QED BY <1>0, <1>1, <2>1 DEF RunResult, BeforeRun
  <1>11. Clean' BY <1>0, <1>1 DEF Clean, clone, BeforeProof, BeforeRun
  <1>12. Branch' BY <1>0, <1>1 DEF Branch, clone, BeforeRun, Pushing, AfterPush
  <1> QED BY <1>7, <1>8, <1>9, <1>10, <1>11, <1>12

-------------------------------------------------------------------------------
(* What follows the run keeps its result and its agents: no process is at work
   when the stage is not "agent", and none comes back. *)
LEMMA QuietStep ==
    ASSUME Inv, UNCHANGED <<job, tried, proc, final>>, stage # "agent", stage' # "agent",
           (written').ok = "ok" => final = "ok", stage' \in BeforeRun => stage \in BeforeRun
    PROVE  OneAgentAtATime' /\ Attempts' /\ RunResult'
  <1>1. \A b \in Agents : proc[b].pc \notin {"running", "exited"} BY DEF Inv, OneAgentAtATime
  <1>2. OneAgentAtATime' BY <1>1 DEF OneAgentAtATime
  <1>3. Attempts' BY DEF Inv, Attempts, Tries
  <1>4. RunResult' BY DEF Inv, RunResult, Earned, Current
  <1> QED BY <1>2, <1>3, <1>4

(* Before the first agent. *)
LEMMA EarlyStep ==
    ASSUME Inv, Parse \/ Prepare \/ ApplyPatch
    PROVE  Inv'
  <1> USE DEF Inv
  <1>0. /\ stage \in {"parse", "prepare", "patch"} /\ stage' \in BeforeRun \cup {"write"}
        /\ push # "pushed" /\ final # "ok"
        /\ UNCHANGED <<job, tried, proc, final, head, files, push, remote, written>>
    BY DEF Parse, Prepare, ApplyPatch, BeforeRun, clone, Branch, AfterPush, RunResult
  <1>1. OneAgentAtATime' /\ Attempts' /\ RunResult'
    BY <1>0, QuietStep DEF BeforeRun, RunResult
  <1>2. TypeOK'
    <2>1. tree' \subseteq Works /\ index' \subseteq Works
      BY DEF Parse, Prepare, ApplyPatch, clone, TypeOK, Works
    <2>2. applied' \in {"none", "applied", "failed"}
      BY DEF Parse, Prepare, ApplyPatch, TypeOK
    <2>3. faults' \in 0..MaxFaults
      BY HarnessJobAssumption DEF Parse, Prepare, ApplyPatch, Fault, NoFault, TypeOK
    <2> QED BY <1>0, <2>1, <2>2, <2>3 DEF TypeOK, Stages, BeforeRun
  <1>3. "artifact" \notin tree' /\ "artifact" \notin index'
    BY <1>0 DEF Clean, clone, Parse, Prepare, ApplyPatch, BeforeProof, BeforeRun
  <1>4. Clean' BY <1>0, <1>3 DEF Clean
  <1>5. Branch' BY <1>0 DEF Branch, BeforeRun, Pushing
  <1> QED BY <1>1, <1>2, <1>4, <1>5

(* What an agent does to the clone. *)
LEMMA WorkStep ==
    ASSUME Inv, NEW a \in Agents, Edit(a) \/ AgentCommits(a)
    PROVE  Inv'
  <1> USE DEF Inv
  <1>0. /\ stage = "agent" /\ "artifact" \notin tree /\ a # "artifact" /\ a \in Works
        /\ UNCHANGED <<job, stage, tried, proc, final, files, applied, push, remote, written, faults>>
    BY HarnessJobAssumption DEF Edit, AgentCommits, OneAgentAtATime, Clean, BeforeProof, Works
  <1>1. /\ tree' \subseteq Works /\ index' \subseteq Works /\ head' \subseteq Works
        /\ "artifact" \notin tree' /\ "artifact" \notin index' /\ "artifact" \notin head'
    BY <1>0 DEF Edit, AgentCommits, TypeOK, Clean
  <1>2. TypeOK' BY <1>0, <1>1 DEF TypeOK
  <1>3. OneAgentAtATime' /\ Attempts' /\ RunResult'
    BY <1>0 DEF OneAgentAtATime, Attempts, Tries, RunResult, Earned, Current
  <1>4. Clean' BY <1>0, <1>1 DEF Clean
  <1>5. Branch' BY <1>0 DEF Branch, BeforeRun, Pushing, AfterPush
  <1> QED BY <1>2, <1>3, <1>4, <1>5

(* The change is measured before the proof's tests run. *)
LEMMA MeasureStep ==
    ASSUME Inv, Changes \/ CollectProof
    PROVE  Inv'
  <1> USE DEF Inv
  <1>0. /\ stage \in {"changes", "proof"} /\ stage' \in {"proof", "push", "write"}
        /\ push # "pushed" /\ "artifact" \notin tree
        /\ UNCHANGED <<job, tried, proc, final, head, applied, push, remote, written>>
    BY DEF Changes, CollectProof, Branch, AfterPush, Clean, BeforeProof
  <1>1. OneAgentAtATime' /\ Attempts' /\ RunResult'
    BY <1>0, QuietStep DEF BeforeRun, RunResult
  <1>2. CASE Changes
    <2>1. /\ index' \subseteq Works /\ files' \subseteq Works /\ "artifact" \notin index'
          /\ files' \subseteq index' /\ UNCHANGED tree
      <3>1. files = {} BY <1>0, <1>2 DEF Changes, Branch
      <3> QED BY <1>0, <1>2, <3>1 DEF Changes, TypeOK, Clean
    <2>2. stage' \in {"proof", "write"} /\ faults' \in 0..MaxFaults
      BY <1>2, HarnessJobAssumption DEF Changes, Fault, NoFault, TypeOK
    <2>3. TypeOK' BY <1>0, <2>1, <2>2 DEF TypeOK, Stages
    <2>4. Clean' BY <1>0, <2>1 DEF Clean
    <2>5. Branch' BY <1>0, <2>1, <2>2 DEF Branch, BeforeRun, Pushing
    <2> QED BY <1>1, <2>3, <2>4, <2>5
  <1>3. CASE CollectProof
    <2>1. tree' \subseteq Works BY <1>3 DEF CollectProof, TypeOK, Works
    <2>2. TypeOK' BY <1>0, <1>3, <2>1 DEF CollectProof, TypeOK, Stages
    <2>3. Clean' BY <1>0, <1>3 DEF CollectProof, Clean, BeforeProof, BeforeRun
    <2>4. Branch'
      <3>1. /\ UNCHANGED <<index, files>> /\ files \subseteq index
            /\ stage' = "write" \/ (stage' = "push" /\ final = "ok" /\ files # {})
        BY <1>3 DEF CollectProof, ToPush, Branch
      <3> QED BY <1>0, <3>1 DEF Branch, BeforeRun, Pushing
    <2> QED BY <1>1, <2>2, <2>3, <2>4
  <1> QED BY <1>2, <1>3

(* From the push's first check to its answer. *)
LEMMA PushStep ==
    ASSUME Inv, PushTarget \/ AskRemote \/ CommitWork \/ SendBranch
    PROVE  Inv'
  <1> USE DEF Inv
  <1>0. /\ stage \in Pushing /\ stage' \in {"ask", "commit", "send", "request", "write"}
        /\ final = "ok" /\ files # {} /\ files \subseteq index /\ push # "pushed"
        /\ push' \in {push, "refused", "pushed"} /\ faults' \in 0..MaxFaults
        /\ UNCHANGED <<job, tried, proc, final, tree, index, files, applied, written>>
    BY HarnessJobAssumption DEF PushTarget, AskRemote, CommitWork, SendBranch, Refuse, Fault, NoFault,
       Pushing, AfterPush, Branch, TypeOK, clone
  <1>1. OneAgentAtATime' /\ Attempts' /\ RunResult'
    BY <1>0, QuietStep DEF BeforeRun, Pushing, RunResult
  <1>2. CASE PushTarget \/ AskRemote
    <2>1. /\ UNCHANGED <<head, remote>> /\ stage' \in {"ask", "commit", "write"}
          /\ push' \in {push, "refused"}
      BY <1>2 DEF PushTarget, AskRemote, clone, Refuse
    <2>2. TypeOK' BY <1>0, <2>1 DEF TypeOK, Stages
    <2>3. Clean' BY <1>0, <2>1 DEF Clean, BeforeProof, BeforeRun
    <2>4. Branch' BY <1>0, <2>1 DEF Branch, BeforeRun, Pushing
    <2> QED BY <1>1, <2>2, <2>3, <2>4
  <1>3. CASE CommitWork
    <2>1. /\ UNCHANGED remote /\ push' \in {push, "refused"}
          /\ \/ stage' = "send" /\ head' = head \cup index
             \/ stage' = "write" /\ head' = head
      BY <1>3 DEF CommitWork, Refuse, Committed
    <2>2. TypeOK' BY <1>0, <2>1 DEF TypeOK, Stages
    <2>3. Clean' BY <1>0, <2>1 DEF Clean, BeforeProof, BeforeRun
    <2>4. Branch' BY <1>0, <2>1 DEF Branch, BeforeRun, Pushing
    <2> QED BY <1>1, <2>2, <2>3, <2>4
  <1>4. CASE SendBranch
    <2>1. /\ UNCHANGED head /\ files \subseteq head
          /\ \/ remote' = remote
             \/ remote' = [made |-> IF remote.made = "nobody" THEN "job" ELSE remote.made, has |-> head]
          /\ \/ stage' = "write" /\ push' = "refused"
             \/ /\ stage' = "request" /\ push' = "pushed"
                /\ remote' = [made |-> IF remote.made = "nobody" THEN "job" ELSE remote.made, has |-> head]
      BY <1>4 DEF SendBranch, Refuse, clone, Branch
    <2>2. /\ (remote').made \in {"nobody", "job", "other"} /\ (remote').has \subseteq Works
          /\ remote' \in [made : {"nobody", "job", "other"}, has : SUBSET Works]
          /\ "artifact" \notin (remote').has
          /\ (remote').made = "nobody" => (remote').has = {}
          /\ push' = "pushed" => (remote').made # "nobody" /\ (remote').has = head
      BY <2>1 DEF TypeOK, Clean, Branch
    <2>3. TypeOK' BY <1>0, <2>1, <2>2 DEF TypeOK, Stages
    <2>4. Clean' BY <1>0, <2>1, <2>2 DEF Clean, BeforeProof, BeforeRun
    <2>5. Branch' BY <1>0, <2>1, <2>2 DEF Branch, BeforeRun, Pushing, AfterPush
    <2> QED BY <1>1, <2>3, <2>4, <2>5
  <1> QED BY <1>2, <1>3, <1>4

(* The end of the job. *)
LEMMA LastStep ==
    ASSUME Inv, PullRequest \/ WriteResult
    PROVE  Inv'
  <1> USE DEF Inv
  <1>0. /\ stage \in {"request", "write"} /\ stage' \in {"write", "over"}
        /\ written' \in [ok : {"none", "ok", "error"}, push : {"none", "refused", "pushed"}]
        /\ (written').ok = "ok" => final = "ok"
        /\ UNCHANGED <<job, tried, proc, final, tree, index, head, files, applied, push, remote, faults>>
    BY DEF PullRequest, WriteResult, clone, TypeOK, RunResult
  <1>1. OneAgentAtATime' /\ Attempts' /\ RunResult'
    BY <1>0, QuietStep DEF BeforeRun
  <1>2. TypeOK' BY <1>0 DEF TypeOK, Stages
  <1>3. Clean' BY <1>0 DEF Clean, BeforeProof, BeforeRun
  <1>4. Branch' BY <1>0 DEF Branch, BeforeRun, Pushing, AfterPush
  <1> QED BY <1>1, <1>2, <1>3, <1>4

(* Somebody else at the forge. *)
LEMMA OtherStep ==
    ASSUME Inv, SomebodyPushes
    PROVE  Inv'
  <1> USE DEF Inv
  <1>0. UNCHANGED <<job, stage, tried, proc, final, tree, index, head, files, applied, push, written, faults>>
    BY DEF SomebodyPushes, clone
  <1>1. /\ (remote').made \in {"nobody", "job", "other"} /\ (remote').has \subseteq Works
        /\ remote' \in [made : {"nobody", "job", "other"}, has : SUBSET Works]
        /\ "artifact" \notin (remote').has /\ (remote').made # "nobody"
        /\ remote.made # "nobody" => remote.has \subseteq (remote').has
    BY DEF SomebodyPushes, TypeOK, Clean, Works, Others
  <1>2. TypeOK' BY <1>0, <1>1 DEF TypeOK
  <1>3. OneAgentAtATime' /\ Attempts' /\ RunResult'
    BY <1>0 DEF OneAgentAtATime, Attempts, Tries, RunResult, Earned, Current
  <1>4. Clean' BY <1>0, <1>1 DEF Clean
  <1>5. Branch' BY <1>0, <1>1 DEF Branch
  <1> QED BY <1>2, <1>3, <1>4, <1>5

(* The job is killed with everything it started. *)
LEMMA KilledStep ==
    ASSUME Inv, JobKilled
    PROVE  Inv'
  <1> USE DEF Inv
  <1>0. /\ stage' = "gone" /\ faults' \in 0..MaxFaults
        /\ UNCHANGED <<job, tried, final, tree, index, head, files, applied, push, remote, written>>
    <2>1. /\ stage' = "gone" /\ faults < MaxFaults /\ faults' = faults + 1
          /\ UNCHANGED <<job, tried, final, tree, index, head, files, applied, push, remote, written>>
      BY DEF JobKilled, Fault, clone
    <2>2. faults \in 0..MaxFaults BY DEF TypeOK
    <2> QED BY <2>1, <2>2, HarnessJobAssumption
  <1>1. proc' \in [Agents -> Proc] /\ \A b \in Agents :
            /\ proc'[b].pc \notin {"running", "exited"} /\ proc'[b].said = proc[b].said
            /\ proc'[b].code = proc[b].code /\ proc'[b].stop = proc[b].stop /\ proc'[b].cut = proc[b].cut
    <2> DEFINE q(b) == [proc[b] EXCEPT !.pc = IF proc[b].pc = "none" THEN "none" ELSE "closed", !.pipe = "free"]
    <2>1. proc' = [b \in Agents |-> q(b)] BY DEF JobKilled
    <2>2. ASSUME NEW b \in Agents
          PROVE  /\ q(b) \in Proc /\ q(b).pc \notin {"running", "exited"} /\ q(b).said = proc[b].said
                 /\ q(b).code = proc[b].code /\ q(b).stop = proc[b].stop /\ q(b).cut = proc[b].cut
      <3>1. proc[b] \in Proc BY DEF TypeOK
      <3> QED BY <3>1 DEF Proc
    <2> HIDE DEF q
    <2> QED BY <2>1, <2>2
  <1>2. TypeOK' BY <1>0, <1>1 DEF TypeOK, Stages
  <1>3. OneAgentAtATime' /\ Attempts' BY <1>0, <1>1 DEF OneAgentAtATime, Attempts, BeforeRun
  <1>4. RunResult' BY <1>0, <1>1, CurrentAgent DEF RunResult, Earned, Current, BeforeRun
  <1>5. Clean' BY <1>0 DEF Clean, BeforeProof, BeforeRun
  <1>6. Branch' BY <1>0 DEF Branch, BeforeRun, Pushing, AfterPush
  <1> QED BY <1>2, <1>3, <1>4, <1>5, <1>6

-------------------------------------------------------------------------------
(* The parts above hold in every state of a job. *)
THEOREM JobInvariance == Spec => []Inv
  <1>1. Inv /\ [Next]_vars => Inv'
    <2> SUFFICES ASSUME Inv, [Next]_vars PROVE Inv' OBVIOUS
    <2>1. CASE JobSteps
      BY <2>1, EarlyStep, PickStep, EndStep, MeasureStep, PushStep, LastStep DEF JobSteps
    <2>2. ASSUME NEW a \in Agents,
                 Edit(a) \/ AgentCommits(a) \/ Says(a) \/ Exit(a) \/ LetsGo(a) \/ Stops(a) \/ KillTimer(a)
          PROVE  Inv'
      BY <2>2, WorkStep, AgentStep
    <2>3. CASE SomebodyPushes BY <2>3, OtherStep
    <2>4. CASE JobKilled BY <2>4, KilledStep
    <2>5. CASE UNCHANGED vars
      BY <2>5 DEF vars, clone, Inv, TypeOK, OneAgentAtATime, Attempts, Tries, RunResult, Earned, Current, Clean, Branch
    <2> QED BY <2>1, <2>2, <2>3, <2>4, <2>5 DEF Next
  <1> QED BY JobInvInit, <1>1, PTL DEF Spec

(* Type correctness, with the number of attempts (harness/index.js run). *)
THEOREM JobTypes == Spec => []TypeOK
  BY JobInvariance, PTL DEF Inv

(* A job never has two agents in one clone, and measures the change only when
   the last of them is gone. *)
THEOREM OneAgent == Spec => []OneAgentAtATime
  BY JobInvariance, PTL DEF Inv

(* A job that says it is ok is so for what its last agent did. *)
THEOREM OkEarned == Spec => []OkIsEarned
  <1>1. Inv => OkIsEarned BY DEF Inv, RunResult, OkIsEarned, Earned
  <1> QED BY JobInvariance, <1>1, PTL

(* The pushed branch holds the reported change and nothing of the proof's. *)
THEOREM PushedPatch == Spec => []PushedIsThePatch
  <1>1. Inv => PushedIsThePatch BY DEF Inv, Branch, Clean, PushedIsThePatch
  <1> QED BY JobInvariance, <1>1, PTL

(* No push of a job loses what somebody else pushed, whenever they did. *)
THEOREM OthersKeep == Spec => OthersWorkStays
  <1>1. Inv /\ [Next]_vars => [(Others \in remote.has) => (Others \in (remote').has)]_vars
    <2> SUFFICES ASSUME Inv, Next, Others \in remote.has PROVE Others \in (remote').has OBVIOUS
    <2>1. CASE SendBranch
      BY <2>1 DEF SendBranch, Taken, Inv, Branch
    <2>2. CASE remote' = remote BY <2>2
    <2>3. SendBranch \/ remote' = remote
      BY DEF Next, JobSteps, Parse, Prepare, ApplyPatch, Pick, EndAttempt, Changes, CollectProof, PushTarget,
         AskRemote, CommitWork, PullRequest, WriteResult, Edit, AgentCommits, Says, Exit, LetsGo, Stops, KillTimer,
         SomebodyPushes, JobKilled
    <2> QED BY <2>1, <2>2, <2>3
  <1> QED BY JobInvariance, <1>1, PTL DEF Spec, OthersWorkStays

-------------------------------------------------------------------------------
(* What the engine decides (TaskChain). *)

(* A row of codes_attempts, whatever the runners are called. *)
Row(R) ==
    [runner : R, state : Chain!AttemptStates, reason : Chain!Reasons \cup {"none"}, kind : Chain!Kinds,
     parent : Nat, hit : {"none", "steps", "minutes", "usd", "tokens"}, session : BOOLEAN, created : Nat]

(* Attempts each of which follows up an earlier one or none. *)
ChainRows(A) ==
    /\ \E R : A \in Seq(Row(R))
    /\ A # <<>>
    /\ \A i \in 1..Len(A) : A[i].parent < i

(* In the order they were written in. *)
ChainOrdered(A) ==
    /\ ChainRows(A)
    /\ \A i, j \in 1..Len(A) : i < j => A[j].created >= A[i].created

LEMMA ChainLength ==
    ASSUME NEW A, ChainRows(A)
    PROVE  /\ Len(A) \in Nat \ {0} /\ DOMAIN A = 1..Len(A) /\ Len(A) \in 1..Len(A)
           /\ \A i \in 1..Len(A) : /\ A[i].created \in Nat /\ A[i].parent \in Nat
                                   /\ A[i].state \in Chain!AttemptStates /\ A[i].kind \in Chain!Kinds
                                   /\ A[i].reason \in Chain!Reasons \cup {"none"}
<1>1. PICK R : A \in Seq(Row(R))
    BY DEF ChainRows
<1>2. /\ Len(A) \in Nat \ {0} /\ DOMAIN A = 1..Len(A)
      /\ \A i \in 1..Len(A) : A[i] \in Row(R)
    BY <1>1 DEF ChainRows
<1>3. \A a \in Row(R) : /\ a.created \in Nat /\ a.parent \in Nat
                         /\ a.state \in Chain!AttemptStates /\ a.kind \in Chain!Kinds
                         /\ a.reason \in Chain!Reasons \cup {"none"}
    BY DEF Row
<1> QED
    BY <1>2, <1>3

(* The engine reads the attempts in the order of their numbers. *)
LEMMA UpdatedGrows ==
    ASSUME NEW A, ChainOrdered(A)
    PROVE  /\ \A i \in 1..Len(A) : Chain!Updated(A, i) \in Int
           /\ \A i, j \in 1..Len(A) : i < j => Chain!Updated(A, i) < Chain!Updated(A, j)
<1>1. ASSUME NEW i \in 1..Len(A), NEW j \in 1..Len(A), i < j
      PROVE  Chain!Updated(A, i) < Chain!Updated(A, j)
  <2> DEFINE c == A[i].created
             d == A[j].created
  <2>1. c \in Nat /\ d \in Nat /\ c <= d
      BY <1>1, ChainLength DEF ChainOrdered
  <2>2. Chain!Updated(A, i) = 1000 * c + i /\ Chain!Updated(A, j) = 1000 * d + j
      BY DEF Chain!Updated
  <2> HIDE DEF c, d
  <2> QED
      BY <1>1, <2>1, <2>2
<1>2. \A i \in 1..Len(A) : Chain!Updated(A, i) \in Int
    BY ChainLength DEF ChainOrdered, Chain!Updated
<1> QED
    BY <1>1, <1>2

(* The latest of some attempts is the one with the greatest number. *)
Latest(A, S) == CHOOSE k \in S : \A l \in S : Chain!Updated(A, l) <= Chain!Updated(A, k)

LEMMA LatestIs ==
    ASSUME NEW A, ChainOrdered(A), NEW S \in SUBSET (1..Len(A)), S # {}
    PROVE  Latest(A, S) \in S /\ \A l \in S : l <= Latest(A, S)
<1> DEFINE N == Len(A)
           Back == {b \in Nat : \E k \in S : b = N - k}
           Is(k) == \A l \in S : Chain!Updated(A, l) <= Chain!Updated(A, k)
<1>1. N \in Nat
    BY ChainLength DEF ChainOrdered
<1>2. Back \in SUBSET Nat /\ Back # {} /\ \A k \in S : N - k \in Back
  <2>1. \A k \in S : N - k \in Nat
      BY <1>1
  <2> QED
      BY <2>1
<1>3. PICK b \in Back : \A c \in Back : b <= c
    BY <1>2, LeastNumber
<1>4. PICK k \in S : b = N - k
    BY <1>3
<1>5. ASSUME NEW l \in S PROVE l <= k
  <2>1. b <= N - l
      BY <1>2, <1>3
  <2>2. k \in Nat /\ l \in Nat
      BY <1>1
  <2> QED
      BY <1>1, <1>4, <2>1, <2>2
<1>6. Is(k)
  <2>1. \A l \in S : l = k \/ l < k
      BY <1>5
  <2> QED
      BY <2>1, UpdatedGrows
<1>7. \A m \in S : Is(m) => \A l \in S : l <= m
    BY UpdatedGrows
<1>8. Latest(A, S) = CHOOSE m \in S : Is(m)
    BY DEF Latest
<1> HIDE DEF Is
<1> QED
    BY <1>6, <1>7, <1>8

(* An attempt is carried on by a later one; the last one by none. *)
LEMMA CarriedLater ==
    ASSUME NEW A, ChainOrdered(A), NEW i \in 1..Len(A), Chain!Carried(A, i) # 0
    PROVE  Chain!Carried(A, i) \in 1..Len(A) /\ A[Chain!Carried(A, i)].parent = i /\ i < Chain!Carried(A, i)
<1> DEFINE kids == {k \in DOMAIN A : A[k].parent = i}
<1>1. DOMAIN A = 1..Len(A) /\ \A k \in 1..Len(A) : A[k].parent < k
    BY ChainLength DEF ChainOrdered, ChainRows
<1>2. kids # {} /\ Chain!Carried(A, i) = Latest(A, kids)
    BY DEF Chain!Carried, Latest
<1>3. Latest(A, kids) \in kids
    BY <1>1, <1>2, LatestIs
<1> QED
    BY <1>1, <1>2, <1>3

LEMMA ChainLast ==
    ASSUME NEW A, ChainOrdered(A)
    PROVE  Chain!Carried(A, Len(A)) = 0 /\ Latest(A, DOMAIN A) = Len(A)
<1>1. Len(A) \in 1..Len(A) /\ DOMAIN A = 1..Len(A) /\ Len(A) \in Nat
    BY ChainLength DEF ChainOrdered
<1>2. Chain!Carried(A, Len(A)) = 0
    BY <1>1, CarriedLater
<1>3. Latest(A, DOMAIN A) \in DOMAIN A /\ Len(A) <= Latest(A, DOMAIN A)
    BY <1>1, LatestIs
<1> QED
    BY <1>1, <1>2, <1>3

-------------------------------------------------------------------------------
(* The attempts from which on no minute passed without another. *)
Tail60(A) == {i \in 1..Len(A) : \A j \in i..(Len(A) - 1) : A[j + 1].created - A[j].created < 60}

LEMMA TailUp ==
    ASSUME NEW A, ChainOrdered(A)
    PROVE  /\ Len(A) \in Tail60(A)
           /\ \A i \in Tail60(A) : \A k \in 1..Len(A) : i <= k => k \in Tail60(A)
<1>1. Len(A) \in Nat \ {0}
    BY ChainLength DEF ChainOrdered
<1> QED
    BY <1>1 DEF Tail60

(* What is not more than a minute older is among them. *)
LEMMA TailReaches ==
    ASSUME NEW A, ChainOrdered(A), NEW i \in Tail60(A), NEW k \in 1..Len(A),
           Chain!Updated(A, k) >= Chain!Updated(A, i) - Chain!LaterWindow
    PROVE  k \in Tail60(A)
<1> DEFINE N == Len(A)
<1>1. N \in Nat \ {0} /\ i \in 1..N /\ \A j \in 1..N : A[j].created \in Nat
    BY ChainLength DEF ChainOrdered, Tail60
<1>2. CASE i <= k
    BY <1>2, TailUp
<1>3. CASE k < i
  <2> DEFINE c == A[k].created
             d == A[i].created
  <2>1. c \in Nat /\ d \in Nat /\ 1000 * c + k >= 1000 * d + i - 60000
      BY <1>1 DEF Chain!Updated, Chain!LaterWindow
  <2> HIDE DEF c, d
  <2>2. d - c < 60
      BY <1>1, <1>3, <2>1
  <2>3. ASSUME NEW j \in k..(N - 1) PROVE A[j + 1].created - A[j].created < 60
    <3>1. CASE i <= j
        BY <1>1, <2>3, <3>1 DEF Tail60
    <3>2. CASE j < i
      <4>1. j \in 1..N /\ j + 1 \in 1..N /\ k <= j /\ j + 1 <= i
          BY <1>1, <2>3, <3>2
      <4>2. c <= A[j].created
          BY <1>1, <4>1 DEF ChainOrdered, c
      <4>3. A[j + 1].created <= d
          BY <1>1, <4>1 DEF ChainOrdered, d
      <4> DEFINE e == A[j].created
                 f == A[j + 1].created
      <4>4. e \in Nat /\ f \in Nat /\ c \in Nat /\ d \in Nat
          BY <1>1, <2>1, <4>1
      <4>5. c <= e /\ f <= d
          BY <4>2, <4>3
      <4>6. f - e < 60
        <5> HIDE DEF e, f
        <5> QED
            BY <2>2, <4>4, <4>5
      <4> QED
          BY <4>6
    <3> QED
        BY <1>1, <2>3, <3>1, <3>2
  <2> QED
      BY <2>3 DEF Tail60
<1> QED
    BY <1>1, <1>2, <1>3

LEMMA TailLater ==
    ASSUME NEW A, ChainOrdered(A), NEW i \in Tail60(A)
    PROVE  Chain!LaterEnd(A, i) \in Tail60(A) \cup {0}
<1> DEFINE later == {k \in DOMAIN A : /\ k # i
                                      /\ Chain!Portal(A[k].runner)
                                      /\ Chain!Updated(A, k) >= Chain!Updated(A, i) - Chain!LaterWindow}
           live == {k \in later : A[k].state \in {"running", "queued"}}
           done == {k \in later : A[k].state = "done"}
<1>1. DOMAIN A = 1..Len(A)
    BY ChainLength DEF ChainOrdered
<1>2. \A k \in later : k \in Tail60(A)
    BY <1>1, TailReaches
<1>3. Chain!LaterEnd(A, i) = IF live # {} THEN Latest(A, live)
                             ELSE IF done # {} THEN Latest(A, done)
                             ELSE IF later # {} THEN Latest(A, later) ELSE 0
    BY DEF Chain!LaterEnd, Latest
<1>4. live \subseteq later /\ done \subseteq later /\ later \subseteq 1..Len(A)
    BY <1>1
<1> HIDE DEF later, live, done
<1>5. /\ live # {} => Latest(A, live) \in later
      /\ done # {} => Latest(A, done) \in later
      /\ later # {} => Latest(A, later) \in later
    BY <1>4, LatestIs
<1> QED
    BY <1>2, <1>3, <1>5

-------------------------------------------------------------------------------
(* What M steps of F make of a. *)
Iterated(F, a, M, f) == f = [n \in 0..M |-> IF n = 0 THEN a ELSE F[f[n - 1]]]

(* A step that stays in a set can be taken any number of times. *)
LEMMA Iterates ==
    ASSUME NEW S, NEW F \in [S -> S], NEW a \in S, NEW M \in Nat
    PROVE  \E f \in [0..M -> S] : Iterated(F, a, M, f)
<1> DEFINE Is(m, g) == g \in [0..m -> S] /\ g = [n \in 0..m |-> IF n = 0 THEN a ELSE F[g[n - 1]]]
           Has(m) == \E g : Is(m, g)
           Lacks == {m \in 0..M : ~Has(m)}
<1>1. Has(0)
  <2>1. Is(0, [n \in 0..0 |-> a])
      OBVIOUS
  <2> QED
      BY <2>1
<1>2. ASSUME NEW m \in Nat, Has(m) PROVE Has(m + 1)
  <2>1. PICK g : Is(m, g)
      BY <1>2
  <2> DEFINE k == [n \in 0..(m + 1) |-> IF n = m + 1 THEN F[g[m]] ELSE g[n]]
  <2>2. \A n \in 0..m : g[n] \in S /\ g[n] = IF n = 0 THEN a ELSE F[g[n - 1]]
      BY <2>1
  <2>3. ASSUME NEW n \in 0..(m + 1) PROVE k[n] \in S /\ k[n] = IF n = 0 THEN a ELSE F[k[n - 1]]
    <3>1. CASE n = 0
        BY <2>2, <3>1
    <3>2. CASE n = m + 1
      <4>1. k[n] = F[g[m]] /\ n - 1 = m /\ k[m] = g[m] /\ n # 0 /\ g[m] \in S
          BY <2>2, <3>2
      <4> HIDE DEF k
      <4> QED
          BY <4>1
    <3>3. CASE n # 0 /\ n # m + 1
      <4>1. k[n] = g[n] /\ n - 1 \in 0..m /\ n \in 0..m /\ k[n - 1] = g[n - 1]
          BY <3>3
      <4> HIDE DEF k
      <4> QED
          BY <2>2, <3>3, <4>1
    <3> QED
        BY <3>1, <3>2, <3>3
  <2>4. k = [n \in 0..(m + 1) |-> k[n]]
      OBVIOUS
  <2> HIDE DEF k
  <2>5. k \in [0..(m + 1) -> S] /\ k = [n \in 0..(m + 1) |-> IF n = 0 THEN a ELSE F[k[n - 1]]]
      BY <2>3, <2>4
  <2> QED
      BY <2>5
<1> HIDE DEF Has
<1>3. Lacks = {}
  <2> SUFFICES ASSUME Lacks # {} PROVE FALSE
      OBVIOUS
  <2>1. PICK m \in Lacks : \A j \in Lacks : m <= j
      BY LeastNumber, Lacks \subseteq Nat
  <2>2. m \in 1..M /\ m - 1 \in Nat /\ m - 1 \in 0..M /\ m - 1 \notin Lacks
      BY <1>1, <2>1
  <2>3. Has(m - 1) /\ (m - 1) + 1 = m
      BY <2>2
  <2> QED
      BY <1>2, <2>1, <2>2, <2>3
<1>4. Has(M)
    BY <1>3
<1> QED
    BY <1>4 DEF Has, Iterated

(* The end of the retry links from an attempt is a later one. *)
LEMMA LinkEndLater ==
    ASSUME NEW A, ChainOrdered(A), NEW i \in 1..Len(A), Chain!Carried(A, i) # 0
    PROVE  Chain!LinkEnd(A, i) \in 1..Len(A) /\ i < Chain!LinkEnd(A, i)
<1> DEFINE S == {k \in 1..Len(A) : i < k}
           On(e) == LET k == IF e = 0 THEN 0 ELSE Chain!Carried(A, e) IN IF k = 0 THEN e ELSE k
           F == [e \in S |-> On(e)]
           Is(f) == f = [h \in 0..8 |-> IF h = 0 THEN Chain!Carried(A, i) ELSE On(f[h - 1])]
           hop == CHOOSE f : Is(f)
<1>1. Chain!Carried(A, i) \in S
    BY CarriedLater
<1>2. ASSUME NEW e \in S PROVE On(e) \in S
  <2>1. e \in 1..Len(A) /\ i < e
      OBVIOUS
  <2>2. Chain!Carried(A, e) # 0 => Chain!Carried(A, e) \in 1..Len(A) /\ e < Chain!Carried(A, e)
      BY <2>1, CarriedLater
  <2> QED
      BY <2>1, <2>2
<1>3. F \in [S -> S]
    BY <1>2
<1>4. PICK f \in [0..8 -> S] : Iterated(F, Chain!Carried(A, i), 8, f)
  <2> HIDE DEF F, S
  <2> QED
      BY <1>1, <1>3, Iterates
<1>5. \A n \in 0..8 : f[n] \in S /\ (n # 0 => f[n - 1] \in S)
  <2> HIDE DEF F, S
  <2> QED
      BY <1>4
<1>6. Is(f)
  <2> HIDE DEF S, On
  <2>1. \A n \in 0..8 : n # 0 => F[f[n - 1]] = On(f[n - 1])
      BY <1>5
  <2> HIDE DEF F
  <2> QED
      BY <1>4, <2>1 DEF Iterated
<1>7. Is(hop)
    BY <1>6
<1>8. \A h \in 0..8 : hop[h] = IF h = 0 THEN Chain!Carried(A, i) ELSE On(hop[h - 1])
    BY <1>7
<1>9. Chain!LinkEnd(A, i) = hop[7]
    BY DEF Chain!LinkEnd
<1>10. hop[7] \in S
  <2> HIDE DEF hop, S, On
  <2>1. hop[0] \in S /\ \A h \in 1..8 : hop[h - 1] \in S => hop[h] \in S
      BY <1>1, <1>2, <1>8
  <2>2. hop[1] \in S /\ hop[2] \in S /\ hop[3] \in S /\ hop[4] \in S
      BY <2>1
  <2> QED
      BY <2>1, <2>2
<1> HIDE DEF hop
<1> QED
    BY <1>9, <1>10

(* Where a chain is settled, from an attempt of a set that what carried on and
   what resolved its attempts do not leave. *)
Leads(A, r, S) ==
    /\ S \in SUBSET (1..Len(A))
    /\ \A e \in S : /\ Chain!Carried(A, e) \in S \cup {0}
                    /\ r[e].by \in S \cup {0}

LEMMA SettleIn ==
    ASSUME NEW A, NEW r, NEW S, Leads(A, r, S), NEW i \in S
    PROVE  Chain!SettleChain(A, r, i) \in S
<1> DEFINE T == [end : S, trail : SUBSET S]
           Here == [end |-> i, trail |-> {i}]
           Onward(e) ==
               LET by == r[e].by
               IN  IF Chain!Carried(A, e) \notin {0, e} THEN Chain!Carried(A, e)
                   ELSE IF by \notin {0, e, i} THEN by ELSE 0
           Hop(t) == LET k == Onward(t.end)
                     IN  IF k = 0 \/ k \in t.trail THEN t ELSE [end |-> k, trail |-> t.trail \cup {k}]
           F == [t \in T |-> Hop(t)]
           Is(f) == f = [h \in 0..12 |-> IF h = 0 THEN Here ELSE Hop(f[h - 1])]
           hop == CHOOSE f : Is(f)
<1>1. Here \in T
    OBVIOUS
<1>2. ASSUME NEW t \in T PROVE Hop(t) \in T
  <2>1. t.end \in S /\ t.trail \in SUBSET S
      OBVIOUS
  <2>2. Onward(t.end) \in S \cup {0}
      BY <2>1 DEF Leads
  <2> HIDE DEF Onward
  <2> QED
      BY <2>1, <2>2
<1> HIDE DEF Onward, Here
<1>3. F \in [T -> T]
  <2> HIDE DEF Hop, T
  <2> QED
      BY <1>2
<1>4. PICK f \in [0..12 -> T] : Iterated(F, Here, 12, f)
  <2> HIDE DEF F, T, Hop
  <2> QED
      BY <1>1, <1>3, Iterates
<1>5. Is(f)
  <2> HIDE DEF T, Hop
  <2>1. \A n \in 0..12 : f[n] \in T /\ (n # 0 => f[n - 1] \in T)
      BY <1>4
  <2>2. \A n \in 0..12 : n # 0 => F[f[n - 1]] = Hop(f[n - 1])
      BY <2>1
  <2> HIDE DEF F
  <2> QED
      BY <1>4, <2>2 DEF Iterated
<1>6. Is(hop)
  <2> HIDE DEF Hop
  <2> QED
    BY <1>5
<1>7. Chain!SettleChain(A, r, i) = hop[12].end
    BY DEF Chain!SettleChain, Here, Onward
<1>8. hop[12] \in T
  <2> HIDE DEF Hop, T
  <2>1. \A h \in 0..12 : hop[h] = IF h = 0 THEN Here ELSE Hop(hop[h - 1])
      BY <1>6
  <2> HIDE DEF hop
  <2>2. hop[0] \in T /\ \A h \in 1..12 : hop[h - 1] \in T => hop[h] \in T
      BY <1>1, <1>2, <2>1
  <2>3. hop[1] \in T /\ hop[2] \in T /\ hop[3] \in T /\ hop[4] \in T
      BY <2>2
  <2>4. hop[5] \in T /\ hop[6] \in T /\ hop[7] \in T /\ hop[8] \in T
      BY <2>2, <2>3
  <2>5. hop[9] \in T /\ hop[10] \in T /\ hop[11] \in T
      BY <2>2, <2>4
  <2> QED
      BY <2>2, <2>5
<1> HIDE DEF hop
<1> QED
    BY <1>7, <1>8

-------------------------------------------------------------------------------
(* Attempts each of which follows up the one before because it failed, none of
   them Claude's once one was not. *)
Linked(A) ==
    /\ \A i \in 2..Len(A) : A[i].parent = i - 1
    /\ \A i \in 1..(Len(A) - 1) : A[i].state \notin {"done", "running", "queued"}
    /\ \A i, j \in 1..Len(A) : i < j /\ Chain!Portal(A[i].runner) => Chain!Portal(A[j].runner)

LEMMA LinkedCarried ==
    ASSUME NEW A, ChainOrdered(A), Linked(A), Len(A) > 1
    PROVE  Chain!Carried(A, Len(A) - 1) = Len(A)
<1> DEFINE N == Len(A)
           kids == {k \in DOMAIN A : A[k].parent = N - 1}
<1>1. N \in Nat /\ DOMAIN A = 1..N /\ \A k \in 1..N : A[k].parent < k
    BY ChainLength DEF ChainOrdered, ChainRows
<1>2. A[N].parent = N - 1
    BY <1>1 DEF Linked
<1>3. N \in kids /\ kids \in SUBSET (1..N)
    BY <1>1, <1>2
<1>4. Latest(A, kids) \in kids /\ \A l \in kids : l <= Latest(A, kids)
    BY <1>3, LatestIs
<1>5. Chain!Carried(A, N - 1) = Latest(A, kids)
    BY <1>3 DEF Chain!Carried, Latest
<1>6. Latest(A, kids) \in 1..N /\ N <= Latest(A, kids)
    BY <1>3, <1>4
<1>7. Latest(A, kids) = N
  <2> HIDE DEF kids
  <2> QED
      BY <1>1, <1>6
<1> QED
    BY <1>5, <1>7

(* Its last attempt is taken for resolved by the one before it at most. *)
LEMMA LinkedLater ==
    ASSUME NEW A, ChainOrdered(A), Linked(A)
    PROVE  Chain!LaterEnd(A, Len(A)) \in {0, Len(A) - 1}
<1> DEFINE N == Len(A)
           Older(k) == Chain!Updated(A, k) >= Chain!Updated(A, N) - Chain!LaterWindow
           later == {k \in DOMAIN A : k # N /\ Chain!Portal(A[k].runner) /\ Older(k)}
           live == {k \in later : A[k].state \in {"running", "queued"}}
           done == {k \in later : A[k].state = "done"}
<1>1. N \in Nat \ {0} /\ DOMAIN A = 1..N
    BY ChainLength DEF ChainOrdered
<1>2. \A k \in later : k \in 1..(N - 1)
    BY <1>1
<1>3. live = {} /\ done = {}
    BY <1>2 DEF Linked
<1>4. Chain!LaterEnd(A, N) = IF later # {} THEN Latest(A, later) ELSE 0
  <2>1. Chain!LaterEnd(A, N) = IF live # {} THEN Latest(A, live)
                               ELSE IF done # {} THEN Latest(A, done)
                               ELSE IF later # {} THEN Latest(A, later) ELSE 0
      BY DEF Chain!LaterEnd, Latest
  <2> HIDE DEF live, done
  <2> QED
      BY <1>3, <2>1
<1>5. ASSUME NEW k \in later, k # N - 1 PROVE N - 1 \in later
  <2>1. k \in 1..N /\ N - 1 \in 1..N /\ k < N - 1
      BY <1>1, <1>2, <1>5
  <2>2. Chain!Portal(A[N - 1].runner)
      BY <1>5, <2>1 DEF Linked
  <2>3. Chain!Updated(A, k) < Chain!Updated(A, N - 1) /\ Chain!Updated(A, k) \in Int
        /\ Chain!Updated(A, N - 1) \in Int /\ Chain!Updated(A, N) \in Int
      BY <1>1, <2>1, UpdatedGrows
  <2>4. Older(N - 1)
      BY <1>5, <2>3 DEF Chain!LaterWindow
  <2>5. N - 1 # N
    <3> HIDE DEF N
    <3> QED
        BY <1>1
  <2>6. N - 1 \in DOMAIN A
      BY <1>1, <2>1, Zenon
  <2> HIDE DEF Older, N
  <2> QED
      BY <2>2, <2>4, <2>5, <2>6, Zenon
<1>6. later # {} => Latest(A, later) = N - 1
  <2>1. later \in SUBSET (1..N)
      BY <1>1
  <2> SUFFICES ASSUME later # {} PROVE Latest(A, later) = N - 1
      OBVIOUS
  <2>2. Latest(A, later) \in later /\ \A l \in later : l <= Latest(A, later)
      BY <2>1, LatestIs
  <2>3. N - 1 \in later
      BY <1>5, <2>2
  <2>4. Latest(A, later) \in 1..(N - 1)
      BY <1>2, <2>2
  <2> HIDE DEF later
  <2> QED
      BY <1>1, <2>2, <2>3, <2>4
<1> QED
    BY <1>4, <1>6

(* What the engine believes resolved the attempts: near the end, an attempt near
   the end; and of a linked chain's last attempt, the one before it. *)
ResolvedNear(A, r) ==
    /\ DOMAIN r = DOMAIN A
    /\ \A i \in Tail60(A) : r[i].by \in Tail60(A) \cup {0}
    /\ Linked(A) => /\ r[Len(A)].by \in {0, Len(A) - 1, Len(A)}
                    /\ A[Len(A)].state = "budget-stopped" => r[Len(A)].by = 0

LEMMA NearLeads ==
    ASSUME NEW A, ChainOrdered(A), NEW r, ResolvedNear(A, r)
    PROVE  Leads(A, r, Tail60(A))
<1>1. Tail60(A) \in SUBSET (1..Len(A))
    BY DEF Tail60
<1>2. ASSUME NEW e \in Tail60(A) PROVE Chain!Carried(A, e) \in Tail60(A) \cup {0}
  <2>1. e \in 1..Len(A)
      BY <1>1
  <2>2. CASE Chain!Carried(A, e) = 0
      BY <2>2
  <2>3. CASE Chain!Carried(A, e) # 0
    <3>1. Chain!Carried(A, e) \in 1..Len(A) /\ e < Chain!Carried(A, e)
        BY <2>1, <2>3, CarriedLater
    <3>2. e <= Chain!Carried(A, e)
        BY <2>1, <3>1
    <3> QED
        BY <3>1, <3>2, TailUp
  <2> QED
      BY <2>2, <2>3
<1> QED
    BY <1>1, <1>2 DEF Leads, ResolvedNear

LEMMA FirstNear ==
    ASSUME NEW A, ChainOrdered(A)
    PROVE  ResolvedNear(A, Chain!FirstResolved(A))
<1> DEFINE r == Chain!FirstResolved(A)
<1>1. DOMAIN A = 1..Len(A) /\ Len(A) \in 1..Len(A) /\ Tail60(A) \subseteq DOMAIN A
    BY ChainLength DEF ChainOrdered, Tail60
<1>2. DOMAIN r = DOMAIN A
    BY DEF Chain!FirstResolved
<1>3. ASSUME NEW i \in DOMAIN A
      PROVE  r[i].by \in {0, IF Chain!Carried(A, i) # 0 THEN Chain!LinkEnd(A, i) ELSE Chain!LaterEnd(A, i)}
    BY DEF Chain!FirstResolved, Chain!Unresolved
<1> HIDE DEF r
<1>4. ASSUME NEW i \in Tail60(A) PROVE r[i].by \in Tail60(A) \cup {0}
  <2>1. i \in 1..Len(A) /\ i \in DOMAIN A
      BY <1>1
  <2>2. CASE Chain!Carried(A, i) # 0
    <3>1. Chain!LinkEnd(A, i) \in 1..Len(A) /\ i < Chain!LinkEnd(A, i)
        BY <2>1, <2>2, LinkEndLater
    <3>2. Chain!LinkEnd(A, i) \in Tail60(A)
        BY <2>1, <3>1, TailUp
    <3> QED
        BY <1>3, <2>1, <2>2, <3>2
  <2>3. CASE Chain!Carried(A, i) = 0
      BY <1>3, <2>1, <2>3, TailLater
  <2> QED
      BY <2>2, <2>3
<1>5. Linked(A) => r[Len(A)].by \in {0, Len(A) - 1}
  <2>1. Len(A) \in DOMAIN A
      BY <1>1
  <2> QED
      BY <1>3, <2>1, ChainLast, LinkedLater
<1>6. A[Len(A)].state = "budget-stopped" => r[Len(A)].by = 0
    BY <1>1 DEF Chain!FirstResolved, Chain!Unresolved, r
<1> QED
    BY <1>2, <1>4, <1>5, <1>6 DEF ResolvedNear, r

(* From the attempt before the last, a linked chain ends at the last. *)
LEMMA LinkedSettles ==
    ASSUME NEW A, ChainOrdered(A), Linked(A), Len(A) > 1, NEW r, r[Len(A)].by \in {0, Len(A) - 1, Len(A)}
    PROVE  Chain!SettleChain(A, r, Len(A) - 1) = Len(A)
<1> DEFINE N == Len(A)
           i == N - 1
           Here == [end |-> i, trail |-> {i}]
           There == [end |-> N, trail |-> {i, N}]
           Onward(e) ==
               LET by == r[e].by
               IN  IF Chain!Carried(A, e) \notin {0, e} THEN Chain!Carried(A, e)
                   ELSE IF by \notin {0, e, i} THEN by ELSE 0
           Hop(t) == LET k == Onward(t.end)
                     IN  IF k = 0 \/ k \in t.trail THEN t ELSE [end |-> k, trail |-> t.trail \cup {k}]
           Is(f) == f = [h \in 0..12 |-> IF h = 0 THEN Here ELSE Hop(f[h - 1])]
           hop == CHOOSE f : Is(f)
<1>1. N \in Nat /\ N > 1
    BY ChainLength DEF ChainOrdered
<1>2. Onward(i) = N
    BY <1>1, LinkedCarried
<1>3. Onward(N) = 0
    BY <1>1, ChainLast
<1> HIDE DEF Onward
<1>4. Hop(Here) = There
  <2>1. N # 0 /\ N \notin {i}
      BY <1>1
  <2>2. Here.end = i /\ Here.trail = {i} /\ {i} \cup {N} = {i, N}
      OBVIOUS
  <2> HIDE DEF N, i, Here
  <2> QED
      BY <1>2, <2>1, <2>2
<1>5. Hop(There) = There
    BY <1>3
<1>6. Is([h \in 0..12 |-> IF h = 0 THEN Here ELSE There])
  <2> DEFINE g == [h \in 0..12 |-> IF h = 0 THEN Here ELSE There]
  <2> HIDE DEF Here, There, Hop
  <2>1. \A h \in 0..12 : h # 0 => h - 1 \in 0..12 /\ Hop(g[h - 1]) = There
    <3>1. \A h \in 0..12 : h # 0 => h - 1 \in 0..12 /\ g[h - 1] \in {Here, There}
        OBVIOUS
    <3> HIDE DEF g
    <3> QED
        BY <1>4, <1>5, <3>1
  <2>2. g = [h \in 0..12 |-> IF h = 0 THEN Here ELSE Hop(g[h - 1])]
      BY <2>1
  <2> QED
      BY <2>2
<1>7. Is(hop)
    BY <1>6
<1>8. Chain!SettleChain(A, r, i) = hop[12].end
    BY DEF Chain!SettleChain, Onward
<1>9. hop[12] = There
  <2> HIDE DEF Here, There, Hop
  <2>1. \A h \in 0..12 : hop[h] = IF h = 0 THEN Here ELSE Hop(hop[h - 1])
      BY <1>7
  <2> HIDE DEF hop
  <2>2. hop[0] = Here /\ hop[1] = There /\ \A h \in 1..12 : hop[h - 1] = There => hop[h] = There
      BY <1>4, <1>5, <2>1
  <2>3. hop[2] = There /\ hop[3] = There /\ hop[4] = There
      BY <2>2
  <2>4. hop[5] = There /\ hop[6] = There /\ hop[7] = There /\ hop[8] = There
      BY <2>2, <2>3
  <2>5. hop[9] = There /\ hop[10] = There /\ hop[11] = There
      BY <2>2, <2>4
  <2> QED
      BY <2>2, <2>5
<1>10. There.end = N
    OBVIOUS
<1> HIDE DEF Here, There, hop
<1> QED
    BY <1>8, <1>9, <1>10

(* An attempt that nothing carried on and nothing but itself resolved ends its
   chain. *)
LEMMA ChainStays ==
    ASSUME NEW A, NEW r, NEW i, i # 0, Chain!Carried(A, i) = 0, r[i].by \in {0, i}
    PROVE  Chain!SettleChain(A, r, i) = i
<1> DEFINE Here == [end |-> i, trail |-> {i}]
           Onward(e) ==
               LET by == r[e].by
               IN  IF Chain!Carried(A, e) \notin {0, e} THEN Chain!Carried(A, e)
                   ELSE IF by \notin {0, e, i} THEN by ELSE 0
           Hop(t) == LET k == Onward(t.end)
                     IN  IF k = 0 \/ k \in t.trail THEN t ELSE [end |-> k, trail |-> t.trail \cup {k}]
           Is(f) == f = [h \in 0..12 |-> IF h = 0 THEN Here ELSE Hop(f[h - 1])]
           hop == CHOOSE f : Is(f)
<1>1. Hop(Here) = Here
    OBVIOUS
<1>2. Is([h \in 0..12 |-> Here])
  <2> DEFINE g == [h \in 0..12 |-> Here]
  <2> HIDE DEF Here, Hop
  <2>1. \A h \in 0..12 : h # 0 => h - 1 \in 0..12
      OBVIOUS
  <2>2. g = [h \in 0..12 |-> IF h = 0 THEN Here ELSE Hop(g[h - 1])]
      BY <1>1, <2>1
  <2> QED
      BY <2>2
<1>3. Is(hop)
    BY <1>2
<1>4. Chain!SettleChain(A, r, i) = hop[12].end
    BY DEF Chain!SettleChain
<1>5. hop[12] = Here
  <2> HIDE DEF Here, Hop, hop
  <2>1. hop[0] = Here /\ \A h \in 1..12 : hop[h] = Hop(hop[h - 1])
      BY <1>3
  <2>2. \A h \in 1..12 : hop[h - 1] = Here => hop[h] = Here
      BY <1>1, <2>1
  <2>3. hop[1] = Here /\ hop[2] = Here /\ hop[3] = Here /\ hop[4] = Here
      BY <2>1, <2>2
  <2>4. hop[5] = Here /\ hop[6] = Here /\ hop[7] = Here /\ hop[8] = Here
      BY <2>2, <2>3
  <2>5. hop[9] = Here /\ hop[10] = Here /\ hop[11] = Here /\ hop[12] = Here
      BY <2>2, <2>4
  <2> QED
      BY <2>5
<1>6. Here.end = i
    OBVIOUS
<1> HIDE DEF Here, hop
<1> QED
    BY <1>4, <1>5, <1>6

-------------------------------------------------------------------------------
(* One step of annotate's second pass: of the stops, or of the others. *)
Settle(stops, A, r, n) ==
    IF stops THEN Chain!SettleStop(A, r, n) ELSE Chain!SettleOther(A, r, n)

(* What it reads of the chain, f[n] once n attempts are settled. *)
Settles(stops, A, first, f) ==
    f = [n \in 0..Len(A) |-> IF n = 0 THEN first ELSE Settle(stops, A, f[n - 1], n)]

(* One attempt read anew. *)
Anew(A, r, n, end) == [r EXCEPT ![n] = Chain!EndedAs(A, r, end)]

LEMMA ReadAnew ==
    ASSUME NEW A, ChainOrdered(A), NEW r, ResolvedNear(A, r), NEW n \in 1..Len(A), NEW end,
           n \in Tail60(A) => end \in Tail60(A),
           Linked(A) /\ n = Len(A) => end = Len(A) /\ A[n].state # "budget-stopped",
           NEW k, k = Anew(A, r, n, end)
    PROVE  ResolvedNear(A, k) /\ k[n].by = end
<1>1. DOMAIN A = 1..Len(A) /\ DOMAIN r = 1..Len(A) /\ Tail60(A) \subseteq 1..Len(A) /\ Len(A) \in 1..Len(A)
    BY ChainLength DEF ChainOrdered, ResolvedNear, Tail60
<1>2. Chain!EndedAs(A, r, end).by = end
    BY DEF Chain!EndedAs
<1>3. DOMAIN k = DOMAIN A /\ k[n].by = end /\ \A i \in 1..Len(A) : i # n => k[i] = r[i]
    BY <1>1, <1>2 DEF Anew
<1> QED
    BY <1>1, <1>3 DEF ResolvedNear

LEMMA SettleKeeps ==
    ASSUME NEW A, ChainOrdered(A), NEW r, ResolvedNear(A, r), NEW n \in 1..Len(A), NEW stops \in BOOLEAN
    PROVE  /\ ResolvedNear(A, Settle(stops, A, r, n))
           /\ ~stops /\ Linked(A) /\ n = Len(A) => Settle(stops, A, r, n)[Len(A)].by \in {0, Len(A)}
<1> DEFINE N == Len(A)
<1>1. Leads(A, r, Tail60(A))
    BY NearLeads
<1>2. N \in 1..N /\ N \in Nat \ {0} /\ DOMAIN A = 1..N /\ DOMAIN r = 1..N
    BY ChainLength DEF ChainOrdered, ResolvedNear
<1>3. CASE stops
  <2> DEFINE end == Chain!SettleChain(A, r, n)
  <2>1. n \in Tail60(A) => end \in Tail60(A)
      BY <1>1, SettleIn
  <2>2. Settle(stops, A, r, n) = IF A[n].state = "budget-stopped" /\ end # n THEN [r EXCEPT ![n] = Chain!EndedAs(A, r, end)] ELSE r
      BY <1>3 DEF Settle, Chain!SettleStop
  <2>3. Linked(A) /\ n = N /\ A[n].state = "budget-stopped" => end = N
      BY <1>2, ChainLast, ChainStays DEF ResolvedNear
  <2> HIDE DEF end
  <2>4. CASE A[n].state = "budget-stopped" /\ end # n
    <3>1. ResolvedNear(A, Anew(A, r, n, end))
        BY <2>1, <2>3, <2>4, ReadAnew
    <3> QED
        BY <1>3, <2>2, <2>4, <3>1 DEF Anew
  <2> QED
      BY <1>3, <2>2, <2>4
<1>4. CASE ~stops
  <2> DEFINE end == Chain!SettleChain(A, r, r[n].by)
  <2>1. Settle(stops, A, r, n) = IF A[n].state = "budget-stopped" \/ r[n].by = 0 THEN r ELSE [r EXCEPT ![n] = Chain!EndedAs(A, r, end)]
      BY <1>4 DEF Settle, Chain!SettleOther
  <2>2. n \in Tail60(A) /\ r[n].by # 0 => end \in Tail60(A)
      BY <1>1, SettleIn DEF ResolvedNear
  <2>3. Linked(A) /\ n = N /\ r[n].by # 0 => end = N
    <3> SUFFICES ASSUME Linked(A), n = N, r[n].by # 0 PROVE end = N
        OBVIOUS
    <3>1. r[N].by \in {N - 1, N}
        BY DEF ResolvedNear
    <3>2. CASE r[N].by = N
        BY <1>2, <3>2, ChainLast, ChainStays
    <3>3. CASE r[N].by = N - 1
      <4>1. N > 1
          BY <1>2, <3>3
      <4> QED
          BY <3>1, <3>3, <4>1, LinkedSettles
    <3> QED
        BY <3>1, <3>2, <3>3
  <2> HIDE DEF end
  <2>4. CASE A[n].state # "budget-stopped" /\ r[n].by # 0
    <3> DEFINE k == Anew(A, r, n, end)
    <3>1. k = Anew(A, r, n, end)
        OBVIOUS
    <3>2. n \in Tail60(A) => end \in Tail60(A)
        BY <2>2, <2>4
    <3>3. Linked(A) /\ n = Len(A) => end = Len(A) /\ A[n].state # "budget-stopped"
        BY <2>3, <2>4
    <3> HIDE DEF k
    <3>4. ResolvedNear(A, k) /\ k[n].by = end
        BY <3>1, <3>2, <3>3, ReadAnew
    <3>5. Settle(stops, A, r, n) = k
        BY <2>1, <2>4, <3>1 DEF Anew
    <3>6. ~stops /\ Linked(A) /\ n = N => k[N].by = N
        BY <2>3, <2>4, <3>4
    <3> HIDE DEF N
    <3> QED
        BY <3>4, <3>5, <3>6 DEF N
  <2>5. CASE ~(A[n].state # "budget-stopped" /\ r[n].by # 0)
      BY <1>4, <2>1, <2>5 DEF ResolvedNear
  <2> QED
      BY <2>4, <2>5
<1> QED
    BY <1>3, <1>4

(* The pass is defined: a least length for which it is not would have a
   predecessor for which it is. *)
LEMMA SettlesOne ==
    ASSUME NEW A, Len(A) \in Nat, NEW first, NEW stops
    PROVE  \E f : Settles(stops, A, first, f)
<1> DEFINE N == Len(A)
           Is(m, g) == g = [n \in 0..m |-> IF n = 0 THEN first ELSE Settle(stops, A, g[n - 1], n)]
           Has(m) == \E g : Is(m, g)
           Lacks == {m \in 0..N : ~Has(m)}
<1>1. Has(0)
  <2>1. Is(0, [n \in 0..0 |-> first])
      OBVIOUS
  <2> QED
      BY <2>1
<1>2. ASSUME NEW m \in Nat, Has(m) PROVE Has(m + 1)
  <2>1. PICK g : Is(m, g)
      BY <1>2
  <2> DEFINE k == [n \in 0..(m + 1) |-> IF n = m + 1 THEN Settle(stops, A, g[m], m + 1) ELSE g[n]]
  <2>2. \A n \in 0..m : g[n] = IF n = 0 THEN first ELSE Settle(stops, A, g[n - 1], n)
      BY <2>1
  <2>3. ASSUME NEW n \in 0..(m + 1) PROVE k[n] = IF n = 0 THEN first ELSE Settle(stops, A, k[n - 1], n)
    <3>1. CASE n = 0
        BY <2>2, <3>1
    <3>2. CASE n = m + 1
      <4>1. k[n] = Settle(stops, A, g[m], n) /\ n - 1 = m /\ k[m] = g[m] /\ n # 0
          BY <3>2
      <4> HIDE DEF k
      <4> QED
          BY <4>1
    <3>3. CASE n # 0 /\ n # m + 1
      <4>1. k[n] = g[n] /\ n - 1 \in 0..m /\ n \in 0..m /\ k[n - 1] = g[n - 1]
          BY <3>3
      <4> HIDE DEF k
      <4> QED
          BY <2>2, <3>3, <4>1
    <3> QED
        BY <3>1, <3>2, <3>3
  <2>4. k = [n \in 0..(m + 1) |-> k[n]]
      OBVIOUS
  <2> HIDE DEF k
  <2>5. k = [n \in 0..(m + 1) |-> IF n = 0 THEN first ELSE Settle(stops, A, k[n - 1], n)]
      BY <2>3, <2>4
  <2> QED
      BY <2>5
<1> HIDE DEF Has
<1>3. Lacks = {}
  <2> SUFFICES ASSUME Lacks # {} PROVE FALSE
      OBVIOUS
  <2>1. PICK m \in Lacks : \A j \in Lacks : m <= j
      BY LeastNumber, Lacks \subseteq Nat
  <2>2. m \in 1..N /\ m - 1 \in Nat /\ m - 1 \in 0..N /\ m - 1 \notin Lacks
      BY <1>1, <2>1
  <2>3. Has(m - 1) /\ (m - 1) + 1 = m
      BY <2>2
  <2> QED
      BY <1>2, <2>1, <2>2, <2>3
<1>4. Has(N)
    BY <1>3
<1> QED
    BY <1>4 DEF Has, Settles

(* And what it believes stays near the end. *)
LEMMA SettlesAll ==
    ASSUME NEW A, ChainOrdered(A), NEW first, ResolvedNear(A, first), NEW stops \in BOOLEAN,
           NEW f, Settles(stops, A, first, f)
    PROVE  /\ ResolvedNear(A, f[Len(A)])
           /\ ~stops /\ Linked(A) => f[Len(A)][Len(A)].by \in {0, Len(A)}
<1> DEFINE N == Len(A)
           Not == {n \in 0..N : ~ResolvedNear(A, f[n])}
<1>1. N \in Nat \ {0} /\ N \in 0..N /\ N \in 1..N
    BY ChainLength DEF ChainOrdered
<1>2. f[0] = first /\ \A n \in 1..N : f[n] = Settle(stops, A, f[n - 1], n)
    BY <1>1 DEF Settles
<1>3. Not = {}
  <2> SUFFICES ASSUME Not # {} PROVE FALSE
      OBVIOUS
  <2>1. PICK m \in Not : \A j \in Not : m <= j
      BY LeastNumber, Not \subseteq Nat
  <2>2. m \in 1..N /\ m - 1 \in 0..N /\ m - 1 \notin Not
      BY <1>1, <1>2, <2>1
  <2>3. ResolvedNear(A, f[m - 1]) /\ ~ResolvedNear(A, f[m])
      BY <2>1, <2>2
  <2>4. ResolvedNear(A, Settle(stops, A, f[m - 1], m))
      BY <2>2, <2>3, SettleKeeps
  <2> QED
      BY <1>2, <2>2, <2>3, <2>4
<1>4. N - 1 \in 0..N /\ ResolvedNear(A, f[N - 1]) /\ f[N] = Settle(stops, A, f[N - 1], N)
    BY <1>1, <1>2, <1>3
<1>5. ~stops /\ Linked(A) => Settle(stops, A, f[N - 1], N)[N].by \in {0, N}
    BY <1>1, <1>4, SettleKeeps
<1> QED
    BY <1>1, <1>3, <1>4, <1>5

LEMMA ResolvedIs ==
    ASSUME NEW A, ChainOrdered(A)
    PROVE  /\ ResolvedNear(A, Chain!Resolved(A))
           /\ Linked(A) => Chain!Resolved(A)[Len(A)].by \in {0, Len(A)}
<1> DEFINE First(f) == f = [n \in 0..Len(A) |-> IF n = 0 THEN Chain!FirstResolved(A) ELSE Chain!SettleStop(A, f[n - 1], n)]
           Second(f) == f = [n \in 0..Len(A) |-> IF n = 0 THEN Chain!StopsSettled(A) ELSE Chain!SettleOther(A, f[n - 1], n)]
<1>1. Len(A) \in Nat /\ ResolvedNear(A, Chain!FirstResolved(A))
    BY ChainLength, FirstNear DEF ChainOrdered
<1>2. ResolvedNear(A, Chain!StopsSettled(A))
  <2>1. \A f : First(f) <=> Settles(TRUE, A, Chain!FirstResolved(A), f)
      BY DEF Settles, Settle
  <2>2. \E f : First(f)
      BY <1>1, <2>1, SettlesOne
  <2>3. First(CHOOSE f : First(f))
      BY <2>2
  <2>4. Chain!StopsSettled(A) = (CHOOSE f : First(f))[Len(A)]
      BY DEF Chain!StopsSettled
  <2> HIDE DEF First
  <2> QED
      BY <1>1, <2>1, <2>3, <2>4, SettlesAll
<1>3. \A f : Second(f) <=> Settles(FALSE, A, Chain!StopsSettled(A), f)
    BY DEF Settles, Settle
<1>4. \E f : Second(f)
    BY <1>1, <1>3, SettlesOne
<1>5. Second(CHOOSE f : Second(f))
    BY <1>4
<1>6. Chain!Resolved(A) = (CHOOSE f : Second(f))[Len(A)]
    BY DEF Chain!Resolved
<1> HIDE DEF Second
<1> QED
    BY <1>2, <1>3, <1>5, <1>6, SettlesAll

(* The chain ends near the task's last attempt, and at the last attempt when the
   attempts are linked. *)
LEMMA ChainEnds ==
    ASSUME NEW A, ChainOrdered(A)
    PROVE  /\ Chain!ChainEnd(A, Chain!Resolved(A)) \in Tail60(A)
           /\ Linked(A) => Chain!ChainEnd(A, Chain!Resolved(A)) = Len(A)
<1>1. Len(A) \in Tail60(A) /\ Len(A) # 0 /\ Chain!Carried(A, Len(A)) = 0 /\ Latest(A, DOMAIN A) = Len(A)
    BY TailUp, ChainLast, ChainLength DEF ChainOrdered
<1>2. Chain!ChainEnd(A, Chain!Resolved(A)) = Chain!SettleChain(A, Chain!Resolved(A), Len(A))
  <2>1. Chain!ChainEnd(A, Chain!Resolved(A)) = Chain!SettleChain(A, Chain!Resolved(A), Latest(A, DOMAIN A))
      BY DEF Chain!ChainEnd, Latest
  <2> QED
      BY <1>1, <2>1
<1>3. Leads(A, Chain!Resolved(A), Tail60(A))
    BY ResolvedIs, NearLeads
<1>4. Chain!SettleChain(A, Chain!Resolved(A), Len(A)) \in Tail60(A)
    BY <1>1, <1>3, SettleIn
<1>5. Linked(A) => Chain!SettleChain(A, Chain!Resolved(A), Len(A)) = Len(A)
    BY <1>1, ResolvedIs, ChainStays
<1> QED
    BY <1>2, <1>4, <1>5

-------------------------------------------------------------------------------
(* A task is called done on an attempt that is done. *)
LEMMA ChainDoneAct ==
    ASSUME NEW A, NEW f, Chain!Step(A, f).action = "done"
    PROVE  A[Chain!ChainEnd(A, Chain!Resolved(A))].state = "done"
  BY DEF Chain!Step, Chain!StepFrom, Chain!WrapUp

(* What the engine's step may be when the chain ends at the last attempt. *)
LEMMA ChainActs ==
    ASSUME NEW A, ChainOrdered(A), Linked(A), NEW f
    PROVE  /\ A[Len(A)].state = "done" => Chain!Step(A, f).action = "done"
           /\ Chain!Step(A, f).action = "wrap-up" => A[Len(A)].kind # "wrap-up"
           /\ Chain!Step(A, f).action = "switch" => Len(A) < 4 \/ A[Len(A)].reason = "turns"
           /\ Chain!Step(A, f).action = "restart" => f.api = "context" \/ A[Len(A)].reason = "context"
           /\ \E why : Chain!Step(A, f).runner = Chain!NextRunner(A[Len(A)].runner, why)
<1> DEFINE N == Len(A)
           end == A[N]
           res == Chain!Resolved(A)
           act == Chain!Step(A, f).action
<1>1. N \in Nat \ {0} /\ end.state \in Chain!AttemptStates
    BY ChainLength DEF ChainOrdered
<1>2. Chain!Step(A, f) = Chain!StepFrom(A, f, res, N)
    BY ChainEnds DEF Chain!Step
<1>3. end.state = "done" => act = "done"
    BY <1>2 DEF Chain!StepFrom
<1>4. act = "wrap-up" => end.kind # "wrap-up"
    BY <1>2 DEF Chain!StepFrom, Chain!WrapUp
<1>5. act = "switch" => Len(A) < 4 \/ end.reason = "turns"
  <2>1. Chain!AnnotatedReason(end) = "turns" => end.reason = "turns"
      BY DEF Chain!AnnotatedReason, Chain!ReasonOfText, Chain!Switchable
  <2>2. Chain!Tries(A, N) < 4 => N < 4
      BY <1>1 DEF Chain!Tries
  <2>3. Chain!Tries(A, N) \in Nat
      BY <1>1 DEF Chain!Tries
  <2>4. act = "switch" => \/ ~(Chain!Tries(A, N) >= 4) \/ ~(Chain!Tries(A, N) >= 2)
                          \/ Chain!AnnotatedReason(end) = "turns"
      BY <1>2 DEF Chain!StepFrom, Chain!WrapUp
  <2> QED
      BY <2>1, <2>2, <2>3, <2>4
<1>6. act = "restart" => f.api = "context" \/ end.reason = "context"
  <2>1. Chain!Detect(end, f) = "context" => f.api = "context" \/ end.reason = "context"
      BY DEF Chain!Detect, Chain!ApiError, Chain!Switchable
  <2>2. act = "restart" => Chain!Detect(end, f) = "context"
      BY <1>2 DEF Chain!StepFrom, Chain!WrapUp
  <2> QED
      BY <2>1, <2>2
<1>7. \E why : Chain!Step(A, f).runner = Chain!NextRunner(end.runner, why)
  <2> DEFINE ann == Chain!AnnotatedReason(end)
             why == IF ann = "none" THEN "unknown" ELSE ann
  <2>1. Chain!Step(A, f).runner = Chain!NextRunner(end.runner, why)
      BY <1>2 DEF Chain!StepFrom
  <2> QED
      BY <2>1
<1> QED
    BY <1>3, <1>4, <1>5, <1>6, <1>7

(* The engine never hands a task to Claude. *)
LEMMA NeverClaude ==
    /\ \A runner, why : Chain!Portal(runner) => Chain!Portal(Chain!NextRunner(runner, why))
    /\ \A tier \in Chain!Tiers : \A room, runner :
         LET choice == Chain!NextAgent(tier, room, runner) IN choice = "none" \/ Chain!Portal(choice)
<1>1. /\ Chain!FallbackOrder = <<"cx", "mm", "cc", "oc", "dsh">>
      /\ \A i \in 1..5 : Chain!Portal(Chain!FallbackOrder[i])
    BY DEF Chain!FallbackOrder, Chain!Portal, Chain!Runners
<1>2. ASSUME NEW runner, NEW why, Chain!Portal(runner)
      PROVE  Chain!Portal(Chain!NextRunner(runner, why))
  <2> DEFINE at == IF runner \in Chain!Range(Chain!FallbackOrder)
                   THEN CHOOSE i \in DOMAIN Chain!FallbackOrder : Chain!FallbackOrder[i] = runner ELSE 0
  <2>1. Len(Chain!FallbackOrder) = 5 /\ DOMAIN Chain!FallbackOrder = 1..5
      BY DEF Chain!FallbackOrder
  <2>2. at \in 0..5
      BY <2>1 DEF Chain!Range
  <2>3. (at % Len(Chain!FallbackOrder)) + 1 \in 1..5
    <3> HIDE DEF at
    <3>1. (at % 5) + 1 \in 1..5
        BY <2>2
    <3> QED
        BY <2>1, <3>1
  <2>4. \/ Chain!NextRunner(runner, why) = runner
        \/ \E i \in 1..5 : Chain!NextRunner(runner, why) = Chain!FallbackOrder[i]
      BY <2>3 DEF Chain!NextRunner
  <2> QED
      BY <1>1, <1>2, <2>4
<1>3. ASSUME NEW tier \in Chain!Tiers, NEW room, NEW runner
      PROVE  Chain!NextAgent(tier, room, runner) = "none" \/ Chain!Portal(Chain!NextAgent(tier, room, runner))
  <2> DEFINE order == Chain!TierOrder[tier]
             usable == {i \in DOMAIN order : order[i] \in room \ {runner}}
             Least(i) == \A j \in usable : i <= j
             first == CHOOSE i \in usable : Least(i)
  <2>1. /\ DOMAIN order \in SUBSET Nat
        /\ \A i \in DOMAIN order : Chain!Portal(order[i])
      BY DEF Chain!TierOrder, Chain!Tiers, Chain!Portal, Chain!Runners
  <2>2. CASE usable = {}
      BY <2>2 DEF Chain!NextAgent
  <2>3. CASE usable # {}
    <3>1. \E i \in usable : Least(i)
        BY <2>1, <2>3, LeastNumber
    <3>2. first \in usable
      <4> HIDE DEF Least
      <4> QED
          BY <3>1
    <3>3. Chain!NextAgent(tier, room, runner) = order[first]
        BY <2>3 DEF Chain!NextAgent
    <3> QED
        BY <2>1, <3>2, <3>3
  <2> QED
      BY <2>2, <2>3
<1> QED
    BY <1>2, <1>3

(* And so what decide may make of it. *)
LEMMA ChainPlans ==
    ASSUME NEW A, NEW f, NEW tier, NEW room
    PROVE  LET plan == Chain!Decide(A, f, tier, room)
               act == Chain!Step(A, f).action
           IN  /\ plan.kind \in {"none", "wrap-up", "continue", "restart", "switch"}
               /\ plan.kind # "none" => plan.kind = act /\ ~Chain!HardStop(A[Len(A)])
               /\ plan.kind = "continue" => ~Chain!Spent(A)
               /\ plan.outcome = "done" => act = "done"
               /\ plan.kind # "none" =>
                    \/ plan.runner = A[Len(A)].runner
                    \/ /\ plan.kind = "switch"
                       /\ plan.runner = Chain!SwitchTo(Chain!NextAgent(tier, room, A[Len(A)].runner), Chain!Step(A, f).runner)
  BY DEF Chain!Decide, Chain!PlanFor, Chain!Plan

(* The two ways the sequence changes: another row, and the last one's ending.
   B is A with the row x. *)
Grown(A, B, x) ==
    /\ ChainOrdered(B) /\ Len(B) = Len(A) + 1
    /\ \A i \in 1..Len(A) : B[i] = A[i]
    /\ B[Len(B)] = x

LEMMA ChainGrows ==
    ASSUME NEW A, ChainOrdered(A), NEW runner, NEW kind \in Chain!Kinds, NEW parent \in 0..Len(A),
           NEW gap \in Nat,
           NEW x, x = Chain!NewAttempt(runner, kind, parent, A[Len(A)].created + gap)
    PROVE  Grown(A, Append(A, x), x)
<1> DEFINE B == Append(A, x)
           N == Len(A)
<1>1. PICK R : A \in Seq(Row(R))
    BY DEF ChainOrdered, ChainRows
<1>2. N \in Nat \ {0} /\ N \in 1..N /\ \A i \in 1..N : A[i].created \in Nat
    BY ChainLength DEF ChainOrdered
<1>3. A \in Seq(Row(R \cup {runner})) /\ x \in Row(R \cup {runner})
  <2>1. Row(R) \subseteq Row(R \cup {runner})
      BY DEF Row
  <2>2. x \in Row(R \cup {runner})
      BY <1>2 DEF Row, Chain!NewAttempt, Chain!AttemptStates, Chain!Reasons, Chain!Kinds
  <2> QED
      BY <1>1, <2>1, <2>2, SeqMonotonic
<1>4. x.created = A[N].created + gap /\ x.parent = parent
    BY DEF Chain!NewAttempt
<1>5. /\ B \in Seq(Row(R \cup {runner})) /\ B # <<>> /\ Len(B) = N + 1
      /\ \A i \in 1..N : B[i] = A[i]
      /\ B[N + 1] = x
    BY <1>3, AppendProperties
<1> HIDE DEF B
<1>6. \A i \in 1..Len(B) : B[i].parent < i
    BY <1>2, <1>4, <1>5 DEF ChainOrdered, ChainRows
<1>7. ASSUME NEW i \in 1..Len(B), NEW j \in 1..Len(B), i < j PROVE B[j].created >= B[i].created
  <2>1. CASE j \in 1..N
    <3>1. i \in 1..N /\ i < j /\ B[i] = A[i] /\ B[j] = A[j]
        BY <1>2, <1>5, <1>7, <2>1
    <3> QED
        BY <2>1, <3>1 DEF ChainOrdered
  <2>2. CASE j = N + 1
    <3>1. i \in 1..N /\ B[i] = A[i] /\ B[j] = x
        BY <1>2, <1>5, <1>7, <2>2
    <3>2. A[N].created >= A[i].created
      <4>1. i < N => A[N].created >= A[i].created
          BY <1>2, <3>1 DEF ChainOrdered
      <4>2. A[i].created \in Nat /\ A[N].created \in Nat
          BY <1>2, <3>1
      <4> QED
          BY <1>2, <3>1, <4>1, <4>2
    <3> QED
        BY <1>2, <1>4, <3>1, <3>2
  <2> QED
      BY <1>2, <1>5, <2>1, <2>2
<1>8. ChainOrdered(B)
    BY <1>5, <1>6, <1>7 DEF ChainOrdered, ChainRows
<1> QED
    BY <1>5, <1>8 DEF Grown, B

(* B is A with the last attempt's ending. *)
Recorded(A, B, state, reason, hit) ==
    /\ ChainOrdered(B) /\ Len(B) = Len(A)
    /\ \A i \in 1..Len(A) : /\ B[i].kind = A[i].kind /\ B[i].parent = A[i].parent
                             /\ B[i].runner = A[i].runner /\ B[i].created = A[i].created
    /\ \A i \in 1..Len(A) : i # Len(A) => B[i] = A[i]
    /\ B[Len(A)].state = state /\ B[Len(A)].reason = reason /\ B[Len(A)].hit = hit

LEMMA ChainRecords ==
    ASSUME NEW A, ChainOrdered(A), NEW state \in Chain!AttemptStates, NEW reason \in Chain!Reasons,
           NEW hit \in {"none", "steps", "minutes", "usd", "tokens"}, NEW session \in BOOLEAN
    PROVE  Recorded(A, [A EXCEPT ![Len(A)] = Chain!Closed(@, state, reason, hit, session)], state, reason, hit)
<1> DEFINE N == Len(A)
           x == Chain!Closed(A[N], state, reason, hit, session)
           B == [A EXCEPT ![N] = x]
<1>1. PICK R : A \in Seq(Row(R))
    BY DEF ChainOrdered, ChainRows
<1>2. N \in Nat \ {0} /\ N \in 1..N
    BY ChainLength DEF ChainOrdered
<1>3. A[N] \in Row(R)
    BY <1>1, <1>2
<1>4. /\ x \in Row(R)
      /\ x.state = state /\ x.reason = reason /\ x.hit = hit
      /\ x.kind = A[N].kind /\ x.parent = A[N].parent /\ x.created = A[N].created /\ x.runner = A[N].runner
    BY <1>3 DEF Row, Chain!Closed
<1> HIDE DEF x
<1>5. /\ B \in Seq(Row(R)) /\ Len(B) = N
      /\ \A j \in 1..N : B[j] = IF j = N THEN x ELSE A[j]
    BY <1>1, <1>2, <1>4, ExceptSeq
<1> HIDE DEF B
<1>6. B # <<>>
    BY <1>2, <1>5
<1>7. /\ \A i \in 1..N : B[i].kind = A[i].kind /\ B[i].parent = A[i].parent /\ B[i].created = A[i].created
                          /\ B[i].runner = A[i].runner
      /\ \A i \in 1..N : i # N => B[i] = A[i]
      /\ B[N] = x
    BY <1>2, <1>4, <1>5
<1>8. ChainOrdered(B)
    BY <1>5, <1>6, <1>7 DEF ChainOrdered, ChainRows
<1>9. Recorded(A, B, state, reason, hit)
    BY <1>4, <1>5, <1>7, <1>8 DEF Recorded
<1> QED
    BY <1>9 DEF B, x

-------------------------------------------------------------------------------
Continues(A) == {i \in DOMAIN A : A[i].kind = "continue"}

(* A task that is left alone, and fails in no way that may go on forever. *)
LeftAlone(s) ==
    /\ ~s.owner
    /\ {"context", "turns"} \cap s.reasons = {}
    /\ \A f \in s.facts : f.api # "context"

ChainShape ==
    /\ ChainOrdered(attempts)
    /\ setting \in Settings
    /\ facts \in setting.facts \cup {Chain!NoFacts}

ChainDone ==
    /\ outcome = "done" => \E i \in Tail60(attempts) : attempts[i].state = "done"
    /\ attempts[Len(attempts)].state = "queued" => outcome = "none"

(* Left alone, each attempt follows up the one before. *)
ChainAlone == LeftAlone(setting) => Linked(attempts)

(* Beyond the fourth attempt, each is a continue or the wrap-up of one. *)
ChainBound ==
    /\ Cardinality(Continues(attempts)) <= MaxContinues
    /\ LeftAlone(setting) =>
         /\ attempts[Len(attempts)].reason \notin {"context", "turns"}
         /\ Len(attempts) > 4 =>
              Len(attempts) <= 4 + 2 * Cardinality(Continues(attempts))
                                 + (IF attempts[Len(attempts)].kind = "wrap-up" THEN 1 ELSE 0)

(* Whoever ran out of the owner's money has no follow-up. *)
ChainMoney ==
    /\ \A i \in DOMAIN attempts :
         /\ attempts[i].hit # "none" => attempts[i].reason = "budget"
         /\ attempts[i].parent # 0 => attempts[attempts[i].parent].hit \notin {"usd", "tokens"}

ChainInv == ChainShape /\ ChainDone /\ ChainAlone /\ ChainBound /\ ChainMoney

LEMMA ChainCardinality == \A S : Chain!Cardinality(S) = Cardinality(S)
    BY DEF Cardinality, Chain!Cardinality

LEMMA ContinuesGrow ==
    ASSUME NEW A, NEW B, Len(A) \in Nat, DOMAIN A = 1..Len(A), DOMAIN B = 1..(Len(A) + 1),
           \A i \in 1..Len(A) : B[i].kind = A[i].kind
    PROVE  /\ Cardinality(Continues(A)) \in Nat
           /\ Cardinality(Continues(B)) = Cardinality(Continues(A)) + (IF B[Len(A) + 1].kind = "continue" THEN 1 ELSE 0)
<1> DEFINE m == Len(A) + 1
<1>1. IsFiniteSet(Continues(A)) /\ m \notin Continues(A)
  <2>1. IsFiniteSet(1..Len(A)) /\ Continues(A) \in SUBSET (1..Len(A))
      BY FS_Interval DEF Continues
  <2> QED
      BY <2>1, FS_Subset
<1>2. Continues(B) = IF B[m].kind = "continue" THEN Continues(A) \cup {m} ELSE Continues(A)
    BY DEF Continues
<1>3. Cardinality(Continues(A)) \in Nat
    BY <1>1, FS_CardinalityType
<1>4. Cardinality(Continues(A) \cup {m}) = Cardinality(Continues(A)) + 1
    BY <1>1, FS_AddElement
<1> QED
    BY <1>2, <1>3, <1>4

LEMMA ChainInit ==
    ASSUME Chain!Init
    PROVE  ChainInv
<1>1. PICK r \in setting.starts : attempts = <<Chain!NewAttempt(r, "first", 0, 0)>>
    BY DEF Chain!Init
<1> DEFINE x == Chain!NewAttempt(r, "first", 0, 0)
<1>2. /\ x \in Row({r}) /\ x.parent = 0 /\ x.kind = "first" /\ x.reason = "none" /\ x.hit = "none"
    BY DEF Chain!NewAttempt, Row, Chain!AttemptStates, Chain!Reasons, Chain!Kinds
<1> HIDE DEF x
<1>3. /\ attempts \in Seq(Row({r})) /\ attempts # <<>> /\ Len(attempts) = 1 /\ attempts[1] = x
      /\ DOMAIN attempts = 1..1
    BY <1>1, <1>2 DEF x
<1>4. ChainOrdered(attempts)
    BY <1>2, <1>3 DEF ChainOrdered, ChainRows
<1>5. Continues(attempts) = {}
    BY <1>2, <1>3 DEF Continues
<1>6. Cardinality(Continues(attempts)) = 0
    BY <1>5, FS_EmptySet
<1>7. ChainShape /\ ChainDone /\ ChainMoney
    BY <1>2, <1>3, <1>4 DEF ChainShape, ChainDone, ChainMoney, Chain!Init
<1>9. ChainAlone
    BY <1>3 DEF ChainAlone, Linked
<1>8. ChainBound
    BY <1>2, <1>3, <1>6, ChainAssumption DEF ChainBound
<1> QED
    BY <1>7, <1>8, <1>9 DEF ChainInv

LEMMA ChainRecordEnd ==
    ASSUME ChainInv, Chain!RecordEnd
    PROVE  ChainInv'
<1> DEFINE N == Len(attempts)
<1>1. setting \in Chain!Setting /\ setting' = setting /\ outcome' = outcome
    BY ChainAssumption DEF ChainInv, ChainShape, Chain!RecordEnd
<1>2. PICK state \in {"done", "failed", "stopped", "budget-stopped"}, reason \in Chain!Reasons,
           hit \in setting.hits \cup {"none"}, session \in BOOLEAN, said \in setting.facts :
        /\ Chain!MayEnd(state, reason, hit, session, said)
        /\ attempts' = [attempts EXCEPT ![Len(attempts)] = Chain!Closed(@, state, reason, hit, session)]
        /\ facts' = said
    BY DEF Chain!RecordEnd
<1>3. /\ state \in Chain!AttemptStates /\ hit \in {"none", "steps", "minutes", "usd", "tokens"}
    BY <1>1 DEF Chain!Setting, Chain!AttemptStates
<1>4. ChainOrdered(attempts) /\ N \in Nat \ {0} /\ N \in DOMAIN attempts /\ DOMAIN attempts = 1..N
    BY ChainLength DEF ChainInv, ChainShape, ChainOrdered
<1>5. /\ ChainOrdered(attempts') /\ Len(attempts') = N
      /\ \A i \in 1..N : /\ attempts'[i].kind = attempts[i].kind /\ attempts'[i].parent = attempts[i].parent
                         /\ attempts'[i].runner = attempts[i].runner
                         /\ i # N => attempts'[i] = attempts[i]
      /\ attempts'[N].state = state /\ attempts'[N].reason = reason /\ attempts'[N].hit = hit
  <2>1. Recorded(attempts, attempts', state, reason, hit)
      BY <1>2, <1>3, <1>4, ChainRecords
  <2> QED
      BY <2>1 DEF Recorded
<1>6. DOMAIN attempts' = 1..N
    BY <1>5, ChainLength DEF ChainOrdered
<1>7. outcome = "none"
  <2>1. attempts[N].state = "queued"
      BY DEF Chain!RecordEnd, Chain!Ending
  <2> QED
      BY <2>1 DEF ChainInv, ChainDone
<1>8. ChainShape' /\ ChainDone'
    BY <1>1, <1>2, <1>5, <1>7 DEF ChainInv, ChainShape, ChainDone
<1>13. ChainAlone'
  <2>1. \A i \in 1..(N - 1) : i \in 1..N /\ i # N
    <3>1. N \in Nat
        BY <1>4
    <3> HIDE DEF N
    <3> QED
        BY <3>1
  <2>2. Linked(attempts) => Linked(attempts')
    <3>1. N \in Nat /\ Len(attempts') = N
        BY <1>4, <1>5
    <3>2. \A i, j \in 1..N : i < j => i # N
        BY <3>1
    <3>3. SUFFICES ASSUME Linked(attempts) PROVE Linked(attempts')
        OBVIOUS
    <3>4. \A i \in 2..N : attempts'[i].parent = i - 1
      <4>1. \A i \in 2..N : i \in 1..N /\ attempts[i].parent = i - 1
          BY <3>1, <3>3 DEF Linked
      <4> QED
          BY <1>5, <4>1
    <3>5. \A i \in 1..(N - 1) : attempts'[i].state \notin {"done", "running", "queued"}
        BY <1>5, <2>1, <3>3 DEF Linked
    <3>6. \A i, j \in 1..N : i < j /\ Chain!Portal(attempts'[i].runner) => Chain!Portal(attempts'[j].runner)
        BY <1>5, <3>3 DEF Linked
    <3> QED
        BY <3>1, <3>4, <3>5, <3>6 DEF Linked
  <2> QED
      BY <1>1, <2>2 DEF ChainInv, ChainAlone
<1>9. Continues(attempts') = Continues(attempts)
    BY <1>4, <1>5, <1>6 DEF Continues
<1>10. LeftAlone(setting) => reason \notin {"context", "turns"}
    BY <1>2 DEF LeftAlone, Chain!MayEnd
<1>11. ChainBound'
    BY <1>1, <1>4, <1>5, <1>9, <1>10 DEF ChainInv, ChainBound
<1>12. ChainMoney'
  <2>1. ASSUME NEW i \in 1..N
        PROVE  /\ attempts'[i].hit # "none" => attempts'[i].reason = "budget"
               /\ attempts'[i].parent # 0 => attempts'[attempts'[i].parent].hit \notin {"usd", "tokens"}
    <3>1. attempts[i].parent \in Nat /\ attempts[i].parent < i
        BY <1>4, ChainLength DEF ChainOrdered, ChainRows
    <3>2. attempts[i].parent # 0 => attempts'[attempts[i].parent] = attempts[attempts[i].parent]
        BY <1>4, <1>5, <3>1
    <3>3. hit # "none" => reason = "budget"
        BY <1>2 DEF Chain!MayEnd
    <3> QED
        BY <1>4, <1>5, <3>2, <3>3 DEF ChainInv, ChainMoney
  <2> QED
      BY <1>6, <2>1 DEF ChainMoney
<1> QED
    BY <1>8, <1>11, <1>12, <1>13 DEF ChainInv

(* A row is added, by the engine's decision after the last attempt or by the
   owner. *)
ChainAdd(runner, kind, parent, gap) ==
    /\ gap \in setting.gaps
    /\ parent = 0 \/ parent = Len(attempts)
    /\ attempts' = Append(attempts, Chain!NewAttempt(runner, kind, parent, attempts[Len(attempts)].created + gap))
    /\ outcome' = "none" /\ facts' = facts /\ setting' = setting
    /\ parent # 0 => attempts[Len(attempts)].hit \notin {"usd", "tokens"}
    /\ kind = "continue" => Cardinality(Continues(attempts)) < MaxContinues
    /\ LeftAlone(setting) => \/ kind = "continue"
                             \/ kind = "wrap-up" /\ attempts[Len(attempts)].kind # "wrap-up"
                             \/ Len(attempts) < 4
    /\ LeftAlone(setting) => /\ parent = Len(attempts)
                             /\ attempts[Len(attempts)].state \notin {"done", "running", "queued"}
                             /\ Chain!Portal(attempts[Len(attempts)].runner) => Chain!Portal(runner)

LEMMA ChainAdds ==
    ASSUME ChainInv, NEW runner, NEW kind \in Chain!Kinds,
           NEW parent, NEW gap, ChainAdd(runner, kind, parent, gap)
    PROVE  ChainInv'
<1> DEFINE N == Len(attempts)
           x == Chain!NewAttempt(runner, kind, parent, attempts[N].created + gap)
<1>1. ChainOrdered(attempts) /\ N \in Nat \ {0} /\ N \in DOMAIN attempts /\ DOMAIN attempts = 1..N
    BY ChainLength DEF ChainInv, ChainShape, ChainOrdered
<1>2. gap \in Nat /\ parent \in 0..N
  <2>1. setting \in Chain!Setting
      BY ChainAssumption DEF ChainInv, ChainShape
  <2>2. setting.gaps \in SUBSET Nat
      BY <2>1 DEF Chain!Setting
  <2> QED
      BY <1>1, <2>2 DEF ChainAdd
<1>3. /\ ChainOrdered(attempts') /\ Len(attempts') = N + 1
      /\ \A i \in 1..N : attempts'[i] = attempts[i]
      /\ attempts'[N + 1] = x
  <2>1. Grown(attempts, Append(attempts, x), x)
      BY <1>1, <1>2, ChainGrows
  <2>2. attempts' = Append(attempts, x)
      BY DEF ChainAdd
  <2>3. Grown(attempts, attempts', x)
      BY <2>1, <2>2
  <2> HIDE DEF x
  <2> QED
      BY <2>3 DEF Grown
<1>4. DOMAIN attempts' = 1..(N + 1)
    BY <1>3, ChainLength DEF ChainOrdered
<1>5. x.kind = kind /\ x.parent = parent /\ x.hit = "none" /\ x.reason = "none" /\ x.runner = runner
    BY DEF Chain!NewAttempt
<1> HIDE DEF x
<1>6. /\ Cardinality(Continues(attempts)) \in Nat
      /\ Cardinality(Continues(attempts')) = Cardinality(Continues(attempts)) + (IF kind = "continue" THEN 1 ELSE 0)
    BY <1>1, <1>3, <1>4, <1>5, ContinuesGrow
<1>7. ChainShape' /\ ChainDone'
    BY <1>3 DEF ChainInv, ChainShape, ChainDone, ChainAdd
<1>8. ChainBound'
  <2> DEFINE n == Cardinality(Continues(attempts))
             k == Cardinality(Continues(attempts'))
  <2>1. k <= MaxContinues
      BY <1>6, ChainAssumption DEF ChainInv, ChainBound, ChainAdd
  <2>2. ASSUME LeftAlone(setting), N + 1 > 4
        PROVE  N + 1 <= 4 + 2 * k + (IF kind = "wrap-up" THEN 1 ELSE 0)
    <3>1. N > 4 => N <= 4 + 2 * n + (IF attempts[N].kind = "wrap-up" THEN 1 ELSE 0)
        BY <2>2 DEF ChainInv, ChainBound
    <3>2. n \in Nat
        BY <1>6
    <3>3. k = n + (IF kind = "continue" THEN 1 ELSE 0)
        BY <1>6
    <3>4. \/ kind = "continue"
          \/ kind = "wrap-up" /\ attempts[N].kind # "wrap-up"
        BY <1>1, <2>2 DEF ChainAdd
    <3>5. N \in Nat
        BY <1>1
    <3> HIDE DEF n, k, N
    <3>6. CASE kind = "continue"
        BY <2>2, <3>1, <3>2, <3>3, <3>5, <3>6
    <3>7. CASE kind = "wrap-up" /\ attempts[N].kind # "wrap-up"
        BY <2>2, <3>1, <3>2, <3>3, <3>5, <3>7
    <3> QED
        BY <3>4, <3>6, <3>7
  <2> QED
      BY <1>3, <1>5, <2>1, <2>2 DEF ChainBound, ChainAdd
<1>9. ChainMoney'
  <2>1. ASSUME NEW i \in 1..(N + 1)
        PROVE  /\ attempts'[i].hit # "none" => attempts'[i].reason = "budget"
               /\ attempts'[i].parent # 0 => attempts'[attempts'[i].parent].hit \notin {"usd", "tokens"}
    <3>1. CASE i = N + 1
        BY <1>1, <1>3, <1>5, <3>1 DEF ChainAdd
    <3>2. CASE i \in 1..N
      <4>1. attempts[i].parent \in Nat /\ attempts[i].parent < i
          BY <1>1, <3>2, ChainLength DEF ChainOrdered, ChainRows
      <4>2. attempts[i].parent # 0 => attempts'[attempts[i].parent] = attempts[attempts[i].parent]
          BY <1>1, <1>3, <3>2, <4>1
      <4> QED
          BY <1>1, <1>3, <3>2, <4>2 DEF ChainInv, ChainMoney
    <3>3. i \in 1..N \/ i = N + 1
        BY <1>1, <2>1
    <3> QED
        BY <3>1, <3>2, <3>3
  <2> QED
      BY <1>4, <2>1 DEF ChainMoney
<1>10. ChainAlone'
  <2> SUFFICES ASSUME LeftAlone(setting)' PROVE Linked(attempts')
      BY DEF ChainAlone
  <2>1. LeftAlone(setting) /\ Linked(attempts)
      BY DEF ChainAdd, ChainInv, ChainAlone, LeftAlone
  <2>2. \A i \in 2..(N + 1) : attempts'[i].parent = i - 1
    <3>1. \A i \in 2..(N + 1) : i = N + 1 \/ (i \in 2..N /\ i \in 1..N)
        BY <1>1
    <3> QED
        BY <1>1, <1>3, <1>5, <2>1, <3>1 DEF Linked, ChainAdd
  <2>3. \A i \in 1..N : attempts'[i].state \notin {"done", "running", "queued"}
    <3>1. \A i \in 1..N : i = N \/ i \in 1..(N - 1)
      <4>1. N \in Nat
          BY <1>1
      <4> HIDE DEF N
      <4> QED
          BY <4>1
    <3> QED
        BY <1>3, <2>1, <3>1 DEF Linked, ChainAdd
  <2>4. ASSUME NEW i \in 1..(N + 1), NEW j \in 1..(N + 1), i < j, Chain!Portal(attempts'[i].runner)
        PROVE  Chain!Portal(attempts'[j].runner)
    <3>1. i \in 1..N /\ Chain!Portal(attempts[i].runner)
        BY <1>1, <1>3, <2>4
    <3>2. CASE j \in 1..N
        BY <1>3, <2>1, <2>4, <3>1, <3>2 DEF Linked
    <3>3. CASE j = N + 1
      <4>1. i = N \/ i < N
        <5>1. N \in Nat /\ i \in 1..N
            BY <1>1, <3>1
        <5> HIDE DEF N
        <5> QED
            BY <5>1
      <4>2. Chain!Portal(attempts[N].runner)
          BY <1>1, <2>1, <3>1, <4>1 DEF Linked
      <4> QED
          BY <1>3, <1>5, <2>1, <3>3, <4>2 DEF ChainAdd
    <3> QED
        BY <1>1, <2>4, <3>2, <3>3
  <2>5. Len(attempts') = N + 1 /\ (N + 1) - 1 = N
      BY <1>1, <1>3
  <2> QED
      BY <2>2, <2>3, <2>4, <2>5 DEF Linked
<1> QED
    BY <1>7, <1>8, <1>9, <1>10 DEF ChainInv

LEMMA ChainAfterEnd ==
    ASSUME ChainInv, Chain!AfterEnd
    PROVE  ChainInv'
<1> DEFINE N == Len(attempts)
           end == attempts[N]
           plan == Chain!Decide(attempts, facts, setting.tier, fleet)
           act == Chain!Step(attempts, facts).action
<1>1. ChainOrdered(attempts) /\ N \in Nat \ {0} /\ N \in DOMAIN attempts /\ DOMAIN attempts = 1..N
    BY ChainLength DEF ChainInv, ChainShape, ChainOrdered
<1>2. /\ plan.kind \in {"none", "wrap-up", "continue", "restart", "switch"}
      /\ plan.kind # "none" => plan.kind = act /\ ~Chain!HardStop(end)
      /\ plan.kind = "continue" => ~Chain!Spent(attempts)
      /\ plan.outcome = "done" => act = "done"
      /\ plan.kind # "none" =>
           \/ plan.runner = end.runner
           \/ plan.runner = Chain!SwitchTo(Chain!NextAgent(setting.tier, fleet, end.runner), Chain!Step(attempts, facts).runner)
    BY ChainPlans
<1>3. LeftAlone(setting) =>
        /\ end.state = "done" => act = "done"
        /\ act = "wrap-up" => end.kind # "wrap-up"
        /\ act = "switch" => N < 4 \/ end.reason = "turns"
        /\ act = "restart" => facts.api = "context" \/ end.reason = "context"
        /\ \E why : Chain!Step(attempts, facts).runner = Chain!NextRunner(end.runner, why)
    BY <1>1, ChainActs DEF ChainInv, ChainAlone
<1>7. act = "done" => \E i \in Tail60(attempts) : attempts[i].state = "done"
    BY <1>1, ChainDoneAct, ChainEnds
<1>8. LeftAlone(setting) /\ plan.kind # "none" /\ Chain!Portal(end.runner) => Chain!Portal(plan.runner)
  <2>1. setting.tier \in Chain!Tiers
    <3>1. setting \in Chain!Setting
        BY ChainAssumption DEF ChainInv, ChainShape
    <3> QED
        BY <3>1 DEF Chain!Setting
  <2> DEFINE choice == Chain!NextAgent(setting.tier, fleet, end.runner)
  <2>2. choice = "none" \/ Chain!Portal(choice)
      BY <2>1, NeverClaude
  <2>3. LeftAlone(setting) /\ Chain!Portal(end.runner) => Chain!Portal(Chain!Step(attempts, facts).runner)
      BY <1>3, NeverClaude
  <2> HIDE DEF choice, plan
  <2> QED
      BY <1>2, <2>2, <2>3 DEF Chain!SwitchTo, choice
<1> HIDE DEF plan, act
<1>4. facts' = facts /\ setting' = setting /\ end.state \in Chain!Ended
    BY DEF Chain!AfterEnd, Chain!Ending
<1>5. CASE plan.outcome # "none" /\ outcome' = plan.outcome /\ attempts' = attempts
  <2>1. end.state # "queued"
      BY <1>4 DEF Chain!Ended
  <2>2. ChainDone'
      BY <1>2, <1>5, <1>7, <2>1 DEF ChainDone
  <2> QED
      BY <1>4, <1>5, <2>2 DEF ChainInv, ChainShape, ChainAlone, ChainBound, ChainMoney
<1>6. ASSUME NEW gap \in setting.gaps, plan.kind # "none",
             attempts' = Append(attempts, Chain!NewAttempt(plan.runner, plan.kind, N, end.created + gap)),
             outcome' = outcome
      PROVE  ChainInv'
  <2>1. outcome' = "none"
      BY <1>6 DEF Chain!AfterEnd
  <2>2. plan.kind \in Chain!Kinds
      BY <1>2, <1>6 DEF Chain!Kinds
  <2>3. end.hit \notin {"usd", "tokens"}
      BY <1>1, <1>2, <1>6 DEF Chain!HardStop, ChainInv, ChainMoney
  <2>4. plan.kind = "continue" => Cardinality(Continues(attempts)) < MaxContinues
    <3>1. Cardinality(Continues(attempts)) \in Nat
      <4>1. IsFiniteSet(1..N) /\ Continues(attempts) \in SUBSET (1..N)
          BY <1>1, FS_Interval DEF Continues
      <4> QED
          BY <4>1, FS_Subset, FS_CardinalityType
    <3>2. Chain!Spent(attempts) <=> Cardinality(Continues(attempts)) >= MaxContinues
        BY ChainCardinality DEF Chain!Spent, Continues
    <3> QED
        BY <1>2, <3>1, <3>2, ChainAssumption
  <2>5. LeftAlone(setting) => /\ end.reason \notin {"context", "turns"}
                              /\ facts.api # "context"
      BY DEF ChainInv, ChainBound, ChainShape, LeftAlone, Chain!NoFacts
  <2>6. LeftAlone(setting) => \/ plan.kind = "continue"
                              \/ plan.kind = "wrap-up" /\ end.kind # "wrap-up"
                              \/ N < 4
      BY <1>2, <1>3, <1>6, <2>5
  <2>7. LeftAlone(setting) => end.state \notin {"done", "running", "queued"}
      BY <1>2, <1>3, <1>4, <1>6 DEF Chain!Ended
  <2>8. ChainAdd(plan.runner, plan.kind, N, gap)
      BY <1>1, <1>4, <1>6, <1>8, <2>1, <2>3, <2>4, <2>6, <2>7 DEF ChainAdd
  <2> QED
      BY <1>1, <2>2, <2>8, ChainAdds
<1> QED
    BY <1>5, <1>6 DEF Chain!AfterEnd, Chain!Ending, plan

LEMMA ChainContinue ==
    ASSUME ChainInv, Chain!ContinueTask
    PROVE  ChainInv'
<1>1. setting.owner /\ outcome' = "none" /\ facts' = facts /\ setting' = setting
    BY DEF Chain!ContinueTask
<1>2. PICK gap \in setting.gaps, kind \in {"manual", "switch"} : \E runner :
        attempts' = Append(attempts, Chain!NewAttempt(runner, kind, 0, attempts[Len(attempts)].created + gap))
    BY DEF Chain!ContinueTask, Chain!Ending
<1>3. PICK runner :
        attempts' = Append(attempts, Chain!NewAttempt(runner, kind, 0, attempts[Len(attempts)].created + gap))
    BY <1>2
<1>4. kind \in Chain!Kinds /\ kind # "continue"
    BY <1>2 DEF Chain!Kinds
<1>5. ~LeftAlone(setting)
    BY <1>1 DEF LeftAlone
<1> QED
    BY <1>1, <1>3, <1>4, <1>5, ChainAdds DEF ChainAdd

LEMMA ChainHolds == Chain!Spec => []ChainInv
<1>1. Chain!Init => ChainInv
    BY ChainInit
<1>2. ChainInv /\ [Chain!Next]_Chain!vars => ChainInv'
  <2>1. ASSUME ChainInv, UNCHANGED Chain!vars PROVE ChainInv'
      BY <2>1 DEF Chain!vars, ChainInv, ChainShape, ChainDone, ChainAlone, ChainBound, ChainMoney
  <2> QED
      BY <2>1, ChainRecordEnd, ChainAfterEnd, ChainContinue DEF Chain!Next
<1> QED
    BY <1>1, <1>2, PTL DEF Chain!Spec

(* A task is called done only on work that is done and close to its last attempt
   (chain.js annotate, chainEnd, step), whatever time lies between the attempts. *)
THEOREM DoneIsNear ==
    Chain!Spec => []DoneIsRecent
<1>1. ChainInv => DoneIsRecent
  <2>1. Tail60(attempts) \subseteq 1..Len(attempts) /\ \A i \in Tail60(attempts) : Chain!Unbroken(i)
      BY DEF Tail60, Chain!Unbroken
  <2>2. ChainInv => DOMAIN attempts = 1..Len(attempts)
      BY ChainLength DEF ChainInv, ChainShape, ChainOrdered
  <2> QED
      BY <2>1, <2>2 DEF ChainInv, ChainDone, DoneIsRecent, Chain!DoneIsRecent
<1> QED
    BY <1>1, ChainHolds, PTL

(* Left alone, a task that only crashes, meets limits and spends its steps has
   2 * MaxContinues + 5 attempts at most (attempts.js decide). *)
THEOREM ChainSettles ==
    Chain!Spec => []AutomaticChainBounded
<1>1. ChainInv => AutomaticChainBounded
  <2> SUFFICES ASSUME ChainInv, LeftAlone(setting) PROVE Len(attempts) <= 2 * MaxContinues + 5
      BY DEF AutomaticChainBounded, Chain!AutomaticChainBounded, LeftAlone
  <2> DEFINE n == Cardinality(Continues(attempts))
  <2>1. Len(attempts) \in Nat /\ DOMAIN attempts = 1..Len(attempts)
      BY ChainLength DEF ChainInv, ChainShape, ChainOrdered
  <2>2. n \in Nat
    <3>1. IsFiniteSet(1..Len(attempts)) /\ Continues(attempts) \in SUBSET (1..Len(attempts))
        BY <2>1, FS_Interval DEF Continues
    <3> QED
        BY <3>1, FS_Subset, FS_CardinalityType
  <2>3. n <= MaxContinues /\ (Len(attempts) > 4 => Len(attempts) <= 4 + 2 * n + 1)
      BY <2>1, <2>2 DEF ChainInv, ChainBound
  <2>4. MaxContinues \in Nat
      BY ChainAssumption
  <2> HIDE DEF n
  <2> QED
      BY <2>1, <2>2, <2>3, <2>4
<1> QED
    BY <1>1, ChainHolds, PTL

(* No attempt follows up one that ran out of dollars or tokens. *)
THEOREM MoneyStops ==
    Chain!Spec => []Chain!MoneyIsAHardStop
<1>1. ChainInv => Chain!MoneyIsAHardStop
    BY DEF ChainInv, ChainMoney, Chain!MoneyIsAHardStop, Chain!Automatic
<1> QED
    BY <1>1, ChainHolds, PTL

(* Deciding after an ending looks at that ending or at one close to it (chain.js
   annotate, chainEnd). *)
THEOREM DecidesNear ==
    Chain!Spec => []Chain!DecidesNearTheEnd
<1>1. ChainInv => Chain!DecidesNearTheEnd
  <2>1. Tail60(attempts) \subseteq 1..Len(attempts) /\ \A i \in Tail60(attempts) : Chain!Unbroken(i)
      BY DEF Tail60, Chain!Unbroken
  <2>2. ChainInv => /\ DOMAIN attempts = 1..Len(attempts)
                    /\ Chain!ChainEnd(attempts, Chain!Resolved(attempts)) \in Tail60(attempts)
      BY ChainLength, ChainEnds DEF ChainInv, ChainShape, ChainOrdered
  <2> QED
      BY <2>1, <2>2 DEF Chain!DecidesNearTheEnd
<1> QED
    BY <1>1, ChainHolds, PTL
===============================================================================
