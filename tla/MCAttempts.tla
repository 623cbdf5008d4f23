------------------------------ MODULE MCAttempts ------------------------------
(***************************************************************************)
(* One attempt of a task, as the job that carries it out on a machine      *)
(* (HarnessJob), and the timeline of a task's attempts, as the engine      *)
(* decides on it (TaskChain).  They share no state: each behaviour is one  *)
(* of them (the variable part says which) and leaves the other's alone.    *)
(***************************************************************************)
EXTENDS MCHarnessJob, MCTaskChain

VARIABLE part

chainVars == <<attempts, outcome, facts, fleet, setting>>

(* The half of the state that a behaviour leaves alone: nothing happened in it. *)
NoJob == Init /\ job = CHOOSE j \in Jobs : TRUE
NoTask ==
    /\ setting = CHOOSE s \in Settings : TRUE
    /\ attempts = <<>> /\ outcome = "none" /\ facts = Decision!NoFacts /\ fleet = {}

InitOne ==
    \/ part = "job" /\ Init /\ NoTask
    \/ part = "chain" /\ Chain!Init /\ NoJob

NextOfOne ==
    /\ UNCHANGED part
    /\ \/ part = "job" /\ Next /\ UNCHANGED chainVars
       \/ part = "chain" /\ Chain!Next /\ UNCHANGED vars

(* HarnessJob's fairness, in the behaviours that are a job's. *)
OfTheJob(Steps) == part = "job" /\ Steps /\ UNCHANGED <<chainVars, part>>

AttemptsSpec ==
    /\ InitOne /\ [][NextOfOne]_<<vars, chainVars, part>>
    /\ WF_vars(OfTheJob(JobSteps))
    /\ \A a \in Agents : /\ WF_vars(OfTheJob(Stops(a))) /\ WF_vars(OfTheJob(KillTimer(a)))
                        /\ WF_vars(OfTheJob(Dies(a))) /\ WF_vars(OfTheJob(LetsGo(a)))

(* Every job hands over its result or is killed (HarnessJob). *)
EveryJobEnds == part = "job" => JobEnds
===============================================================================
