-------------------------------- MODULE MCSite -------------------------------
(***************************************************************************)
(* The parts of the site and of the job runner that share no state, in one *)
(* run: each behaviour is one of them (the variable part says which) and   *)
(* leaves the others where they start.  A run takes some of the Parts.     *)
(* Pair is the two requests, forms, handlers or tabs that are at work at   *)
(* once in whichever part it is.                                           *)
(***************************************************************************)
EXTENDS Naturals, Sequences, FiniteSets, TLC

CONSTANTS
    Parts,                                                   \* what the run is about
    Pair,
    JobHarnesses, Blocks, Pieces, Calls,
    StepLimit, Override, MaxRestarts, MaxTurns,              \* JobRunner
    Files, SizeOf, Programs,
    MaxFiles, MaxFileSize, MaxMessageSize, MaxDeaths,        \* Attachments
    Texts, Secrets, Teams, Endings,
    MaxCapture, MaxDays, MaxRows, MaxSeen,                   \* Knowledge
    Tabs, Bodies, Audiences, Projects,
    MaxVersions, MaxFailures,                                \* Skills
    Cap, MaxCost, MaxAttempts, MaxUnread, MaxRefusals,       \* RunTokens
    Machines, FleetAgents, Windows, Readings, Chain,
    MaxReports, MaxReads,                                    \* Fleet
    PlacedTasks, PlacedOn, Paid, OwnPlans, Handlers,
    MaxLost,                                                 \* Placement
    MaxExpiries, MaxUnanswered,                              \* MemoryDesk
    Budget, MaxTargets, MaxTasks, MaxMishaps,                \* StartDesk
    Groups, TaskCount, MaxActive, DailyTasks, MaxFaults,     \* Bench
    SetAgents,                                               \* Settings
    AccountTasks, OwnTables, KeyedTables, MaxAborts,         \* Account
    Statics, Routes, Families, Catalogs                      \* ProofRun

(* A file no send has is nobody's.                                           *)
ASSUME FilesAssumption == "nobody" \notin Pair /\ IsFiniteSet(Files)

(* An agent says text or thinks.                                             *)
ASSUME BlocksAssumption == Blocks \in Seq({"text", "thinking"}) /\ Pieces \in Nat

(* A request costs something.                                                *)
ASSUME BudgetAssumption == Cap \in Nat /\ MaxCost \in Nat \ {0}

(* A machine reports an agent that it does not have, or that is not signed   *)
(* in, or ready, with its windows; one without a kit is no row.              *)
ASSUME FleetAssumption ==
    /\ Chain \in Seq(FleetAgents)
    /\ \A reading \in Readings :
        /\ reading \in [kit : {"none", "absent", "login", "ready"},
                        use : [Windows -> [pct : Nat, past : {"no", "yes"}]]]
        /\ reading.kit = "none" => reading.use = [w \in Windows |-> [pct |-> 0, past |-> "no"]]

(* A column without an agent is NULL.                                        *)
ASSUME SettingsAssumption == "NULL" \notin SetAgents

(* A task without a placement has no option key.                             *)
ASSUME PlacementAssumption == "none" \notin PlacedOn /\ IsFiniteSet(PlacedTasks)

(* run_tasks is erased by a statement of its own, after the tables it keys.  *)
ASSUME AccountAssumption == "run_tasks" \notin OwnTables \cup KeyedTables /\ "before" \notin Pair

(* What a machine offers is a list, each model of a family or of none.       *)
ASSUME CatalogAssumption == \A models \in Catalogs : models \in Seq(Families \cup {"none"})

(* A benchmark names a task, and a request a model and a harness.            *)
ASSUME BenchAssumption == Groups \in Nat \ {0} /\ TaskCount \in Nat \ {0}

VARIABLES
    part,
    harness, agent, events, from, lines, turn,
    file, send, talk, taking,
    know, made, report, capture, editing, day,
    skill, versions, share, assigned, tab, failures,
    attempt, job, budget, used, traced, hand, faults, refusals,
    bot, held, money, reader, reports, reads,
    placed, taught, teacher, lost,
    jar, network, memory, post, applied, expiries, unanswered,
    tasks, request, spent, projects, mishaps,
    session, cell, publisher, publishing, published, today, misses,
    chosen, save, writes,
    rows, writer, erase, aborts,
    change, proof, site, item, seen

runnerVars == <<harness, agent, events, from, lines, turn>>
fileVars == <<file, send, talk, taking>>
knowVars == <<know, made, report, capture, editing, day>>
skillVars == <<skill, versions, share, assigned, tab, failures>>
tokenVars == <<attempt, job, budget, used, traced, hand, faults, refusals>>
fleetVars == <<bot, held, money, reader, reports, reads>>
placeVars == <<placed, taught, teacher, lost>>
memoryVars == <<jar, network, memory, post, applied, expiries, unanswered>>
deskVars == <<tasks, request, spent, projects, mishaps>>
benchVars == <<session, cell, publisher, publishing, published, today, misses>>
settingVars == <<chosen, save, writes>>
accountVars == <<rows, writer, erase, aborts>>
proofVars == <<change, proof, site, item, seen>>

Runner == INSTANCE JobRunner WITH Harnesses <- JobHarnesses, Says <- Blocks
Att == INSTANCE Attachments WITH Sends <- Pair, MaxLost <- MaxDeaths
Know == INSTANCE Knowledge WITH Says <- Texts, Reports <- Endings, Captures <- Pair
Skill == INSTANCE Skills
Token == INSTANCE RunTokens WITH MaxFaults <- MaxUnread
Machine == INSTANCE Fleet WITH Agents <- FleetAgents, Reports <- Readings, Readers <- Pair
Place == INSTANCE Placement WITH Tasks <- PlacedTasks, Harnesses <- PlacedOn, Own <- OwnPlans
Mem == INSTANCE MemoryDesk WITH Posts <- Pair, MaxLost <- MaxUnanswered
Desk == INSTANCE StartDesk WITH Requests <- Pair, MaxFaults <- MaxMishaps
Runs == INSTANCE Bench WITH Sessions <- Pair, failures <- misses
Set == INSTANCE Settings WITH Saves <- Pair, Agents <- SetAgents
Acc == INSTANCE Account WITH
    Tasks <- AccountTasks, Writers <- Pair, Own <- OwnTables, Keyed <- KeyedTables
Proof == INSTANCE ProofRun

(* What TLC takes: the blocks of an attempt are thinking and text in turn;   *)
(* the third file is larger than a message may be; of two endings one        *)
(* failed and has a secret in what it learned; an agent is absent, signed    *)
(* out, or ready with its windows more or less full; models of two families, *)
(* in either order, and one whose name says nothing.  A third tab lets two   *)
(* saves follow what the first one read.                                     *)
FourBlocks == <<"thinking", "text", "thinking", "text">>

ThirdTooLarge == [f \in Files |-> IF f = "f3" THEN 3 ELSE 1]

TwoEndings == {[learned |-> <<"x">>, facts |-> <<"s">>, ok |-> FALSE, failing |-> <<>>, commands |-> <<"test">>],
               [learned |-> <<"x">>, facts |-> <<>>, ok |-> TRUE, failing |-> <<>>, commands |-> <<"test">>]}

Reading(kit, five, week) ==
    [kit |-> kit, use |-> [w \in Windows |-> [pct |-> IF w = "5h" THEN five ELSE week, past |-> "no"]]]
FourReadings == {Reading("none", 0, 0), Reading("login", 0, 0), Reading("ready", 0, 2), Reading("ready", 3, 1)}

TwoAgents == <<"cc", "cx">>

ThreeCatalogs == {<<"none", "m">>, <<"m", "n">>, <<"n", "m">>}

vars == <<part, runnerVars, fileVars, knowVars, skillVars, tokenVars, fleetVars, placeVars, memoryVars,
           deskVars, benchVars, settingVars, accountVars, proofVars>>

(* The parts a behaviour is not about start in one state, not in each.       *)
Init ==
    /\ part \in Parts
    /\ Runner!InitJob /\ Att!InitFiles /\ Know!InitKnow /\ Skill!InitSkill /\ Token!InitTokens /\ Machine!InitFleet
    /\ Place!InitPlacement /\ Mem!InitMemory /\ Desk!InitDesk /\ Runs!InitBench /\ Set!InitSettings /\ Acc!InitAccount
    /\ Proof!InitProof
    /\ part # "runner" => harness = "claude"
    /\ part # "knowledge" => report.ok
    /\ part # "memory" => jar.root = 1
    /\ part # "desk" => tasks = <<>>
    /\ part # "account" => rows = {}
    /\ part # "proof" => change.static = {} /\ ~change.rendered /\ ~change.browser /\ ~change.named

Next ==
    /\ UNCHANGED part
    /\ \/ /\ part = "runner" /\ Runner!NextJob
          /\ UNCHANGED <<fileVars, knowVars, skillVars, tokenVars, fleetVars, placeVars,
                         memoryVars, deskVars, benchVars, settingVars, accountVars, proofVars>>
       \/ /\ part = "files" /\ Att!NextFiles
          /\ UNCHANGED <<runnerVars, knowVars, skillVars, tokenVars, fleetVars, placeVars,
                         memoryVars, deskVars, benchVars, settingVars, accountVars, proofVars>>
       \/ /\ part = "knowledge" /\ Know!NextKnow
          /\ UNCHANGED <<runnerVars, fileVars, skillVars, tokenVars, fleetVars, placeVars,
                         memoryVars, deskVars, benchVars, settingVars, accountVars, proofVars>>
       \/ /\ part = "skills" /\ Skill!NextSkill
          /\ UNCHANGED <<runnerVars, fileVars, knowVars, tokenVars, fleetVars, placeVars,
                         memoryVars, deskVars, benchVars, settingVars, accountVars, proofVars>>
       \/ /\ part = "tokens" /\ Token!NextTokens
          /\ UNCHANGED <<runnerVars, fileVars, knowVars, skillVars, fleetVars, placeVars,
                         memoryVars, deskVars, benchVars, settingVars, accountVars, proofVars>>
       \/ /\ part = "fleet" /\ Machine!NextFleet
          /\ UNCHANGED <<runnerVars, fileVars, knowVars, skillVars, tokenVars, placeVars,
                         memoryVars, deskVars, benchVars, settingVars, accountVars, proofVars>>
       \/ /\ part = "placement" /\ Place!NextPlacement
          /\ UNCHANGED <<runnerVars, fileVars, knowVars, skillVars, tokenVars, fleetVars,
                         memoryVars, deskVars, benchVars, settingVars, accountVars, proofVars>>
       \/ /\ part = "memory" /\ Mem!NextMemory
          /\ UNCHANGED <<runnerVars, fileVars, knowVars, skillVars, tokenVars, fleetVars,
                         placeVars, deskVars, benchVars, settingVars, accountVars, proofVars>>
       \/ /\ part = "desk" /\ Desk!NextDesk
          /\ UNCHANGED <<runnerVars, fileVars, knowVars, skillVars, tokenVars, fleetVars,
                         placeVars, memoryVars, benchVars, settingVars, accountVars, proofVars>>
       \/ /\ part = "bench" /\ Runs!NextBench
          /\ UNCHANGED <<runnerVars, fileVars, knowVars, skillVars, tokenVars, fleetVars,
                         placeVars, memoryVars, deskVars, settingVars, accountVars, proofVars>>
       \/ /\ part = "settings" /\ Set!NextSettings
          /\ UNCHANGED <<runnerVars, fileVars, knowVars, skillVars, tokenVars, fleetVars,
                         placeVars, memoryVars, deskVars, benchVars, accountVars, proofVars>>
       \/ /\ part = "account" /\ Acc!NextAccount
          /\ UNCHANGED <<runnerVars, fileVars, knowVars, skillVars, tokenVars, fleetVars,
                         placeVars, memoryVars, deskVars, benchVars, settingVars, proofVars>>
       \/ /\ part = "proof" /\ Proof!NextProof
          /\ UNCHANGED <<runnerVars, fileVars, knowVars, skillVars, tokenVars, fleetVars,
                         placeVars, memoryVars, deskVars, benchVars, settingVars, accountVars>>

Spec == Init /\ [][Next]_vars

Symmetry == Permutations(Pair)

-----------------------------------------------------------------------------

(* The transcript shows what the agent said once (stream.js, joblines.js).   *)
SaidOnce == Runner!SaidOnce

(* A message has all the files it names, or none (attachments.js claim).     *)
WholeOrNothing == Att!WholeOrNothing

(* No two rows of a person's knowledge say the same (knowledge.js remember). *)
NoTextTwice == Know!NoTextTwice

(* A save of a skill that was answered as saved is in its history            *)
(* (skills.js).                                                              *)
SavesAreKept == Skill!SavesAreKept

(* A task spends its budget and one request at most, but for what a fault    *)
(* hides (run-tokens.js).                                                    *)
BudgetHolds == Token!BudgetHolds

(* A pinned turn goes to an agent that has room while one has (fleet.js).    *)
ChoosesRoom == Machine!ChoosesRoom

(* A task's ends teach the placement once (run-tasks.js                      *)
(* recordPlacementOutcome).                                                  *)
TaughtOnce == Place!TaughtOnce

(* What the memory page says of a form is what happened to it (memory.js,    *)
(* sso.js).                                                                  *)
AnswersAreTrue == Mem!AnswersAreTrue

(* One key names one task, however often it is sent (tasks-api.js).          *)
OneTaskPerKey == Desk!OneTaskPerKey

(* What Bench is sent of a run has every task of it, ended                   *)
(* (bench-publisher.js).                                                     *)
PublishedWhole == Runs!PublishedWhole

(* What a save of the settings sent stays, but for a save that overlapped it *)
(* (user-settings.js).                                                       *)
KeptUnlessOverlapped == Set!KeptUnlessOverlapped

(* An account's deletion takes all that was there, or nothing                *)
(* (account-data.js).                                                        *)
ErasedIsGone == Acc!ErasedIsGone

(* A proof stands on what was seen (engine/proof.js).                        *)
DoneIsShown == Proof!DoneIsShown

(* A proof leaves no site running (harness/proof.js startSite).              *)
SitesAreStopped == Proof!SitesAreStopped

(* A review in words is read by its words (engine/review.js).                *)
WordsAreRead == Proof!WordsAreRead

(* No statement of an account's deletion is refused (account-data.js).       *)
DeletionGoesThrough == Acc!DeletionGoesThrough
==============================================================================
