# OpenVibe.Codes in TLA+

OpenVibe.Codes runs coding agents on a person's own machines. A task is a brief; each
attempt at it is one job of OpenVibe.Run on a machine; when an attempt ends, the engine
decides whether the task is done, gets another attempt (another agent, a fresh context, a
wrap-up) or waits for its owner. A conductor is a long conversation whose every turn is such
a job. All state is in PostgreSQL; a server process is a set of concurrent request handlers
that are interrupted at every `await`, and may die at any of them. Most modules model that
server: what its handlers write, in which order, and what other handlers, late events and
crashes may do in between. The others model the other ends: a job on the machine with the
agents it starts and stops, the transcript made of what an agent prints, and the sandbox
worker with its proxy.

## Inventory

| Part | State | Operations | Interacts with | What is hard | What makes it correct |
|---|---|---|---|---|---|
| Engine (`engine/chain.js`, `domain/attempts.js` decide) | none; reads the attempts | annotate, settleChain, step, nextAgent, decide | called by afterEnd | rules that each count a different set of attempts | what is decided on is done or failed near the end; chains end; money is a hard stop |
| Task (`domain/run-tasks.js`) | `run_tasks`, `codes_attempts`, `codes_task_proof`, `codes_notices` | start, recordState, refresh, afterEnd, startFollowUp, continueTask, stopTask | Run (submit, cancel, read), the consumer, the outbox | handlers interleave at awaits; crash between two statements; lost answers | one follow-up per ending; a stop stays; an ending gets its decision |
| Events consumer (`events-consumer.js`) | `codes_events_inbox` | handleRun | applies to tasks and conductors | at-least-once, unordered delivery; events before the row knows its job | an event counts once; a state never goes back |
| Outbox (`events/outbox.js`) | `codes_outbox` | emitTask, claim, send, runOnce | OpenVibe.Events | leases, timeouts, two processes, two limits | two senders only past the lease; nothing given up early; all rows settle |
| Conductor (`domain/conductor.js`) | the task's row, one attempt, `codes_conductor_messages` | create, message, startNext, pump, onTurnEnd, stop | Run, the consumer, the failover | a turn's end arrives three ways; queue restarts in the same handler | one turn at a time, in order, landing as its own job ended |
| Approvals (`domain/approvals.js`, `bin/mcp.js`) | `codes_approvals` | create, decide, deny on stop, long poll | a conductor's tools, its page, the phone | check-then-insert; asking after the stop; an answer at the timeout | a call runs only when its owner allowed it; nothing hangs |
| Session log (`domain/session-lines.js`, `http/task-events.js`, `http/run.js`) | `codes_session_lines` | append, back-fill, replay, retention | Run's stream, readers | resume from a sequence number while others write | no line moved or changed; complete means reconciled |
| Harness job (`harness/job.js`, `harness/index.js`, `harness/process.js`, adapters) | a clone on the machine, the agent's process, the branch | clone, run, hand off, measure, prove, push | agent CLIs and APIs, git, the forge | agents that hang, ignore signals or leave processes behind; somebody else at the forge; lost answers | one agent at a time; the branch is the reported change; the job ends |
| Transcript (`engine/jobrunner.js`, `engine/transcript.js`, `engine/adapters/`, `engine/joblines.js`) | the events of an attempt | feed, merge, flush, wrap up | the harness's output, the page | streamed, restarted and repeated text; limits reached in the middle | what was said is shown once |
| Proof of a change (`engine/proof.js`, `harness/proof.js`, `engine/review.js`) | the items; the site's process group | test, shoot the pages, diff, review | the repository's own tests and site, a browser, OpenVibe.AI | each step may fail, hang or be answered by somebody else | an outcome stands on what was seen; no site is left running |
| Sandbox worker (`sandbox/worker.js`, `session.js`, `supervisor.js`, `browser.js`) | sandboxes, cgroups, directories | open, run, open a page, wipe, self-test | the play desk, the kernel | a process that outlives its SIGKILL; a worker that dies anywhere | little of a sandbox stays, and that is said; every request is answered |
| Egress proxy (`sandbox/egress-proxy.js`) | slots, buckets, bytes | request, connect, pass, release | sites | decisions made before an await | a spent budget lets no counted byte through; slots are counted |
| Worker health, play desk (`domain/sandbox-workers.js`, `domain/play-desk.js`) | the newest check-in; the session's record | check in, healthy; arm, begin, spend, wipe, end | the worker, the chat | check-ins out of order; calls in any order | healthy means recently heard; over stays over |
| Attachments (`domain/attachments.js`) | `codes_attachments` | upload, link, remove | chat, conductor, tasks | row locks, deadlocks, two tabs | a message has all its files or none |
| Knowledge (`domain/knowledge.js`) | `codes_knowledge` | capture, add, edit, pin, share, remove | afterEnd, its page | captures beside edits | no text twice |
| Memory pages (`http/memory.js`, `domain/memory.js`, `auth/sso.js`) | none of its own; the session's cookies | edit, import, sync, ... | OpenVibe.AI, OpenVibe.Network | tokens that expire in flight, lost answers | what the page says happened, happened, once |
| Skills (`domain/skills.js`) | `codes_skills`, versions, share rows | create, save, roll back, share, assign | the share library | saves from several tabs | a save that was answered is in the history |
| Run tokens (`domain/run-tokens.js`) | traces, budgets at OpenVibe.AI | mint, register, record, submit | Network, AI, Run | four calls, each of which may fail | the budget holds |
| Fleet and failover (`domain/fleet.js`, `domain/conductor-failover.js`) | `codes_machine_fleet` | refresh, choose | OpenVibe.Bot, the conductor | overlapping refreshes, windows that passed | a turn goes where there is room |
| Placement (`domain/harness-placement.js`, `domain/placement-outcomes.js`) | the learned rows, a claim on the task | route, record | afterEnd | the same end seen several times | an end teaches once |
| Doors (`http/tasks-api.js`, `chat.js`, `run.js`, `conductor-api.js`, `c4.js`) | `run_tasks`, the limiter | start, carry on, stop | tasks, conductors | keyed requests sent again | one key, one task |
| Benchmarks (`http/tasks-api.js`, `domain/bench-publisher.js`) | the group's tasks, a set in memory | start a matrix, publish | Bench | tasks that end while others start | what is published is whole |
| Settings (`domain/user-settings.js`) | one row a person | get, save | every form | read whole, write whole | a save stays |
| Account (`account-data.js`) | every table | erase | the person's handlers | writes beside the deletion; rows another person's refer to | all that was there is gone, or nothing |

`PROJECT.json` lists every component with its status, and every hazard at its line with the
properties that watch it.

## Modules

| Module | Models | State and actions |
|---|---|---|
| `Engine` | `chain.js`, `budget.js`, the deciding half of `attempts.js` | no state: `Resolved`, `ChainEnd`, `Step`, `Decide` over a sequence of attempts |
| `TaskChain`, `AttemptProofs` | the timeline of one task, decisions taken at once | `RecordEnd` (recordState), `AfterEnd` (afterEnd and startFollowUp), `ContinueTask`. `MCTaskChain` instantiates it and names the properties that TLC checks and `AttemptProofs` proves; `MCAttempts` puts it beside `HarnessJob` for one run |
| `RunTasks`, `RunTasksProofs` | one task with its handlers, Run and its events | one action per database statement or transaction, or call of Run; `h[p].pc` names the await a handler stands at |
| `Outbox`, `OutboxProofs` | the outbox and its publishers | `Write`, `Claim`, `Post`, `Answer`, `Mark`, `Fail`, `Abandon`, `Tick` |
| `Conductor`, `ConductorProofs` | one conductor with its handlers, Run and its events | `Create` ... `Take`, `Choose`, `Submit`, `Bind` (startNext), `Pump`, `Deliver`, `Refresh`, `Apply`, `OnTurnEnd`, `Stop` |
| `HarnessJob`, `AttemptProofs` | one job on a machine | `Parse`, `Prepare`, `ApplyPatch`, `Pick`, `EndAttempt`, `Changes`, `CollectProof`, `PushTarget` ... `WriteResult` are runJob in order; `Edit`, `Says`, `Exit` the agent; `Stops`, `KillTimer` the timers; `SomebodyPushes` the forge's other users |
| `SessionView` | what a session promises its readers | `shown`, `looked`, `complete`, `log`; `Write` adds lines, `Look` sees the session, `Reconcile` completes it from a result and what was seen, `Resume` opens it again, `Forget` drops a complete one whole |
| `SessionLog`, `SessionLogProofs` | the stored session with its recorders, back-fill, proof, retention and one reader | `Emit`, `Connect`, `Push`, `PushFails`, `Leave` (a recorder); `EndRead`, `EndWrite` (the back-fill's two statements); `SendLines`, `ReadRow`, `Reconnect` (the reader) |
| `Approvals` | the inbox and the tool calls of one turn | `create` in two statements, `Decide`, `DecideAny`, the stop in two statements, the tool's poll and timeout |
| `SandboxWorker` | one worker, its sandboxes and the requests made of them | `OpenSession`, `Spawned`, `Ready`, `Ask`, `Answer`, the page's steps, `WipeNow`, `WipeGoesOn`, `Cleanup`, `Drop`; `Crash`, `Start` with the reaping of what an earlier worker left; `ChildExits`, `BrowserExits` the confined side |
| `Egress`, `SandboxHealth`, `PlayDesk` | the proxy of one session; signed check-ins and what Codes believes; the session's record | one action per decision, data event and release; `Announce`, deliver, lose; the desk's functions in any order |
| `JobRunner` | one attempt's output on its way to the page | `Delta`, `Restart`, `Message`, `ToolUse`, `ToolResult`, `Result`, `Dies` (what the harness prints, each with its feed, merge and flush), `WrapUpTurn` |
| `ProofRun` | the proof of one finished attempt | `ReadPackage`, `Tests`, `Screenshot` ... `Pictures`, `DiffItem`, `Reviewed` are collectProof in order; `StartSite`, `SiteAnswers`, `SiteSilent`, `StopSite` the site at each width, `SiteExits` the site itself |
| `Attachments`, `Knowledge`, `Skills`, `RunTokens`, `Fleet`, `Placement`, `MemoryDesk`, `StartDesk`, `Bench`, `Settings`, `Account` | the part of the same name in the inventory | the handlers of that part, one action per statement, transaction or call |
| `GuardsProofs` | theorems about `Approvals`, `PlayDesk`, `SandboxHealth`, `Egress`, `SandboxWorker` | it extends `MCGuards`, for its constants and their assumptions |
| `SiteProofs`, `WorkProofs` | theorems about what a person keeps (`Attachments`, `Knowledge`, `Skills`, `Settings`, `MemoryDesk`, `Account`) and about the work a person starts (`StartDesk`, `Placement`, `Fleet`, `Bench`, `ProofRun`, `RunTokens`, `JobRunner`) | they extend `MCSite` in the same way |
| `MC...` | instances for TLC | `MCGuards` and `MCSite` hold several parts that share no state: each behaviour is one of them |

`TaskChain` and `RunTasks` both extend `Engine`: the first checks the decision over many kinds
of endings without races, the second the races with the same decision inside.

**Handlers.** In `RunTasks` and `Conductor` a handler is a request, a delivery or a page view.
It keeps what it read in local variables across an `await`, so `h[p]` is a record of those
(the row it read, the job document it applies, the attempt it works for). An action is what
happens between two awaits that another handler could see: one statement, one transaction or
one call. Consecutive reads that no property tells apart are one step. A crash drops every
handler where it stands and changes nothing else; in `Conductor`, `Crash(p)` drops one
handler, which also stands for a statement that fails in it.

**Run.** OpenVibe.Run is external. Job *n* is the job submitted under attempt *n*'s
idempotency key; it starts and ends by itself, its events are a set that is never emptied
(delivered at any time, any number of times), a submit may be refused or its answer lost.

**A job.** `stage` is where runJob stands, `proc[a]` what agent `a`'s process is at. What the
clone's files, its index, its commits and the branch hold are sets of works (each agent's
edits, the earlier turns' patch, the marks of a failed merge, the files the proof's tests
leave, somebody else's commit): enough to tell which change is measured, committed and pushed.
Adapters differ in what they take for success: a result line, words and exit code zero
(Codex, Aider, MiniMax), words alone (OpenCode), or an API loop that was not stopped.
pushForge and pushBranch take the same steps and are one set of actions.

**Statements.** The other server modules keep to the same grain: what a handler read before an
`await` is in its own record, a statement or transaction is one action. Where PostgreSQL's
locks matter (`Attachments`: an UPDATE of a row another transaction changed waits and reads
its WHERE again; `Account`: every statement of the deletion sees what was committed before it)
they are part of the actions.

**Refinement.** `SessionLog` is shown to implement `SessionView` (`ImplementsView`: the
abstract `Spec` as a property), with the table as what is shown, the back-fill's read as the
look, `session_complete_at` as `complete` and the recorded result as the log. The abstract
session says what readers rely on: a line once shown stays where and what it is; a session is
completed by one that has looked at it, and of the result's lines no more are left out than
others wrote lines since that look; lines go only all together. It cannot say that complete
means every line: the back-fill reads and inserts in two statements, recorders write between
them, and a row that is there wins. TLC checks it on the `session` run, and
`SessionLogProofs` proves it without a hypothesis on the writers.

**Bounds.** `MaxAttempts`, `MaxFaults`, `MaxPresses`, `MaxTurns`, `MaxEvents` and the other
constants named `Max...` that a module calls a bound cap the counters; each is a guard of the
action that would pass it. Limits of the code (`MaxSessions`, `MaxOpen`, `MaxFiles`,
`MaxCapture`, `MaxActive`, ...) are constants too, set as low as the interesting side of them
can be reached.

## Runs

| Run | Instance | Shows |
|---|---|---|
| `attempts` | a job: eight inputs, five agents (one not set up here), two tries, agents that commit and processes that hold the output, one failing command, lost answer or kill, fairness. A timeline: an owner and three attempts with five reasons, three budgets and two fleets; an owner and three attempts 50 or 90 seconds apart; nobody and eight attempts ten seconds apart | one agent at a time, ok only when earned, the branch is the reported change, others' commits stay, every job ends; a task is done on work that is done and near its last attempt, and left alone it settles within 2*MaxContinues + 5 attempts |
| `tasks_serial` | one handler, three attempts, one fault anywhere, two presses, a budget that may run out, fairness | sequences of whole operations and crashes: an attempt follows its own job, a stop stays, an ended task gets its decision |
| `tasks_race` | two handlers (symmetric), three attempts, one fault anywhere | the fence on follow-ups under every interleaving |
| `outbox` | two publishers, two events, a batch of two whose POSTs take the time of the lease each, all answers, one fault, fairness | two publishers send one event at once only past the lease, and every row settles |
| `turns_serial` | one handler, two agents, three turns, retarget, a crash or a refused submit, fairness | turns resume their own agent's session; without faults all messages land |
| `turns_race` | two handlers (symmetric), two turns, stream, stop, one fault of any kind | one turn at a time, in the order written |
| `session` | two recorders (symmetric) that write at any time, a conductor of two turns or a task of two attempts with its proof, pages of two lines, one failing statement | a reader that resumes misses no whole line; the stored session implements `SessionView` |
| `guards` | two sandboxes of which one may run, a command and a page, one crash, one process or removal that gets stuck; three connections, two of them to one site (symmetric), tunnels and HTTP requests with their heads, a budget of one; two check-ins on their way; the desk's functions | what a wipe may leave behind and what the next worker sweeps; slots are counted, a spent budget is spent, the heads that pass after it are few; healthy is fresh; over stays over |
| `answers` | one sandbox, a command and two pages that may both be the browser's first, one crash, one process or removal that gets stuck; three calls of which two look alike, one lost request, a stop; fairness | every request is answered, but for the pages the code cuts off from the browser; a call runs only when its owner allowed it, and every call is answered |
| `site` | two requests at once in each part (`Pair`, symmetric; a third tab for skills, a third handler for placement), one or two faults | said once; a message whole or not at all; no text twice; saves kept; the budget holds; a turn goes where there is room; a task teaches once; the memory page's answers are true; one task per key; published whole; erased is gone; a proof's outcome stands on what was seen and every site it started was told to stop |

Two runs have one property each, which a comment of the code states, and find it violated;
`PROJECT.json` quotes the comments under "findings".

| Run | Instance | Shows |
|---|---|---|
| `stop_undone` | two handlers, one press | a stop that lands while a follow-up is being submitted is written over (`run-tasks.js:1019`) |
| `one_live` | two handlers, one press | a press of continue and a follow-up of the same ending start two jobs for one worktree (`run-tasks.js:893`) |

The bounds are the smallest at which every action fires and each property's mutant is caught:
two handlers because every race in this code is between two; three attempts because a
follow-up of a follow-up is the first place where "the last attempt" and "the ending" can
differ; two turns (three when sessions of two agents interleave); two events because a batch of
two holds one back while it sends the other, past the lease; two tries because a hand-off needs a second agent; two sandboxes
under a limit of one, three connections under a limit of two, two pages because each may take
the other for started, and two files under a message's
limit so that a limit is met and passed on; three skills tabs because the save that read first
must be overtaken twice. What holds for two handlers is not assumed to hold for more: the
theorems below cover any number.

Deadlock is checked for the outbox, whose clock always ticks. Everything else may rest (an
idle task waits for its owner, a job ends, a form is answered), so there the cfg says
CHECK_DEADLOCK FALSE, and that nothing rests too early is said by the liveness properties.

**Fairness.** `RunTasks`: a handler's awaits come back, Run's jobs end, and somebody looks at
the task again (refresh reads Run after ten quiet minutes); an event that can be delivered
again and again is delivered some time (strong fairness of `DeliverEvent`: Run delivers an event
until it is taken), which does not keep an early one from being consumed as nobody's. `Outbox`: the publisher's timer chain keeps calling `runOnce`, a POST ends at the
latest at its timeout, time goes on. `Conductor`: as for tasks. `HarnessJob`: the job's own
steps (each git command has a timeout) and its timers happen, and a killed process dies;
nothing is assumed of an agent, which may ignore SIGTERM and talk forever. A process an agent
left behind lets go of its output some time; without that the job waits for it for good.
`SandboxWorker`: the worker's timers fire and the continuations of its promises run; nothing
is assumed of the supervisor, the browser or what runs in the sandbox. `Approvals`: the
approving tool takes its steps and its timeout comes; nothing is assumed of the owner. The
session log and the site's parts have safety properties only.

**What the session module assumes.** `StrideAssumption`: an event's lines and what the results add
after them have room in the seqs of one event. The code gives an event 250 000 seqs
(`session-lines.js:24`); an event has 66 000 lines at most and a result's log 4000, so there is
room for 45 results back-filled after one event. Nothing is assumed of who writes when.

### Disagreements without a run of their own

TLC finds these too: each is a property defined in the module, whose comment says what the
code or a document promises, and is violated on an instance like the ones above, with what the
last column says. They are not among the listed runs.

| Module | Property | What happens |
|---|---|---|
| `TaskChain` | `DoneMeansFinished` | of two attempts within a minute, the earlier one that is done is taken for the end of the later one that failed, and the task is called done (`chain.js:217`, `410`) |
| `TaskChain` | `SwitchHasRoom` | with no room anywhere, decide falls back to the engine's own runner (`attempts.js:440`) |
| `RunTasks` | `AttemptFollowsItsJob` | with two handlers, a state read for one job is recorded on the attempt of the next |
| `RunTasks` | `DecisionIsMade` without `LeftBehind` | a crash between a follow-up's insert and the row that names its job: the fence keeps the task waiting for good |
| `RunTasks` | `NeedsIsTold` | a follow-up or continue refused by an exhausted budget records the outcome and tells nobody (`run-tasks.js:841`, `933`) |
| `RunTasks` | `SaidIsTrue` | a continue whose submit fails puts the row back without an event (`run-tasks.js:960`) |
| `RunTasks` | `EvidenceDecides` | an ending processed a second time finds its proof already recorded, gets none of it back and calls the task done (`run-tasks.js:776`) |
| `Outbox` | `NeverTwoAtOnce` | a batch outlasts the lease, and a second process sends a row the first one still sends, though "two processes never send one row at once" (`outbox.js:11`) |
| `Outbox` | `DeadIsNotSent` | a publisher whose lease ran out sends a row another one gave up |
| `Conductor` | `LandedAsItsJob` | with two handlers, the pump of a turn applies its job's end to the row of the next turn, which then lands with it (`conductor.js:507`) |
| `Conductor` | `OutcomeMeansEnded` | a second ending of the old turn writes `unfinished` on the turn being started (`conductor.js:565`) |
| `Conductor` | `NothingCarriesOn` | a stop between submit and bind is overwritten and the job not cancelled |
| `Conductor` | `ResultIsTheTurns` | a turn without a result lands with the previous turn's answer and session |
| `Conductor` | `ResumesOwnSession` | when the failover's choice fails, the turn resumes whichever session the attempt holds (`conductor.js:444`) |
| `Conductor` | `EveryMessageLands` | after a refused submit no queued message starts until the next press (`conductor.js:466`) |
| `HarnessJob` | `StartsFromTheBranch` | `git apply --3way` that meets a conflict leaves its marks in the tree, though the turn "starts from the branch as it is" (`job.js:683`) |
| `HarnessJob` | `BranchIsNew` | a branch made between ls-remote and the push, at a commit the clone has, is moved forward (`job.js:537`) |
| `HarnessJob` | `ChangesReported` | `git add` and `git diff --cached` see nothing an agent committed itself: no files, no push |
| `HarnessJob` | `CutShortIsNotOk` | an agent stopped at its time limit after it wrote something is ok when it is OpenCode (`cli.js:200` does not read how it ended) or exits with zero on SIGTERM |
| `HarnessJob` | `JobEnds` | without the fairness of a held output: the job waits for it for good |
| `SessionLog` | `NoLineTwice` | a line the back-fill added is stored again by a page that reads the stream later (`session-lines.js:268`) |
| `SessionLog` | `CompleteShowsTheResult` | a follow-up keeps `session_complete_at`, and its own result is never reconciled (`run-tasks.js:465`, `migrations/0007_session_lines.sql:18`) |
| `SessionLog` | `ReaderHasAll` | a reader closes at the task's end without the lines stored below, or after, the last seq it was sent |
| `Approvals` | `NotAskedTwice` | two calls that show the same line both look before either inserts (`approvals.js:84`) |
| `Approvals` | `NothingWaitsAfterStop` | a call that asks after the stop denied what waited, waits until its own timeout |
| `SandboxWorker` | `RequestsAreAnswered` without `Stranded` | of two first pages at once the second replaces the sandbox's DevTools client, and the calls of the first are neither answered nor refused (`session.js:287-290`); a page whose browser starts as the wipe closes the client waits in the same way, and a stop of the worker waits for both (`server.close`) |
| `SandboxWorker` | `NothingIsKept` | a wipe before the pid namespace is known leaves processes without a word (`session.js:27`, `318`) |
| `SandboxWorker` | `RoomIsKept` | two opens both count the running sandboxes before either is listed (`worker.js:230`; `test/sandbox-worker.test.js:277`) |
| `Egress` | `LeftIsReleased` | a tunnel whose client leaves while its host is looked up is dialled all the same and keeps the host's slot until the site ends it (`egress-proxy.js:28`) |
| `PlayDesk` | `EndedIsWiped` | a session may be ended without a wipe (`play-desk.js:12`, `259`) |
| `JobRunner` | `AnswersAreShown`, `TextsAreShown` | an event is printed once, when it is new: the answer a tool gives later, and the pieces merged into a streamed text later, do not reach the page (`joblines.js:12`, `14`) |
| `ProofRun` | `WordsAreRead` | a reviewer that asks for changes in words that name an approval has approved (`review.js:19`, `118`) |
| `ProofRun` | `BadPageIsTold` | a bad page already shot from its file is dropped when the site for the rendered pages does not start, and the change can be done (`harness/proof.js:237`; `engine/proof.js:8`) |
| `ProofRun` | `AuthorIsKnown` | a reviewer is accepted whatever its family when the author's is not known, as for a harness `HARNESS_FAMILY` does not name (`review.js:37`) |
| `Attachments` | `AttachedStays` | a file taken back between its check and its delete goes although a message has claimed it (`attachments.js:208`) |
| `Knowledge` | `CapturedOnce` | an ending captured on two days adds two rows, as a command's fact names its day (`run-tasks.js:768`, `knowledge.js:13`) |
| `Skills` | `HistoryNamesAudience` | an edit that read the old audience writes a newer version under it (`skills.js:206`) |
| `RunTokens` | `BudgetAlwaysHolds` | a lost submit answer, a missing trace or an unread counter gives the next attempt money that was spent |
| `Fleet` | `UsableIsChosen` | another machine's full window hides a machine with room (`fleet.js:192`) |
| `Fleet` | `BrokeIsPassedOver` | a plan window with room hides an empty balance (`fleet.js:194`) |
| `Fleet` | `StaleHidesNothing` | a window that has freed hides a full one of fewer percent on another machine (`fleet.js:56`) |
| `Fleet` | `ReplacesWhatIsHeld` | of two refreshes that overlap, an agent only the first one names stays (`fleet.js:124`) |
| `Placement` | `EveryEndTeaches` | two tasks that end together both write the row they read, and one lesson is lost (`run-tasks.js:188`) |
| `MemoryDesk` | `RefreshesOnce`, `NotChangedIsNotChanged` | the rotated refresh cookie has the path /auth and does not come with a form, so a person with a good one is asked to sign in (`sso.js:184`); a call whose answer was lost was carried out although the page says it was not (`http/memory.js:114`) |
| `StartDesk` | `OneTaskPerKeyAnywhere`, `MachineIsPinned` | a task the person starts has no `via`, and the unique index does not compare NULLs: two requests with one key make two tasks (`tasks-api.js:216`); the web form does not pin the conductor's machine as the API does (`conductor-api.js:118`, `c4.js:557`) |
| `Bench` | `ActiveIsBounded`, `NotSentTwice` | two requests count the active runs before either starts one (`tasks-api.js:260`); two ends of one group both publish |
| `Settings` | `KeptAlways` | two saves that overlap: the later one writes back what it read (`user-settings.js:83`) |
| `Account` | `DeletionGoesThrough` | a deletion is refused for good while another person is a member of a task it shared (`account-data.js:126`, `132`) |
| `Account` | `NothingIsOrphaned` | a row written under a task after its rows were erased stays behind (`account-data.js:18`) |

## Proofs

Every theorem holds for all values of the constants (under the named assumptions of the
modules), so for any number of handlers, attempts, publishers, events, agents, turns, requests,
files and sandboxes. `PROJECT.json` lists them. The parts of `MCGuards` and of `MCSite` share no
state, so a theorem there is about the component's own specification (`Att!Spec`, `P!Spec`, ...)
and is about every behaviour of the composition in which that part moves; what it takes of
the constants are the assumptions `MCGuards` and `MCSite` name (`FleetAssumption`: what a
machine can report; `FilesAssumption`: nobody is no message; ...), each with its reason.

**One task (`RunTasksProofs`).** `IInv` is `TypeOK`, the row's and the applied events'
consistency, `RowsJobIsAnAttempts`, `OneFollowUpPerEnding`, and, for each handler, `Relies`: what
its next steps take for granted (the attempt it works for exists and is the one it created; a
document it applies is of a job an attempt is bound to; ...). The last is what makes the
invariant inductive: without it a handler could bind an attempt it never made. `Invariance`
proves it action by action; most actions change one attempt or one handler, which the lemmas
about quiet steps reduce to that one. `FenceHolds`, `RowIsBound`, `AppliedOnce`,
`TypeCorrect` follow; `Forwards` and `StopFinal` are action properties shown from it.

**The outbox (`OutboxProofs`).** `Counted` relates attempts, the attempts read by a publisher and
the failed sends; `GivenUpLate` follows although two publishers may hold a row. `LeaseProtects`
is about any batch, timeout and lease, those of the code too (20 POSTs of 15 seconds under two
minutes, so from the ninth row on a publisher may be late): `LeaseOK` says that a row in the
hands of a publisher that is not late carries that publisher's claim, no older than the time it has
held it, and `Alone` that it is in no other hands. A late publisher's failure clears a claim that is
no longer its own (the UPDATE does not ask whose it is); the row is then late, so the theorem
covers it.

**The conductor (`ConductorProofs`).** `IInv` is `TypeOK`, `TurnsInOrder`, what a handler inside
startNext and onTurnEnd relies on, and that only started turns have jobs. `OneTurnAtATime` is the
theorem behind "two presses start one turn and not two". `ResumesOwn` needs more (`RInv`): every
session that is kept anywhere, in a message, a job, the row or the attempt, was left by a job that was submitted,
a message and the job that runs it name one agent, and no two handlers start one turn.
Its hypothesis is `"choose" \notin Faults`: when the failover's choice fails, the turn
resumes whichever session the attempt holds, and the property is violated (above). Crashes,
lost answers and stops are in.

**A job (`AttemptProofs`).** `Inv` adds to the properties: an attempt is left before one
starts; a result that is ok was earned by the last agent and the run is over; nothing of the
proof's is in the index, a commit or the branch; the files measured stay in the index until they
are committed and then in the commit that is pushed. `OneAgentAtATime` carries the rest: because
no agent is at work after the run, nothing the result rests on can change under the job.

**What the engine decides (`AttemptProofs`).** Attempts may come at any distance. Within a minute
annotate takes an earlier attempt for what ended a later one, so the chain need not end at the
last attempt (`DoneMeansFinished`). What holds is that it ends in `Tail60`, the attempts that no gap of
a minute separates from the last: `LaterWindow` reaches back 60 seconds from each, so a link
leads from that set into it, and annotate's second pass keeps what it has there (`SettlesOne`,
`SettlesAll`, by a least counterexample). So the chain ends there (`ChainEnds`), which is
`DecidesNear`, and a task is done on such an attempt only (`DoneIsNear`). `ChainSettles` counts
what each rule of the engine may still add, whichever of these attempts it reads: beyond the
fourth attempt each is a continue or one wrap-up after it, and there are `MaxContinues` continues
at most (`ChainBound`). `MoneyStops` comes from the same invariant. `DecidesNear` and `MoneyStops`
are in no run.

**The session (`SessionLogProofs`).** `ReaderMissesNothing` has no hypothesis. Several recorders write one
stream, each a whole event per statement, and one may leave in the middle of a line; what
makes the reader's `seq > last` right is that the events whose rows are there are always a beginning
of the stream, whichever recorder wrote them (`Follows`), and every recorder stands behind
that beginning. So a row that is new comes after every row there is, and nothing a reader
passed by is filled in later (`FollowInv`).

`StoredSessionIsAsPromised` is the refinement: `Spec => ImplementsView`. The back-fill inserts
beside rows that others wrote, so its invariant `ViewInv` is about the shape of a table in which
there is still room: a harness's line is at one of the first `Used[j]` seqs of its event or, a
fragment, at the last; a marker is at its event's first; and what the back-fill read is
continued by what is stored when it inserts. From it, the places `Backfilled` picks are free
in what was read and all different, so a line of the result that is left out was displaced by a row
written since the read, and no two by the same one (`Displaced`); each step of the store is a
step of `SessionView` or none. Once a task's session is complete its follow-ups' results are not
reconciled, so the shape is needed, and kept, only while it is `Open`.

**What guards an agent (`GuardsProofs`).**
* `AllowedCallsWereAllowed`: two calls that look alike may share a row, so the invariant is that a
  waiting call's row shows its line (`WaitsOnItsRow`) and only the owner allows (`OwnerAllows`).
* `DeskStaysOver`: an action property of the desk's functions in any order.
* `HealthIsFresh`: no check-in under way is from the future or newer than the newest self-test
  that passed unless it reports a failure, and the row is the newest one heard (`SentIsPast`,
  `RowIsNewest`); the two limits then add up.
* `SlotsStayCounted`: a connection has let go exactly when it is over (`ReleasedAtItsEnd`), so the
  counter of a host is the cardinality of those that have not. `SpentStaysSpent` is an action
  property from the same invariant. The head of a request or of an answer is written uncounted,
  also after the budget is spent (`egress-proxy.js:319`, `251`, `275`); `LateHeadsStayFew` bounds them:
  a connection that may pass one holds its slot since before, and no connection gets one any
  more, so the late ones and those that still may be are `PerHost` at most.
* `WipedIsGone`: a wipe that goes on past its wait has killed the processes, or one outlived it:
  reported if the pid namespace was known, and still in its cgroup, which cannot be removed; a removal that fails
  leaves the directory with its error in the log; and a worker that is up has swept the
  directories its predecessors left (`BoxOK`, `DeadIsSwept`).

**What a person keeps (`SiteProofs`).**
* `MessagesHaveAllTheirFiles`: while a send links, each of its files is locked by it or still to
  be claimed (`AttHolds`), and a locked row was on no message (`AttFree`).
* `KnowledgeHasNoTextTwice`: a row's key is that of the text it has now (`KnowRow`); an edit that
  kept the old key would break it.
* `SkillSavesAreKept`: the version a request read is still there when it writes the next
  (`SkillTabOK`).
* `SettingsAreKept`, for saves that do not overlap (no run checks `KeptUnlessOverlapped`, as the hazard is the overlap): what the row shows of every save, and what each reader's copy shows of the
  saves written before it read (`SetInv`'s last two parts; the copy is written back whole).
* `MemoryAnswersAreTrue`: an answer and the number of times the service carried the call out
  (`MemAgrees`): the one call that is tried again is one that was refused.
* `ErasedStaysGone`: how far the deletion's seven statements have come (`AccTaken`), and that until it
  commits no row is without its task (`AccHang`), so the ids it reads name all it has to take.

**The work a person starts (`WorkProofs`).**
* `OneTaskForAKey`: the unique index (`DeskUnique`) and that an answered request has a task of
  its own door and key (`DeskHolds`).
* `TaughtAtMostOnce`: a task is claimed by one handler (`PlClaims`), and the counts, in the row and in
  every copy about to be written over it, are those of claims that are over (`PlBounded`).
* `PinnedTurnsFindRoom`: whatever the readings, the choice over the chain is one with room if
  there is one (`FleetChoice`).
* `SentRunsAreWhole`: a publisher that posts holds its whole group, and none of it will run
  again (`BenchWhole`, `BenchSettled`).
* `ProofsStandOnWhatWasSeen`: each item agrees with what the run saw (`PfTests`, `PfPages`,
  `PfReview`); of the pages, that a width that was shot without a bad page is one whose site
  started or was not needed. A reviewer is taken at its word only in the form it was asked for:
  what it says in prose is read by any word of approval (`WordsAreRead`). `NoSiteIsLeft`: only the width at hand has a
  site that was not told to stop (`PfSite`).
* `BudgetIsKept`: an attempt that was handed out is seen by the next reading of the money, or a
  fault pays for it. `TokBooks` keeps what the seen attempts spent up to each attempt (`s`), how
  many the faults pay for (`b`), and what the unread counters hide (`w`); `TokSpentIs` shows by a
  least counterexample that the model's recursive sum is the sum these books bound.
* `EachPieceOnce`: of the blocks that were said every piece has one place at most (`RunOnce`) and
  one at least, unless the feed leaves the block out (`RunAll`); an event that is partial is the
  last of its kind (`RunLatest`) and holds pieces of the next block only (`RunWordsOK`), so the
  whole block that takes its place repeats nothing; and the last text said is the last whole text
  event (`RunEnds`), so the result does not say it again.

Some of what is proved is in no run, because the theorem says more: `RowsJobIsAnAttempts`,
`EventAppliedOnce` and `NeverBackwards` (RunTasks), `PublishedArrived` and `DeadTriedEnough`
(Outbox), the type invariants.

### Only model-checked

* Everything temporal under fairness (`DecisionIsMade`, `EverySettles`, `MessagesLand`, `JobEnds`,
  `RequestsAreAnswered`, `CallsAreAnswered`): liveness is out of this prover's reach.
* `AttemptFollowsItsJob`, for one handler; with two it does not hold (above).
* What the engine's choice of an agent computes (`NextRunner`, `NextAgent`, both `SelectSeq`): the
  decision's theorems leave the runner open.

## Left out

* Benchmarks: continueTask on a benchmark's task (`run-tasks.js:897`). It puts the row back to queued and
  then fails, as followUpArgs refuses the `bench://` repository (`harness/job.js:220`), so the task ends
  again without having run.
* Tasks: Run's `queued` event and the `placed` state of an event (they rank below `running`
  and change nothing the properties read), the owner's choice of another agent in continue
  (`TaskChain` has it).
* Outbox: what a publisher does between two POSTs takes no time in the runs (`MayDawdle`; the
  theorems hold either way); the 5-second pause is not counted; a batch comes back in no particular order (`UPDATE ... RETURNING` promises none).
* Conductor: announcements, the catch-up text of a switch, agents an older runner substitutes,
  the ten-minute timer of refresh (it may run at any time).
* Job: attachments, the MCP configuration and the prompt (inputs of the agent), the session
  log and the pictures in the result, the proof's items (`ProofRun` has them; only what its
  tests write in the clone matters here), a patch or log cut to fit, the turn limit of an API agent (it is one of
  its failures). Nobody cancels a run from inside the job.
* Proof: which tests a name finds and how wide a page is are inputs. A site is sent SIGTERM and
  not waited for, so one that ignores it stays (`signalled`); a start command that is not there
  ends the job's process, and what the job had up then is not looked at.
* Sandbox: the numbers of DevTools calls (two clients count from one, so an answer may reach the wrong
  client's call of the same number); the confinement itself (bubblewrap's arguments, the BPF program) and the proxy's
  address rules are inputs; `--die-with-parent` is the one flag the worker's model uses.
* Site: rendering, ranking, recall and search are reads; the half-life of a placement's weights;
  the scores of the SDK's planner; the bytes of an attachment; the export of an account.

### Not modelled

Sandbox confinement, ship tracking and session reports, agent streams and
Co-pilot, git hosts, configuration and catalogs, and the command line: they are reads of other
services, clients of them, or values, and keep no state a property could be about. Each is in
`PROJECT.json` with its reason.

## Plan

1. A composition of `HarnessJob`'s result with the job of `RunTasks` (what a task may learn from
   it), and of `RunTokens` with the attempts of `RunTasks`.
2. `RequestsAreAnswered` with the message numbers of two DevTools clients, to tell which of a
   replaced client's calls another one's answer may settle.
