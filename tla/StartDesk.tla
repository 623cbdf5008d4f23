------------------------------ MODULE StartDesk ------------------------------
(***************************************************************************)
(* The doors a person's tasks come in by: POST /api/v1/tasks (a service's  *)
(* token, the person's own token or their session: tasks-api.js), the chat *)
(* (http/chat.js), /run (http/run.js) and the two ways to start a          *)
(* conductor (http/conductor-api.js, http/c4.js).  Each is a handler of    *)
(* several awaited statements, so the requests of one person interleave;   *)
(* an answer may be lost and the client then sends the same request again. *)
(* What happens to a task after its first submit is RunTasks'.             *)
(***************************************************************************)
EXTENDS Naturals, Sequences, FiniteSets

CONSTANTS
    Requests,     \* the requests of one person
    Budget,       \* codes.task.start: requests one person may make in a minute (6)
    MaxTargets,   \* OpenVibe projects one chat message may name
    MaxTasks,     \* bound: tasks the requests make
    MaxFaults     \* bound: answers lost, statements that throw, restarts of Codes

VARIABLES
    tasks,      \* run_tasks of the person, in the order of their insert
    request,    \* where each request is, what it asks and the task it was answered with
    spent,      \* requests counted against the person in this minute
    projects,   \* whether the Network lists a project of the person
    mishaps

dvars == <<tasks, request, spent, projects, mishaps>>

Api == {"service", "token", "session"}
Conductors == {"conductor", "form"}
Pages == {"chat", "run", "form"}
Doors == Api \cup Pages \cup Conductors
Limited == Api \cup {"conductor"}

(* guard and guardAny: who the request is from.  The session's via is NULL. *)
Via(door) ==
    CASE door = "service" -> "service"
      [] door = "token" -> "user"
      [] OTHER -> "NULL"

Idle == [pc |-> "idle", door |-> "run", key |-> "none", machine |-> "none", pin |-> "none",
         left |-> 1, task |-> 0]

(* A person who is new, or who has run a task before, under a key of its own.*)
Earlier == [via |-> "NULL", key |-> "old", state |-> "stopped", machine |-> "none", pin |-> "none"]

InitDesk ==
    /\ tasks \in {<<>>, <<Earlier>>}
    /\ request = [r \in Requests |-> Idle]
    /\ spent = 0
    /\ projects = "none"
    /\ mishaps = 0

At(r, pc) == request[r].pc = pc
Goes(r, pc) == request' = [request EXCEPT ![r].pc = pc]
Answered(r, i) == request' = [request EXCEPT ![r].pc = "answered", ![r].task = i]
Mishap == mishaps < MaxFaults /\ mishaps' = mishaps + 1

(* What the client sends: a key only at the API's door, several targets     *)
(* only in the chat, a machine only for a conductor.                        *)
Send(r) ==
    /\ At(r, "idle")
    /\ \E door \in Doors, key \in {"none", "k"}, machine \in {"none", "m"}, n \in 1..MaxTargets :
        /\ key = "k" => door \in Api
        /\ machine = "m" => door \in Conductors
        /\ n > 1 => door = "chat"
        /\ request' = [request EXCEPT ![r] = [Idle EXCEPT !.pc = "sent", !.door = door, !.key = key,
                                              !.machine = machine, !.left = n]]
    /\ UNCHANGED <<tasks, spent, projects, mishaps>>

(* guardAny, signedIn and sameOrigin: nobody, or another site's form, is    *)
(* refused before it is counted.                                            *)
TurnAway(r) ==
    /\ At(r, "sent")
    /\ Goes(r, "refused")
    /\ UNCHANGED <<tasks, spent, projects, mishaps>>

(* actorLimits.budget: every request of the person counts, the service's    *)
(* too, before its body is read; the pages are not limited by it.           *)
Counted(door) == IF door \in Limited THEN 1 ELSE 0

Admit(r) ==
    /\ At(r, "sent")
    /\ spent + Counted(request[r].door) <= Budget
    /\ spent' = spent + Counted(request[r].door)
    /\ Goes(r, IF request[r].key = "none" THEN "machine" ELSE "lookup")
    /\ UNCHANGED <<tasks, projects, mishaps>>

TooMany(r) ==
    /\ At(r, "sent")
    /\ request[r].door \in Limited
    /\ spent = Budget
    /\ Goes(r, "refused")
    /\ UNCHANGED <<tasks, spent, projects, mishaps>>

Minute ==
    /\ spent > 0
    /\ spent' = 0
    /\ UNCHANGED <<tasks, request, projects, mishaps>>

(* The body: validate and parseArgs, the agent of the list, the form's      *)
(* fields, the files (Attachments).                                         *)
Invalid(r) ==
    /\ At(r, "lookup") \/ At(r, "machine")
    /\ Goes(r, "refused")
    /\ UNCHANGED <<tasks, spent, projects, mishaps>>

(* byKey: IS NOT DISTINCT FROM finds a NULL via too.                        *)
ByKey(r) == {i \in DOMAIN tasks : tasks[i].via = Via(request[r].door) /\ tasks[i].key = request[r].key}

LookUp(r) ==
    /\ At(r, "lookup")
    /\ \/ ByKey(r) = {} /\ Goes(r, "machine")
       \/ \E i \in ByKey(r) : Answered(r, i)
    /\ UNCHANGED <<tasks, spent, projects, mishaps>>

(* machineProblem and pinFor of the API: the machine is the person's, Bot   *)
(* knows it and it is online, or the request is refused (Invalid).          *)
Pin(r) ==
    /\ At(r, "machine")
    /\ request[r].door = "conductor" /\ request[r].machine = "m"
    /\ request' = [request EXCEPT ![r].pc = "project", ![r].pin = "device"]
    /\ UNCHANGED <<tasks, spent, projects, mishaps>>

(* The form has neither: its machine goes into the row as it came.          *)
NoPin(r) ==
    /\ At(r, "machine")
    /\ request[r].door = "conductor" => request[r].machine = "none"
    /\ Goes(r, "project")
    /\ UNCHANGED <<tasks, spent, projects, mishaps>>

(* The project of an API task, and of a chat if there is one: latestProject.*)
Latest == tasks # <<>>

LatestProject(r) ==
    /\ At(r, "project")
    /\ request[r].door \in Api \/ (request[r].door = "chat" /\ Latest)
    /\ Goes(r, IF Latest THEN "insert" ELSE "refused")
    /\ UNCHANGED <<tasks, spent, projects, mishaps>>

(* POST /run: the form's choice, one of the Network's list.                 *)
ChosenProject(r) ==
    /\ At(r, "project")
    /\ request[r].door = "run"
    /\ Goes(r, IF projects = "some" THEN "insert" ELSE "refused")
    /\ UNCHANGED <<tasks, spent, projects, mishaps>>

(* projectFor, for a conductor and a new person's chat: the Network's first,*)
(* one of its own when it lists none, the latest task's when the Network    *)
(* does not answer.                                                         *)
ProjectFor(r) ==
    /\ At(r, "project")
    /\ request[r].door \in Conductors \/ (request[r].door = "chat" /\ ~Latest)
    /\ \/ Goes(r, IF projects = "some" THEN "insert" ELSE "make")
       \/ Goes(r, IF Latest THEN "insert" ELSE "refused")
    /\ UNCHANGED <<tasks, spent, projects, mishaps>>

Make(r) ==
    /\ At(r, "make")
    /\ projects' = "some"
    /\ Goes(r, "insert")
    /\ UNCHANGED <<tasks, spent, mishaps>>

NotMade(r) ==
    /\ At(r, "make")
    /\ Goes(r, IF Latest THEN "insert" ELSE "refused")
    /\ UNCHANGED <<tasks, spent, projects, mishaps>>

(* POST /run/project: the person makes one by hand.                         *)
MakeProject ==
    /\ projects = "none"
    /\ projects' = "some"
    /\ UNCHANGED <<tasks, request, spent, mishaps>>

(* run_tasks_service_key: unique over (subject, via, idempotency_key) where *)
(* the key is not NULL; a NULL via is distinct from every other.            *)
UniqueNever(r) == TRUE

Unique(r) == request[r].key = "none" \/ Via(request[r].door) = "NULL" \/ ByKey(r) = {}

Row(r) == [via |-> Via(request[r].door), key |-> request[r].key, state |-> "queued",
           machine |-> request[r].machine, pin |-> request[r].pin]

(* tasks.start and conductor.create, first part: the row.                   *)
Insert(r) ==
    /\ At(r, "insert")
    /\ Cardinality({i \in DOMAIN tasks : tasks[i].key # Earlier.key}) < MaxTasks
    /\ Unique(r)
    /\ tasks' = Append(tasks, Row(r))
    /\ request' = [request EXCEPT ![r].pc = "submit", ![r].task = Len(tasks) + 1]
    /\ UNCHANGED <<spent, projects, mishaps>>

(* The insert hits the index: the handler answers with the task that did.   *)
Clash(r) ==
    /\ At(r, "insert")
    /\ ~Unique(r)
    /\ Goes(r, "clash")
    /\ UNCHANGED <<tasks, spent, projects, mishaps>>

AnswerClash(r) ==
    /\ At(r, "clash")
    /\ \E i \in ByKey(r) : Answered(r, i)
    /\ UNCHANGED <<tasks, spent, projects, mishaps>>

(* A chat over several projects starts a task for each and opens one.       *)
Onward(r) ==
    IF request[r].left > 1
    THEN [request EXCEPT ![r].pc = "insert", ![r].left = @ - 1]
    ELSE [request EXCEPT ![r].pc = "answered"]

(* tasks.start, second part: the first job.  A refused submit fails the     *)
(* task, not the request.                                                   *)
Submit(r) ==
    /\ At(r, "submit")
    /\ \E state \in {"placed", "failed"} :
        tasks' = [tasks EXCEPT ![request[r].task].state = state]
    /\ request' = Onward(r)
    /\ UNCHANGED <<spent, projects, mishaps>>

(* A statement throws (500); what an earlier target started stays.          *)
Throw(r) ==
    /\ At(r, "insert") \/ At(r, "submit")
    /\ Mishap
    /\ Goes(r, "lost")
    /\ UNCHANGED <<tasks, spent, projects>>

(* The answer does not reach the client.                                    *)
Lose(r) ==
    /\ At(r, "answered")
    /\ Mishap
    /\ Goes(r, "lost")
    /\ UNCHANGED <<tasks, spent, projects>>

InFlight == {"sent", "lookup", "machine", "project", "make", "insert", "clash", "submit"}

Restart ==
    /\ Mishap
    /\ \E r \in Requests : request[r].pc \in InFlight
    /\ request' = [r \in Requests |-> IF request[r].pc \in InFlight THEN [request[r] EXCEPT !.pc = "lost"] ELSE request[r]]
    /\ UNCHANGED <<tasks, spent, projects>>

(* The same request again: the same door, the same key.                     *)
Resend(r) ==
    /\ At(r, "lost")
    /\ request' = [request EXCEPT ![r].pc = "sent", ![r].pin = "none", ![r].task = 0]
    /\ UNCHANGED <<tasks, spent, projects, mishaps>>

(* `mine`: the person reaches every task of theirs, a service the ones it   *)
(* started.                                                                 *)
Mine(door, i) == door # "service" \/ tasks[i].via = "service"

(* Continue, stop and cancel at the API's doors count as a start does; the  *)
(* task's page does not.                                                    *)
Pays(door) ==
    /\ spent + Counted(door) <= Budget
    /\ spent' = spent + Counted(door)

Continued(i) ==
    /\ tasks[i].state = "failed"
    /\ tasks' = [tasks EXCEPT ![i].state = "placed"]
    /\ UNCHANGED <<request, projects, mishaps>>

Stopped(i) ==
    /\ tasks[i].state = "placed"
    /\ tasks' = [tasks EXCEPT ![i].state = "stopped"]
    /\ UNCHANGED <<request, projects, mishaps>>

Carry(door, i) == Mine(door, i) /\ Pays(door) /\ Continued(i)
Stop(door, i) == Mine(door, i) /\ Pays(door) /\ Stopped(i)

CarryForm(i) == Continued(i) /\ UNCHANGED spent
StopForm(i) == Stopped(i) /\ UNCHANGED spent

NextDesk ==
    \/ \E r \in Requests :
        \/ Send(r) \/ TurnAway(r) \/ Admit(r) \/ TooMany(r) \/ Invalid(r) \/ LookUp(r) \/ Pin(r) \/ NoPin(r)
        \/ LatestProject(r) \/ ChosenProject(r) \/ ProjectFor(r) \/ Make(r) \/ NotMade(r) \/ Insert(r) \/ Clash(r) \/ AnswerClash(r)
        \/ Submit(r) \/ Throw(r) \/ Lose(r) \/ Resend(r)
    \/ \E i \in DOMAIN tasks : \/ \E door \in Api : Carry(door, i) \/ Stop(door, i)
                              \/ CarryForm(i) \/ StopForm(i)
    \/ Minute
    \/ MakeProject
    \/ Restart

Spec == InitDesk /\ [][NextDesk]_dvars

-----------------------------------------------------------------------------

TypeOK ==
    /\ tasks \in Seq([via : {"service", "user", "NULL"}, key : {"none", "k", "old"},
                      state : {"queued", "placed", "failed", "stopped"},
                      machine : {"none", "m"}, pin : {"none", "device"}])
    /\ Len(tasks) <= MaxTasks + 1
    /\ request \in [Requests -> [pc : InFlight \cup {"idle", "answered", "refused", "lost"}, door : Doors,
                                 key : {"none", "k"}, machine : {"none", "m"}, pin : {"none", "device"},
                                 left : 1..MaxTargets, task : 0..(MaxTasks + 1)]]
    /\ spent \in 0..Budget
    /\ projects \in {"none", "some"}
    /\ mishaps \in 0..MaxFaults

(* A key that a service or the person's own token sends names one task:     *)
(* retries and requests side by side, a clash of the index, a restart       *)
(* between the statements of a start, all are answered with the same task,  *)
(* the one that carries the key ("IDEMPOTENCY_KEY makes its retry answer    *)
(* the first task", migrations/0005).                                       *)
OneTaskPerKey ==
    \A r, s \in Requests :
        /\ At(r, "answered") /\ request[r].key = "k" /\ Via(request[r].door) # "NULL"
        /\ At(s, "answered") /\ request[s].key = "k" /\ Via(request[s].door) = Via(request[r].door)
        => /\ request[r].task = request[s].task
           /\ ByKey(r) = {request[r].task}

(* The same of every door ("Two requests with one key at once: the unique   *)
(* index lets one in; the other answers with it.", tasks-api.js).           *)
OneTaskPerKeyAnywhere ==
    \A r, s \in Requests :
        /\ At(r, "answered") /\ request[r].key = "k"
        /\ At(s, "answered") /\ request[s].key = "k" /\ Via(request[s].door) = Via(request[r].door)
        => request[r].task = request[s].task

(* A conductor with a machine is pinned to it ("a conductor must never fall *)
(* back to running wherever Run likes", conductor-api.js pinFor).           *)
MachineIsPinned == \A i \in DOMAIN tasks : tasks[i].machine = "m" => tasks[i].pin = "device"
=============================================================================
