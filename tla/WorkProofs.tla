------------------------------- MODULE WorkProofs ------------------------------
(***************************************************************************)
(* Proofs about the work a person starts: the doors a task comes in by,    *)
(* where it is placed and what placement learns, the agent of a pinned     *)
(* turn, benchmark runs, the proof of a finished attempt, the money of a   *)
(* task and the transcript of its agent.  Each theorem is about its        *)
(* component's own specification (the parts share no state, MCSite), for   *)
(* every value of the constants that MCSite's assumptions allow.           *)
(*                                                                         *)
(* Each part has the same shape: an inductive invariant (...Inv), the step *)
(* of one actor as a predicate (...Moves) with the lemma that such a step  *)
(* keeps the invariant, a lemma per action, and the theorem.               *)
(***************************************************************************)
EXTENDS MCSite, FiniteSetTheorems, WellFoundedInduction, TLAPS

-----------------------------------------------------------------------------

(* A set of natural numbers that is not empty has a least element.           *)
LEMMA LeastNumber ==
    ASSUME NEW S \in SUBSET Nat, S # {} PROVE \E i \in S : \A j \in S : i <= j
<1> DEFINE R == {ss \in Nat \X Nat : ss[1] < ss[2]}
<1>1. OpToRel(<, Nat) = R
    BY DEF OpToRel
<1>2. IsWellFoundedOn(R, Nat)
    BY <1>1, NatLessThanWellFounded
<1>3. \A i, j \in S : j < i => <<j, i>> \in R
    OBVIOUS
<1> HIDE DEF R
<1>4. PICK i \in S : \A j \in S : ~(<<j, i>> \in R)
    BY <1>2, WFMin
<1>5. \A j \in S : ~(j < i)
    BY <1>3, <1>4
<1> QED
    BY <1>5

-----------------------------------------------------------------------------
(* The doors a person's tasks come in by (StartDesk).                        *)

DeskRow ==
    [via : {"service", "user", "NULL"}, key : {"none", "k", "old"},
     state : {"queued", "placed", "failed", "stopped"}, machine : {"none", "m"}, pin : {"none", "device"}]
DeskRequest ==
    [pc : Desk!InFlight \cup {"idle", "answered", "refused", "lost"}, door : Desk!Doors, key : {"none", "k"},
     machine : {"none", "m"}, pin : {"none", "device"}, left : Nat, task : Nat]

(* A request that has a task has one of its own door and key.                *)
DeskHolds(q, T) ==
    q.pc \in {"submit", "answered"} =>
        q.task \in 1..Len(T) /\ T[q.task].via = Desk!Via(q.door) /\ T[q.task].key = q.key

(* run_tasks_service_key.                                                    *)
DeskUnique(T) ==
    \A i, j \in 1..Len(T) :
        T[i].via # "NULL" /\ T[i].key = "k" /\ T[j].via = T[i].via /\ T[j].key = "k" => i = j

DeskInv ==
    /\ tasks \in Seq(DeskRow)
    /\ request \in [Pair -> DeskRequest]
    /\ DeskUnique(tasks)
    /\ \A r \in Pair : DeskHolds(request[r], tasks)

LEMMA DeskVia == \A door \in Desk!Doors : Desk!Via(door) \in {"service", "user", "NULL"}
    BY DEF Desk!Via

LEMMA DeskInitial == Desk!InitDesk => DeskInv
<1> SUFFICES ASSUME Desk!InitDesk PROVE DeskInv
    OBVIOUS
<1>1. Desk!Earlier \in DeskRow /\ Desk!Earlier.key = "old"
    BY DEF Desk!Earlier, DeskRow
<1>2. Desk!Idle \in DeskRequest /\ Desk!Idle.pc = "idle"
    BY DEF Desk!Idle, DeskRequest, Desk!Doors, Desk!Pages
<1>3. tasks \in Seq(DeskRow) /\ DeskUnique(tasks)
  <2>1. CASE tasks = <<>>
      BY <2>1 DEF DeskUnique
  <2>2. CASE tasks = <<Desk!Earlier>>
      BY <1>1, <2>2 DEF DeskUnique
  <2> QED
      BY <2>1, <2>2 DEF Desk!InitDesk
<1>4. DeskHolds(Desk!Idle, tasks)
    BY <1>2 DEF DeskHolds
<1> QED
    BY <1>2, <1>3, <1>4 DEF Desk!InitDesk, DeskInv

(* A request goes on and writes no task.                                     *)
LEMMA DeskStep ==
    ASSUME DeskInv, NEW r \in Pair, NEW q \in DeskRequest, DeskHolds(q, tasks),
           request' = [request EXCEPT ![r] = q], UNCHANGED tasks
    PROVE  DeskInv'
    BY DEF DeskInv

LEMMA DeskGoes ==
    ASSUME DeskInv, NEW r \in Pair, NEW pc \in (Desk!InFlight \cup {"refused", "lost"}) \ {"submit", "answered"},
           Desk!Goes(r, pc), UNCHANGED tasks
    PROVE  DeskInv'
<1> DEFINE q == [request[r] EXCEPT !.pc = pc]
<1>1. request[r] \in DeskRequest
    BY DEF DeskInv
<1>2. q \in DeskRequest /\ q.pc = pc
    BY <1>1 DEF DeskRequest
<1>3. DeskHolds(q, tasks)
    BY <1>2 DEF DeskHolds
<1>4. request' = [request EXCEPT ![r] = q]
    BY DEF Desk!Goes
<1> HIDE DEF q
<1> QED
    BY <1>2, <1>3, <1>4, DeskStep

(* An answer with a task that has the request's key.                         *)
LEMMA DeskAnswered ==
    ASSUME DeskInv, NEW r \in Pair, NEW i \in Desk!ByKey(r), Desk!Answered(r, i), UNCHANGED tasks
    PROVE  DeskInv'
<1> DEFINE b == [request[r] EXCEPT !.pc = "answered"]
           q == [b EXCEPT !.task = i]
<1>1. request[r] \in DeskRequest
    BY DEF DeskInv
<1>2. i \in 1..Len(tasks) /\ i \in Nat /\ tasks[i].via = Desk!Via(request[r].door) /\ tasks[i].key = request[r].key
    BY DEF Desk!ByKey, DeskInv
<1>3. b \in DeskRequest /\ b.pc = "answered" /\ b.door = request[r].door /\ b.key = request[r].key
    BY <1>1 DEF DeskRequest
<1>4. request' = [request EXCEPT ![r] = q]
    BY DEF Desk!Answered
<1> HIDE DEF b
<1>5. q \in DeskRequest /\ q.task = i /\ q.door = request[r].door /\ q.key = request[r].key
    BY <1>2, <1>3 DEF DeskRequest
<1> HIDE DEF q
<1>6. DeskHolds(q, tasks)
    BY <1>2, <1>5 DEF DeskHolds
<1> QED
    BY <1>4, <1>5, <1>6, DeskStep

(* A task's state changes; its door and its key do not.                      *)
LEMMA DeskStates ==
    ASSUME DeskInv, NEW i \in 1..Len(tasks), NEW st \in {"queued", "placed", "failed", "stopped"},
           tasks' = [tasks EXCEPT ![i].state = st]
    PROVE  /\ tasks' \in Seq(DeskRow) /\ DeskUnique(tasks')
           /\ \A q \in DeskRequest : DeskHolds(q, tasks) => DeskHolds(q, tasks')
<1> DEFINE row == [tasks[i] EXCEPT !.state = st]
<1>1. tasks[i] \in DeskRow
    BY DEF DeskInv
<1>2. row \in DeskRow /\ row.via = tasks[i].via /\ row.key = tasks[i].key
    BY <1>1 DEF DeskRow
<1> HIDE DEF row
<1>3. tasks' = [tasks EXCEPT ![i] = row]
    BY DEF row
<1>4. tasks' \in Seq(DeskRow) /\ Len(tasks') = Len(tasks)
    BY <1>2, <1>3 DEF DeskInv
<1>5. \A j \in 1..Len(tasks) : tasks'[j].via = tasks[j].via /\ tasks'[j].key = tasks[j].key
    BY <1>2, <1>3 DEF DeskInv
<1>6. DeskUnique(tasks')
    BY <1>4, <1>5 DEF DeskInv, DeskUnique
<1>7. ASSUME NEW q \in DeskRequest, DeskHolds(q, tasks) PROVE DeskHolds(q, tasks')
    BY <1>4, <1>5, <1>7 DEF DeskHolds
<1> QED
    BY <1>4, <1>6, <1>7

LEMMA DeskSend ==
    ASSUME DeskInv, NEW r \in Pair, Desk!Send(r) PROVE DeskInv'
<1>1. PICK door \in Desk!Doors, key \in {"none", "k"}, machine \in {"none", "m"}, n \in 1..MaxTargets :
        request' = [request EXCEPT ![r] = [Desk!Idle EXCEPT !.pc = "sent", !.door = door, !.key = key,
                                           !.machine = machine, !.left = n]]
    BY DEF Desk!Send
<1> DEFINE b == [Desk!Idle EXCEPT !.pc = "sent"]
           c == [b EXCEPT !.door = door]
           d == [c EXCEPT !.key = key]
           e == [d EXCEPT !.machine = machine]
           q == [e EXCEPT !.left = n]
<1>2. b \in DeskRequest /\ b.pc = "sent"
    BY DEF Desk!Idle, DeskRequest, Desk!InFlight, Desk!Doors, Desk!Pages
<1>3. request' = [request EXCEPT ![r] = q]
    BY <1>1
<1> HIDE DEF b
<1>4. c \in DeskRequest /\ c.pc = "sent"
    BY <1>2 DEF DeskRequest
<1> HIDE DEF c
<1>5. d \in DeskRequest /\ d.pc = "sent"
    BY <1>4 DEF DeskRequest
<1> HIDE DEF d
<1>6. e \in DeskRequest /\ e.pc = "sent"
    BY <1>5 DEF DeskRequest
<1> HIDE DEF e
<1>7. q \in DeskRequest /\ q.pc = "sent"
    BY <1>6 DEF DeskRequest
<1> HIDE DEF q
<1>8. DeskHolds(q, tasks)
    BY <1>7 DEF DeskHolds
<1> QED
    BY <1>3, <1>7, <1>8, DeskStep DEF Desk!Send

LEMMA DeskPin ==
    ASSUME DeskInv, NEW r \in Pair, Desk!Pin(r) PROVE DeskInv'
<1> DEFINE b == [request[r] EXCEPT !.pc = "project"]
           q == [b EXCEPT !.pin = "device"]
<1>1. request[r] \in DeskRequest
    BY DEF DeskInv
<1>2. b \in DeskRequest /\ b.pc = "project"
    BY <1>1 DEF DeskRequest, Desk!InFlight
<1>3. request' = [request EXCEPT ![r] = q]
    BY DEF Desk!Pin
<1> HIDE DEF b
<1>4. q \in DeskRequest /\ q.pc = "project"
    BY <1>2 DEF DeskRequest
<1> HIDE DEF q
<1>5. DeskHolds(q, tasks)
    BY <1>4 DEF DeskHolds
<1> QED
    BY <1>3, <1>4, <1>5, DeskStep DEF Desk!Pin

LEMMA DeskResend ==
    ASSUME DeskInv, NEW r \in Pair, Desk!Resend(r) PROVE DeskInv'
<1> DEFINE b == [request[r] EXCEPT !.pc = "sent"]
           c == [b EXCEPT !.pin = "none"]
           q == [c EXCEPT !.task = 0]
<1>1. request[r] \in DeskRequest
    BY DEF DeskInv
<1>2. b \in DeskRequest /\ b.pc = "sent"
    BY <1>1 DEF DeskRequest, Desk!InFlight
<1>3. request' = [request EXCEPT ![r] = q]
    BY DEF Desk!Resend
<1> HIDE DEF b
<1>4. c \in DeskRequest /\ c.pc = "sent"
    BY <1>2 DEF DeskRequest
<1> HIDE DEF c
<1>5. q \in DeskRequest /\ q.pc = "sent"
    BY <1>4 DEF DeskRequest
<1> HIDE DEF q
<1>6. DeskHolds(q, tasks)
    BY <1>5 DEF DeskHolds
<1> QED
    BY <1>3, <1>5, <1>6, DeskStep DEF Desk!Resend

(* The insert: the index let the row in.                                     *)
LEMMA DeskInsert ==
    ASSUME DeskInv, NEW r \in Pair, Desk!Insert(r) PROVE DeskInv'
<1> DEFINE row == Desk!Row(r)
           n == Len(tasks) + 1
           b == [request[r] EXCEPT !.pc = "submit"]
           q == [b EXCEPT !.task = n]
<1>1. request[r] \in DeskRequest /\ tasks \in Seq(DeskRow) /\ Len(tasks) \in Nat
    BY DEF DeskInv
<1>2. row \in DeskRow /\ row.via = Desk!Via(request[r].door) /\ row.key = request[r].key
  <2>1. request[r].door \in Desk!Doors /\ request[r].key \in {"none", "k"} /\ request[r].machine \in {"none", "m"}
        /\ request[r].pin \in {"none", "device"}
      BY <1>1 DEF DeskRequest
  <2>2. Desk!Via(request[r].door) \in {"service", "user", "NULL"}
      BY <2>1, DeskVia
  <2> QED
      BY <2>1, <2>2 DEF Desk!Row, DeskRow
<1>3. tasks' = Append(tasks, row) /\ request' = [request EXCEPT ![r] = q]
    BY DEF Desk!Insert
<1>4. row.via = "NULL" \/ row.key # "k" \/ \A i \in 1..Len(tasks) : ~(tasks[i].via = row.via /\ tasks[i].key = row.key)
  <2>1. request[r].key = "none" \/ Desk!Via(request[r].door) = "NULL" \/ Desk!ByKey(r) = {}
      BY DEF Desk!Insert, Desk!Unique
  <2>2. DOMAIN tasks = 1..Len(tasks)
      BY <1>1
  <2> QED
      BY <1>2, <2>1, <2>2 DEF Desk!ByKey
<1> HIDE DEF row
<1>5. /\ tasks' \in Seq(DeskRow) /\ Len(tasks') = n /\ tasks'[n] = row
      /\ \A i \in 1..Len(tasks) : tasks'[i] = tasks[i]
    BY <1>1, <1>2, <1>3
<1>6. DeskUnique(tasks')
  <2> SUFFICES ASSUME NEW i \in 1..n, NEW j \in 1..n,
                      tasks'[i].via # "NULL", tasks'[i].key = "k", tasks'[j].via = tasks'[i].via, tasks'[j].key = "k"
               PROVE  i = j
      BY <1>5 DEF DeskUnique
  <2>1. CASE i \in 1..Len(tasks) /\ j \in 1..Len(tasks)
      BY <1>5, <2>1 DEF DeskInv, DeskUnique
  <2>2. CASE i = n /\ j \in 1..Len(tasks)
      BY <1>4, <1>5, <2>2
  <2>3. CASE j = n /\ i \in 1..Len(tasks)
      BY <1>4, <1>5, <2>3
  <2> QED
      BY <1>1, <2>1, <2>2, <2>3
<1>7. b \in DeskRequest /\ b.pc = "submit" /\ b.door = request[r].door /\ b.key = request[r].key
    BY <1>1 DEF DeskRequest, Desk!InFlight
<1> HIDE DEF b
<1>8. q \in DeskRequest /\ q.task = n /\ q.door = request[r].door /\ q.key = request[r].key
    BY <1>1, <1>7 DEF DeskRequest
<1> HIDE DEF q
<1>9. DeskHolds(q, tasks')
    BY <1>1, <1>2, <1>5, <1>8 DEF DeskHolds
<1>10. ASSUME NEW s \in Pair PROVE DeskHolds(request'[s], tasks')
  <2>1. CASE s = r
      BY <1>3, <1>9, <2>1 DEF DeskInv
  <2>2. CASE s # r
      BY <1>1, <1>3, <1>5, <2>2 DEF DeskInv, DeskHolds
  <2> QED
      BY <2>1, <2>2
<1>11. request' \in [Pair -> DeskRequest]
    BY <1>3, <1>8 DEF DeskInv
<1> QED
    BY <1>5, <1>6, <1>10, <1>11 DEF DeskInv

LEMMA DeskSubmit ==
    ASSUME DeskInv, NEW r \in Pair, Desk!Submit(r) PROVE DeskInv'
<1> DEFINE i == request[r].task
<1>1. request[r] \in DeskRequest /\ request[r].pc = "submit" /\ DeskHolds(request[r], tasks)
    BY DEF DeskInv, Desk!Submit, Desk!At
<1>2. i \in 1..Len(tasks)
    BY <1>1 DEF DeskHolds
<1>3. PICK st \in {"placed", "failed"} : tasks' = [tasks EXCEPT ![i].state = st]
    BY DEF Desk!Submit
<1>4. /\ tasks' \in Seq(DeskRow) /\ DeskUnique(tasks')
      /\ \A q \in DeskRequest : DeskHolds(q, tasks) => DeskHolds(q, tasks')
    BY <1>2, <1>3, DeskStates
<1>5. PICK q \in DeskRequest : request' = [request EXCEPT ![r] = q] /\ DeskHolds(q, tasks')
  <2>1. CASE request[r].left > 1
    <3> DEFINE b == [request[r] EXCEPT !.pc = "insert"]
               q == [b EXCEPT !.left = request[r].left - 1]
    <3>1. b \in DeskRequest /\ b.pc = "insert" /\ b.left = request[r].left
        BY <1>1 DEF DeskRequest, Desk!InFlight
    <3>2. request' = [request EXCEPT ![r] = q]
        BY <2>1 DEF Desk!Submit, Desk!Onward
    <3> HIDE DEF b
    <3>3. request[r].left - 1 \in Nat
        BY <1>1, <2>1, <3>1 DEF DeskRequest
    <3>4. q \in DeskRequest /\ q.pc = "insert"
        BY <3>1, <3>3 DEF DeskRequest
    <3> HIDE DEF q
    <3> QED
        BY <3>2, <3>4 DEF DeskHolds
  <2>2. CASE ~(request[r].left > 1)
    <3> DEFINE q == [request[r] EXCEPT !.pc = "answered"]
    <3>1. q \in DeskRequest /\ q.pc = "answered" /\ q.door = request[r].door /\ q.key = request[r].key /\ q.task = i
        BY <1>1 DEF DeskRequest
    <3>2. request' = [request EXCEPT ![r] = q]
        BY <2>2 DEF Desk!Submit, Desk!Onward
    <3> HIDE DEF q
    <3>3. DeskHolds(q, tasks)
        BY <1>1, <3>1 DEF DeskHolds
    <3> QED
        BY <1>4, <3>1, <3>2, <3>3
  <2> QED
      BY <2>1, <2>2
<1>6. ASSUME NEW s \in Pair PROVE DeskHolds(request'[s], tasks')
  <2>1. CASE s = r
      BY <1>5, <2>1 DEF DeskInv
  <2>2. CASE s # r
      BY <1>4, <1>5, <2>2 DEF DeskInv
  <2> QED
      BY <2>1, <2>2
<1> QED
    BY <1>4, <1>5, <1>6 DEF DeskInv

LEMMA DeskRestart == ASSUME DeskInv, Desk!Restart PROVE DeskInv'
<1> DEFINE to(r) == IF request[r].pc \in Desk!InFlight THEN [request[r] EXCEPT !.pc = "lost"] ELSE request[r]
<1>1. request' = [r \in Pair |-> to(r)] /\ UNCHANGED tasks
    BY DEF Desk!Restart
<1>2. ASSUME NEW r \in Pair PROVE to(r) \in DeskRequest /\ DeskHolds(to(r), tasks)
  <2>1. request[r] \in DeskRequest /\ DeskHolds(request[r], tasks)
      BY DEF DeskInv
  <2>2. [request[r] EXCEPT !.pc = "lost"] \in DeskRequest /\ [request[r] EXCEPT !.pc = "lost"].pc = "lost"
      BY <2>1 DEF DeskRequest
  <2>3. DeskHolds([request[r] EXCEPT !.pc = "lost"], tasks)
      BY <2>2 DEF DeskHolds
  <2> QED
      BY <2>1, <2>2, <2>3
<1> HIDE DEF to
<1> QED
    BY <1>1, <1>2 DEF DeskInv

LEMMA DeskNext == DeskInv /\ [Desk!NextDesk]_Desk!dvars => DeskInv'
<1> SUFFICES ASSUME DeskInv, [Desk!NextDesk]_Desk!dvars PROVE DeskInv'
    OBVIOUS
<1>pc. {"refused", "lookup", "machine", "project", "insert", "make", "clash", "lost"}
          \subseteq (Desk!InFlight \cup {"refused", "lost"}) \ {"submit", "answered"}
    BY DEF Desk!InFlight
<1>1. ASSUME NEW r \in Pair,
             \/ Desk!TurnAway(r) \/ Desk!Admit(r) \/ Desk!TooMany(r) \/ Desk!Invalid(r) \/ Desk!NoPin(r)
             \/ Desk!LatestProject(r) \/ Desk!ChosenProject(r) \/ Desk!ProjectFor(r) \/ Desk!Make(r)
             \/ Desk!NotMade(r) \/ Desk!Clash(r) \/ Desk!Throw(r) \/ Desk!Lose(r)
      PROVE  DeskInv'
  <2>1. UNCHANGED tasks /\ \E pc \in {"refused", "lookup", "machine", "project", "insert", "make", "clash", "lost"} :
                              Desk!Goes(r, pc)
      BY <1>1 DEF Desk!TurnAway, Desk!Admit, Desk!TooMany, Desk!Invalid, Desk!NoPin, Desk!LatestProject,
                  Desk!ChosenProject, Desk!ProjectFor, Desk!Make, Desk!NotMade, Desk!Clash, Desk!Throw, Desk!Lose
  <2> QED
      BY <1>pc, <2>1, DeskGoes
<1>2. ASSUME NEW r \in Pair, Desk!LookUp(r) \/ Desk!AnswerClash(r) PROVE DeskInv'
    BY <1>2, <1>pc, DeskGoes, DeskAnswered DEF Desk!LookUp, Desk!AnswerClash
<1>3. ASSUME NEW i \in DOMAIN tasks, Desk!Continued(i) \/ Desk!Stopped(i) PROVE DeskInv'
  <2>1. i \in 1..Len(tasks)
      BY DEF DeskInv
  <2>2. PICK st \in {"queued", "placed", "failed", "stopped"} : tasks' = [tasks EXCEPT ![i].state = st]
      BY <1>3 DEF Desk!Continued, Desk!Stopped
  <2>3. UNCHANGED request
      BY <1>3 DEF Desk!Continued, Desk!Stopped
  <2> QED
      BY <2>1, <2>2, <2>3, DeskStates DEF DeskInv
<1>4. CASE Desk!Minute \/ Desk!MakeProject \/ UNCHANGED Desk!dvars
    BY <1>4 DEF Desk!Minute, Desk!MakeProject, Desk!dvars, DeskInv
<1> QED
    BY <1>1, <1>2, <1>3, <1>4, DeskSend, DeskPin, DeskResend, DeskInsert, DeskSubmit, DeskRestart
    DEF Desk!NextDesk, Desk!Carry, Desk!Stop, Desk!CarryForm, Desk!StopForm

(* A key that a service or the person's token sends names one task, and      *)
(* every answer under it is that task: for any number of requests, resends,  *)
(* lost answers and restarts between the statements of a start (tasks-api.js *)
(* byKey, the unique index of migration 0005).                               *)
THEOREM OneTaskForAKey == Desk!Spec => []OneTaskPerKey
<1>1. DeskInv => OneTaskPerKey
  <2> SUFFICES ASSUME DeskInv, NEW r \in Pair, NEW s \in Pair,
                      Desk!At(r, "answered"), request[r].key = "k", Desk!Via(request[r].door) # "NULL",
                      Desk!At(s, "answered"), request[s].key = "k",
                      Desk!Via(request[s].door) = Desk!Via(request[r].door)
               PROVE  request[r].task = request[s].task /\ Desk!ByKey(r) = {request[r].task}
      BY DEF OneTaskPerKey, Desk!OneTaskPerKey
  <2>1. DeskHolds(request[r], tasks) /\ DeskHolds(request[s], tasks) /\ DeskUnique(tasks) /\ DOMAIN tasks = 1..Len(tasks)
      BY DEF DeskInv
  <2>2. request[r].task = request[s].task
      BY <2>1 DEF DeskHolds, DeskUnique, Desk!At
  <2>3. ASSUME NEW i \in Desk!ByKey(r) PROVE i = request[r].task
      BY <2>1, <2>3 DEF DeskHolds, DeskUnique, Desk!At, Desk!ByKey
  <2>4. request[r].task \in Desk!ByKey(r)
      BY <2>1 DEF DeskHolds, Desk!At, Desk!ByKey
  <2> QED
      BY <2>2, <2>3, <2>4
<1> QED
    BY <1>1, DeskInitial, DeskNext, PTL DEF Desk!Spec

-----------------------------------------------------------------------------
(* What a task's ending teaches the placement (Placement).                   *)

PlKeys == PlacedOn \cup {"none"}
PlRow ==
    [key : PlKeys, state : {"none", "open", "over"}, outcome : {"none", "done", "failed", "stopped"},
     recorded : {"no", "yes", "skipped"}]
PlCounts == [ok : Nat, n : Nat]
PlTeacher ==
    [pc : {"idle", "claim", "read", "write"}, outcome : {"none", "done", "failed", "stopped"}, row : PlCounts]

PlBusy(v) == v.pc \in {"read", "write"}

(* The tasks of an option key whose one claim has taught, or was lost, in    *)
(* the tasks p and their handlers u.                                         *)
PlDone(k, p, u) ==
    {t \in PlacedTasks : /\ p[t].key = k /\ p[t].recorded = "yes"
                         /\ \A h \in Handlers : ~PlBusy(u[t][h])}

PlTypes ==
    /\ placed \in [PlacedTasks -> PlRow]
    /\ taught \in [PlacedOn -> PlCounts]
    /\ teacher \in [PlacedTasks -> [Handlers -> PlTeacher]]

(* Who may be at work: a task is claimed once, by the handler that teaches.  *)
PlClaims ==
    /\ \A t \in PlacedTasks : placed[t].state = "none" => placed[t].key = "none" /\ placed[t].recorded = "no"
    /\ \A t \in PlacedTasks, h \in Handlers :
          /\ teacher[t][h].pc # "idle" => placed[t].key \in PlacedOn
          /\ PlBusy(teacher[t][h]) => placed[t].recorded = "yes"
    /\ \A t \in PlacedTasks, g, h \in Handlers : PlBusy(teacher[t][g]) /\ PlBusy(teacher[t][h]) => g = h

(* The counts, and the copies that are about to be written over them, are    *)
(* those of claims that are over.                                            *)
PlBounded(row, done) == row.ok <= row.n /\ row.n <= Cardinality(done)

PlInv ==
    /\ PlTypes
    /\ PlClaims
    /\ \A k \in PlacedOn : PlBounded(taught[k], PlDone(k, placed, teacher))
    /\ \A t \in PlacedTasks, h \in Handlers :
          teacher[t][h].pc = "write" => PlBounded(teacher[t][h].row, PlDone(placed[t].key, placed, teacher))

LEMMA PlFinite ==
    \A k, p, u : IsFiniteSet(PlDone(k, p, u)) /\ Cardinality(PlDone(k, p, u)) \in Nat
<1>1. \A k, p, u : PlDone(k, p, u) \subseteq PlacedTasks
    BY DEF PlDone
<1>2. \A k, p, u : IsFiniteSet(PlDone(k, p, u))
    BY <1>1, PlacementAssumption, FS_Subset
<1> QED
    BY <1>2, FS_CardinalityType

LEMMA PlInitial == Place!InitPlacement => PlInv
<1> SUFFICES ASSUME Place!InitPlacement PROVE PlInv
    OBVIOUS
<1> DEFINE zero == [ok |-> 0, n |-> 0]
           row == [key |-> "none", state |-> "none", outcome |-> "none", recorded |-> "no"]
<1>1. zero \in PlCounts /\ zero.ok = 0 /\ zero.n = 0
    BY DEF PlCounts
<1>2. row \in PlRow /\ row.key = "none" /\ row.recorded = "no"
    BY DEF PlRow, PlKeys
<1>3. Place!Waiting \in PlTeacher /\ Place!Waiting.pc = "idle"
    BY <1>1 DEF Place!Waiting, PlTeacher
<1>4. /\ placed = [t \in PlacedTasks |-> row]
      /\ taught = [k \in PlacedOn |-> zero]
      /\ teacher = [t \in PlacedTasks |-> [h \in Handlers |-> Place!Waiting]]
    BY DEF Place!InitPlacement
<1> HIDE DEF zero, row
<1>5. \A k \in PlacedOn : PlBounded(taught[k], PlDone(k, placed, teacher))
  <2> SUFFICES ASSUME NEW k \in PlacedOn PROVE PlBounded(zero, PlDone(k, placed, teacher))
      BY <1>4
  <2> QED
      BY <1>1, PlFinite DEF PlBounded
<1>6. \A t \in PlacedTasks, h \in Handlers : teacher[t][h].pc = "idle"
    BY <1>3, <1>4
<1> QED
    BY <1>1, <1>2, <1>3, <1>4, <1>5, <1>6 DEF PlInv, PlTypes, PlClaims, PlBusy

(* A bound on a count holds on, as tasks are only ever added.                *)
LEMMA PlBoundedStays ==
    ASSUME NEW D, NEW E, IsFiniteSet(E), D \subseteq E, NEW row \in PlCounts, PlBounded(row, D)
    PROVE  PlBounded(row, E)
<1>1. IsFiniteSet(D) /\ Cardinality(D) <= Cardinality(E) /\ Cardinality(D) \in Nat /\ Cardinality(E) \in Nat
    BY FS_Subset, FS_CardinalityType
<1>2. row.ok \in Nat /\ row.n \in Nat
    BY DEF PlCounts
<1> QED
    BY <1>1, <1>2 DEF PlBounded

(* The task starts, ends or is continued.                                    *)
LEMMA PlPlaced ==
    ASSUME PlInv, NEW t \in PlacedTasks, NEW q \in PlRow, placed' = [placed EXCEPT ![t] = q],
           UNCHANGED <<taught, teacher>>,
           q.recorded = placed[t].recorded, q.state # "none",
           placed[t].state # "none" => q.key = placed[t].key
    PROVE  PlInv'
<1>1. \A u \in PlacedTasks : placed'[u] = IF u = t THEN q ELSE placed[u]
    BY DEF PlInv, PlTypes
<1>2. PlTypes'
    BY DEF PlInv, PlTypes
<1>3. \A u \in PlacedTasks, h \in Handlers : teacher[u][h].pc # "idle" => placed'[u].key = placed[u].key
    BY <1>1, PlacementAssumption DEF PlInv, PlClaims
<1>4. PlClaims'
    BY <1>1, <1>3 DEF PlInv, PlClaims, PlBusy
<1>5. \A k \in PlacedOn : PlDone(k, placed, teacher) \subseteq PlDone(k, placed', teacher')
    BY <1>1 DEF PlInv, PlClaims, PlDone
<1>6. ASSUME NEW k \in PlacedOn PROVE PlBounded(taught'[k], PlDone(k, placed', teacher'))
  <2>1. taught[k] \in PlCounts /\ PlBounded(taught[k], PlDone(k, placed, teacher))
      BY DEF PlInv, PlTypes
  <2> QED
      BY <1>5, <2>1, PlFinite, PlBoundedStays
<1>7. ASSUME NEW u \in PlacedTasks, NEW h \in Handlers, teacher'[u][h].pc = "write"
      PROVE  PlBounded(teacher'[u][h].row, PlDone(placed'[u].key, placed', teacher'))
  <2>1. teacher[u][h].pc = "write" /\ teacher[u][h] \in PlTeacher /\ placed[u].key \in PlacedOn
      BY <1>7 DEF PlInv, PlTypes, PlClaims
  <2>2. teacher[u][h].row \in PlCounts
      BY <2>1 DEF PlTeacher
  <2>3. PlBounded(teacher[u][h].row, PlDone(placed[u].key, placed, teacher))
      BY <2>1 DEF PlInv
  <2>4. placed'[u].key = placed[u].key
      BY <1>3, <2>1
  <2> QED
      BY <1>5, <2>1, <2>2, <2>3, <2>4, PlFinite, PlBoundedStays
<1> QED
    BY <1>2, <1>4, <1>6, <1>7 DEF PlInv

(* A handler goes on: what it claims is claimed by no other, and no task     *)
(* that has taught is at work again.                                         *)
PlMoves(t, h, to, q) ==
    /\ teacher' = [teacher EXCEPT ![t][h] = to] /\ placed' = [placed EXCEPT ![t] = q]
    /\ q.key = placed[t].key /\ q.state = placed[t].state
    /\ q.recorded = placed[t].recorded \/ placed[t].recorded = "no"
    /\ to.pc # "idle" => q.key \in PlacedOn /\ placed[t].state # "none"
    /\ placed[t].state = "none" => q.recorded = "no"
    /\ PlBusy(to) => q.recorded = "yes" /\ (PlBusy(teacher[t][h]) \/ placed[t].recorded = "no")

LEMMA PlMove ==
    ASSUME PlInv, NEW t \in PlacedTasks, NEW h \in Handlers, NEW to \in PlTeacher, NEW q \in PlRow,
           PlMoves(t, h, to, q)
    PROVE  /\ PlClaims'
           /\ placed' \in [PlacedTasks -> PlRow] /\ teacher' \in [PlacedTasks -> [Handlers -> PlTeacher]]
           /\ \A u \in PlacedTasks : placed'[u] = IF u = t THEN q ELSE placed[u]
           /\ \A u \in PlacedTasks, g \in Handlers : teacher'[u][g] = IF u = t /\ g = h THEN to ELSE teacher[u][g]
           /\ \A k \in PlacedOn : PlDone(k, placed, teacher) \subseteq PlDone(k, placed', teacher')
           /\ PlBusy(teacher[t][h]) /\ ~PlBusy(to) /\ placed[t].key \in PlacedOn =>
                 /\ t \notin PlDone(placed[t].key, placed, teacher)
                 /\ t \in PlDone(placed[t].key, placed', teacher')
<1>1. \A u \in PlacedTasks : placed'[u] = IF u = t THEN q ELSE placed[u]
    BY DEF PlInv, PlTypes, PlMoves
<1>2. teacher' = [teacher EXCEPT ![t] = [teacher[t] EXCEPT ![h] = to]]
    BY DEF PlMoves
<1>3. teacher[t] \in [Handlers -> PlTeacher] /\ [teacher[t] EXCEPT ![h] = to] \in [Handlers -> PlTeacher]
    BY DEF PlInv, PlTypes
<1>4. \A u \in PlacedTasks, g \in Handlers : teacher'[u][g] = IF u = t /\ g = h THEN to ELSE teacher[u][g]
    BY <1>2, <1>3 DEF PlInv, PlTypes
<1>5. placed' \in [PlacedTasks -> PlRow] /\ teacher' \in [PlacedTasks -> [Handlers -> PlTeacher]]
    BY <1>2, <1>3 DEF PlInv, PlTypes, PlMoves
<1>6. ASSUME NEW u \in PlacedTasks, placed'[u].state = "none"
      PROVE  placed'[u].key = "none" /\ placed'[u].recorded = "no"
    BY <1>1, <1>6 DEF PlInv, PlClaims, PlMoves
<1>7. ASSUME NEW u \in PlacedTasks, NEW g \in Handlers
      PROVE  /\ teacher'[u][g].pc # "idle" => placed'[u].key \in PlacedOn
             /\ PlBusy(teacher'[u][g]) => placed'[u].recorded = "yes"
  <2>1. CASE u = t /\ g = h
      BY <1>1, <1>4, <2>1 DEF PlMoves
  <2>2. CASE u = t /\ g # h
      BY <1>1, <1>4, <2>2 DEF PlMoves, PlInv, PlClaims
  <2>3. CASE u # t
      BY <1>1, <1>4, <2>3 DEF PlInv, PlClaims
  <2> QED
      BY <2>1, <2>2, <2>3
<1>8. ASSUME NEW u \in PlacedTasks, NEW f \in Handlers, NEW g \in Handlers,
             PlBusy(teacher'[u][f]), PlBusy(teacher'[u][g])
      PROVE  f = g
  <2>1. CASE u = t
    <3>1. \A x \in Handlers : PlBusy(teacher[t][x]) => placed[t].recorded = "yes"
        BY DEF PlInv, PlClaims
    <3>2. \A x \in Handlers : x # h => teacher'[t][x] = teacher[t][x]
        BY <1>4
    <3>3. teacher'[t][h] = to
        BY <1>4
    <3>4. \A x \in Handlers : PlBusy(to) /\ PlBusy(teacher[t][x]) => x = h
        BY <3>1 DEF PlMoves, PlInv, PlClaims
    <3>5. \A x, y \in Handlers : PlBusy(teacher[t][x]) /\ PlBusy(teacher[t][y]) => x = y
        BY DEF PlInv, PlClaims
    <3> QED
        BY <1>8, <2>1, <3>2, <3>3, <3>4, <3>5
  <2>2. CASE u # t
      BY <1>4, <1>8, <2>2 DEF PlInv, PlClaims
  <2> QED
      BY <2>1, <2>2
<1>9. PlClaims'
    BY <1>6, <1>7, <1>8 DEF PlClaims
<1>10. ASSUME NEW k \in PlacedOn, NEW u \in PlDone(k, placed, teacher) PROVE u \in PlDone(k, placed', teacher')
  <2>1. u \in PlacedTasks /\ placed[u].key = k /\ placed[u].recorded = "yes" /\ \A g \in Handlers : ~PlBusy(teacher[u][g])
      BY DEF PlDone
  <2>2. placed'[u].key = k /\ placed'[u].recorded = "yes"
      BY <1>1, <2>1 DEF PlMoves
  <2>3. \A g \in Handlers : ~PlBusy(teacher'[u][g])
      BY <1>4, <2>1 DEF PlMoves
  <2> QED
      BY <2>1, <2>2, <2>3 DEF PlDone
<1>11. ASSUME PlBusy(teacher[t][h]), ~PlBusy(to)
       PROVE  /\ t \notin PlDone(placed[t].key, placed, teacher)
              /\ t \in PlDone(placed[t].key, placed', teacher')
  <2>1. t \notin PlDone(placed[t].key, placed, teacher)
      BY <1>11 DEF PlDone
  <2>2. placed'[t].key = placed[t].key /\ placed'[t].recorded = "yes"
      BY <1>1, <1>11 DEF PlMoves, PlInv, PlClaims
  <2>3. \A g \in Handlers : ~PlBusy(teacher'[t][g])
      BY <1>4, <1>11 DEF PlInv, PlClaims
  <2> QED
      BY <2>1, <2>2, <2>3 DEF PlDone
<1> QED
    BY <1>1, <1>4, <1>5, <1>9, <1>10, <1>11

(* A handler's step that writes nothing over the counts.                     *)
LEMMA PlHandler ==
    ASSUME PlInv, NEW t \in PlacedTasks, NEW h \in Handlers, NEW to \in PlTeacher, NEW q \in PlRow,
           PlMoves(t, h, to, q), UNCHANGED taught,
           to.pc = "write" => PlBounded(to.row, PlDone(placed[t].key, placed, teacher))
    PROVE  PlInv'
<1>1. /\ PlClaims' /\ placed' \in [PlacedTasks -> PlRow] /\ teacher' \in [PlacedTasks -> [Handlers -> PlTeacher]]
      /\ \A u \in PlacedTasks : placed'[u] = IF u = t THEN q ELSE placed[u]
      /\ \A u \in PlacedTasks, g \in Handlers : teacher'[u][g] = IF u = t /\ g = h THEN to ELSE teacher[u][g]
      /\ \A k \in PlacedOn : PlDone(k, placed, teacher) \subseteq PlDone(k, placed', teacher')
    BY PlMove
<1>2. PlTypes'
    BY <1>1 DEF PlInv, PlTypes
<1>3. ASSUME NEW k \in PlacedOn PROVE PlBounded(taught'[k], PlDone(k, placed', teacher'))
  <2>1. taught[k] \in PlCounts /\ PlBounded(taught[k], PlDone(k, placed, teacher))
      BY DEF PlInv, PlTypes
  <2> QED
      BY <1>1, <2>1, PlFinite, PlBoundedStays
<1>4. ASSUME NEW u \in PlacedTasks, NEW g \in Handlers, teacher'[u][g].pc = "write"
      PROVE  PlBounded(teacher'[u][g].row, PlDone(placed'[u].key, placed', teacher'))
  <2>1. placed'[u].key = placed[u].key
      BY <1>1 DEF PlMoves
  <2>2. placed[u].key \in PlacedOn
      BY <1>1, <1>4, <2>1 DEF PlClaims
  <2>3. PlBounded(teacher'[u][g].row, PlDone(placed[u].key, placed, teacher))
      BY <1>1, <1>4 DEF PlInv
  <2>4. teacher'[u][g].row \in PlCounts
      BY <1>1 DEF PlTeacher
  <2> QED
      BY <1>1, <2>1, <2>2, <2>3, <2>4, PlFinite, PlBoundedStays
<1> QED
    BY <1>1, <1>2, <1>3, <1>4 DEF PlInv

LEMMA PlWaiting == Place!Waiting \in PlTeacher /\ Place!Waiting.pc = "idle" /\ ~PlBusy(Place!Waiting)
<1>1. [ok |-> 0, n |-> 0] \in PlCounts
    BY DEF PlCounts
<1> QED
    BY <1>1 DEF Place!Waiting, PlTeacher, PlBusy

(* A handler's step that leaves the row of its task alone.                   *)
LEMMA PlAlone ==
    ASSUME PlInv, NEW t \in PlacedTasks
    PROVE  placed[t] \in PlRow /\ placed = [placed EXCEPT ![t] = placed[t]]
    BY DEF PlInv, PlTypes

LEMMA PlSees ==
    ASSUME PlInv, NEW t \in PlacedTasks, NEW h \in Handlers, Place!Sees(t, h) PROVE PlInv'
<1> DEFINE b == [Place!Waiting EXCEPT !.pc = "claim"]
           to == [b EXCEPT !.outcome = placed[t].outcome]
<1>1. placed[t] \in PlRow /\ placed = [placed EXCEPT ![t] = placed[t]]
    BY PlAlone
<1>2. b \in PlTeacher /\ b.pc = "claim"
    BY PlWaiting DEF PlTeacher
<1>3. teacher' = [teacher EXCEPT ![t][h] = to] /\ UNCHANGED <<placed, taught>>
    BY DEF Place!Sees, Place!Goes
<1> HIDE DEF b
<1>4. to \in PlTeacher /\ to.pc = "claim"
    BY <1>1, <1>2 DEF PlTeacher, PlRow
<1> HIDE DEF to
<1>5. PlMoves(t, h, to, placed[t])
    BY <1>1, <1>3, <1>4 DEF PlMoves, PlBusy, Place!Sees, PlRow, PlKeys
<1> QED
    BY <1>1, <1>3, <1>4, <1>5, PlHandler

LEMMA PlClaim ==
    ASSUME PlInv, NEW t \in PlacedTasks, NEW h \in Handlers, Place!Claim(t, h) PROVE PlInv'
<1>1. placed[t] \in PlRow /\ placed = [placed EXCEPT ![t] = placed[t]]
    BY PlAlone
<1>2. teacher[t][h] \in PlTeacher /\ teacher[t][h].pc = "claim" /\ placed[t].key \in PlacedOn
    BY DEF PlInv, PlTypes, PlClaims, Place!Claim
<1>3. placed[t].state # "none"
    BY <1>2, PlacementAssumption DEF PlInv, PlClaims
<1>4. CASE ~Place!Unclaimed(t)
  <2>1. teacher' = [teacher EXCEPT ![t][h] = Place!Waiting] /\ UNCHANGED <<placed, taught>>
      BY <1>4 DEF Place!Claim, Place!Goes
  <2>2. PlMoves(t, h, Place!Waiting, placed[t])
      BY <1>1, <1>3, <2>1, PlWaiting DEF PlMoves
  <2> QED
      BY <1>1, <2>1, <2>2, PlWaiting, PlHandler
<1>5. CASE Place!Unclaimed(t)
  <2> DEFINE rec == IF teacher[t][h].outcome = "stopped" THEN "skipped" ELSE "yes"
             q == [placed[t] EXCEPT !.recorded = rec]
             next == [teacher[t][h] EXCEPT !.pc = "read"]
             to == IF teacher[t][h].outcome = "stopped" THEN Place!Waiting ELSE next
  <2>1. teacher' = [teacher EXCEPT ![t][h] = to] /\ placed' = [placed EXCEPT ![t] = q] /\ UNCHANGED taught
      BY <1>5 DEF Place!Claim, Place!Goes
  <2>2. next \in PlTeacher /\ next.pc = "read"
      BY <1>2 DEF PlTeacher
  <2> HIDE DEF next
  <2>3. to \in PlTeacher /\ to.pc # "write" /\ (PlBusy(to) => rec = "yes")
      BY <2>2, PlWaiting
  <2> HIDE DEF to
  <2>4. rec \in {"yes", "skipped"}
      OBVIOUS
  <2> HIDE DEF rec
  <2>5. q \in PlRow /\ q.recorded = rec /\ q.key = placed[t].key /\ q.state = placed[t].state
      BY <1>1, <2>4 DEF PlRow
  <2> HIDE DEF q
  <2>6. placed[t].recorded = "no"
      BY <1>5 DEF Place!Unclaimed
  <2>7. PlMoves(t, h, to, q)
      BY <1>2, <1>3, <2>1, <2>3, <2>5, <2>6 DEF PlMoves
  <2> QED
      BY <2>1, <2>3, <2>5, <2>7, PlHandler
<1> QED
    BY <1>4, <1>5

LEMMA PlReadRow ==
    ASSUME PlInv, NEW t \in PlacedTasks, NEW h \in Handlers, Place!ReadRow(t, h) PROVE PlInv'
<1> DEFINE row == taught[placed[t].key]
           b == [teacher[t][h] EXCEPT !.pc = "write"]
           to == [b EXCEPT !.row = row]
<1>1. placed[t] \in PlRow /\ placed = [placed EXCEPT ![t] = placed[t]]
    BY PlAlone
<1>2. teacher[t][h] \in PlTeacher /\ teacher[t][h].pc = "read" /\ placed[t].key \in PlacedOn
    BY DEF PlInv, PlTypes, PlClaims, Place!ReadRow
<1>3. PlBusy(teacher[t][h]) /\ placed[t].recorded = "yes" /\ placed[t].state # "none"
    BY <1>2, PlacementAssumption DEF PlInv, PlClaims, PlBusy
<1>4. row \in PlCounts /\ PlBounded(row, PlDone(placed[t].key, placed, teacher))
    BY <1>2 DEF PlInv, PlTypes
<1>5. b \in PlTeacher /\ b.pc = "write"
    BY <1>2 DEF PlTeacher
<1>6. teacher' = [teacher EXCEPT ![t][h] = to] /\ UNCHANGED <<placed, taught>>
    BY DEF Place!ReadRow, Place!Goes
<1> HIDE DEF b, row
<1>7. to \in PlTeacher /\ to.pc = "write" /\ to.row = row
    BY <1>4, <1>5 DEF PlTeacher
<1> HIDE DEF to
<1>8. PlMoves(t, h, to, placed[t])
    BY <1>1, <1>2, <1>3, <1>6, <1>7 DEF PlMoves
<1> QED
    BY <1>1, <1>4, <1>6, <1>7, <1>8, PlHandler

LEMMA PlLoses ==
    ASSUME PlInv, NEW t \in PlacedTasks, NEW h \in Handlers, Place!Loses(t, h) PROVE PlInv'
<1>1. placed[t] \in PlRow /\ placed = [placed EXCEPT ![t] = placed[t]]
    BY PlAlone
<1>2. teacher' = [teacher EXCEPT ![t][h] = Place!Waiting] /\ UNCHANGED <<placed, taught>>
    BY DEF Place!Loses, Place!Goes
<1>3. PlMoves(t, h, Place!Waiting, placed[t])
  <2>1. placed[t].state = "none" => placed[t].recorded = "no"
      BY DEF PlInv, PlClaims
  <2> QED
      BY <1>1, <1>2, <2>1, PlWaiting DEF PlMoves
<1> QED
    BY <1>1, <1>2, <1>3, PlWaiting, PlHandler

(* The count is written back: the copy was of claims that are over, and this *)
(* claim is over now.                                                        *)
LEMMA PlUpsert ==
    ASSUME PlInv, NEW t \in PlacedTasks, NEW h \in Handlers, Place!Upsert(t, h) PROVE PlInv'
<1> DEFINE key == placed[t].key
           row == teacher[t][h].row
           new == Place!Learned(row, teacher[t][h].outcome)
           D == PlDone(key, placed, teacher)
           E == PlDone(key, placed', teacher')
<1>1. placed[t] \in PlRow /\ placed = [placed EXCEPT ![t] = placed[t]]
    BY PlAlone
<1>2. teacher[t][h] \in PlTeacher /\ teacher[t][h].pc = "write" /\ key \in PlacedOn
    BY DEF PlInv, PlTypes, PlClaims, Place!Upsert
<1>3. PlBusy(teacher[t][h]) /\ placed[t].recorded = "yes" /\ placed[t].state # "none"
    BY <1>2, PlacementAssumption DEF PlInv, PlClaims, PlBusy
<1>4. row \in PlCounts /\ PlBounded(row, D)
    BY <1>2 DEF PlInv, PlTeacher
<1>5. /\ teacher' = [teacher EXCEPT ![t][h] = Place!Waiting] /\ UNCHANGED placed
      /\ taught' = [taught EXCEPT ![key] = new]
    BY DEF Place!Upsert, Place!Goes
<1>6. PlMoves(t, h, Place!Waiting, placed[t])
    BY <1>1, <1>3, <1>5, PlWaiting DEF PlMoves
<1>7. /\ PlClaims' /\ placed' \in [PlacedTasks -> PlRow] /\ teacher' \in [PlacedTasks -> [Handlers -> PlTeacher]]
      /\ \A u \in PlacedTasks, g \in Handlers :
            teacher'[u][g] = IF u = t /\ g = h THEN Place!Waiting ELSE teacher[u][g]
      /\ \A k \in PlacedOn : PlDone(k, placed, teacher) \subseteq PlDone(k, placed', teacher')
      /\ t \notin D /\ t \in E
    BY <1>1, <1>2, <1>3, <1>6, PlMove, PlWaiting
<1>8. D \cup {t} \subseteq E /\ IsFiniteSet(D) /\ IsFiniteSet(E)
    BY <1>2, <1>7, PlFinite
<1> HIDE DEF D, E
<1>9. Cardinality(D) + 1 <= Cardinality(E) /\ Cardinality(D) \in Nat /\ Cardinality(E) \in Nat
  <2>1. Cardinality(D \cup {t}) = Cardinality(D) + 1 /\ IsFiniteSet(D \cup {t})
      BY <1>7, <1>8, FS_AddElement
  <2> QED
      BY <1>8, <2>1, FS_Subset, FS_CardinalityType
<1>10. row.ok \in Nat /\ row.n \in Nat
    BY <1>4 DEF PlCounts
<1> HIDE DEF row
<1>11. new.n = row.n + 1 /\ new.ok \in {row.ok, row.ok + 1} /\ new \in PlCounts
    BY <1>10 DEF Place!Learned, PlCounts
<1> HIDE DEF new
<1>12. PlBounded(new, E)
    BY <1>4, <1>9, <1>10, <1>11 DEF PlBounded
<1>13. taught' \in [PlacedOn -> PlCounts]
    BY <1>5, <1>11 DEF PlInv, PlTypes
<1>14. ASSUME NEW k \in PlacedOn PROVE PlBounded(taught'[k], PlDone(k, placed', teacher'))
  <2>1. taught[k] \in PlCounts /\ PlBounded(taught[k], PlDone(k, placed, teacher))
      BY DEF PlInv, PlTypes
  <2>2. CASE k = key
      BY <1>2, <1>5, <1>12, <2>2 DEF E, PlInv, PlTypes
  <2>3. CASE k # key
    <3>1. taught'[k] = taught[k]
        BY <1>5, <2>3 DEF PlInv, PlTypes
    <3> QED
        BY <1>7, <2>1, <3>1, PlFinite, PlBoundedStays
  <2> QED
      BY <2>2, <2>3
<1>15. ASSUME NEW u \in PlacedTasks, NEW g \in Handlers, teacher'[u][g].pc = "write"
       PROVE  PlBounded(teacher'[u][g].row, PlDone(placed'[u].key, placed', teacher'))
  <2>1. teacher'[u][g] = teacher[u][g] /\ placed'[u].key = placed[u].key
      BY <1>5, <1>7, <1>15, PlWaiting
  <2>2. placed[u].key \in PlacedOn /\ teacher[u][g].row \in PlCounts
      BY <1>15, <2>1 DEF PlInv, PlTypes, PlClaims, PlTeacher
  <2>3. PlBounded(teacher[u][g].row, PlDone(placed[u].key, placed, teacher))
      BY <1>15, <2>1 DEF PlInv
  <2> QED
      BY <1>7, <2>1, <2>2, <2>3, PlFinite, PlBoundedStays
<1> QED
    BY <1>7, <1>13, <1>14, <1>15 DEF PlInv, PlTypes

LEMMA PlNext == PlInv /\ [Place!NextPlacement]_Place!plvars => PlInv'
<1> SUFFICES ASSUME PlInv, [Place!NextPlacement]_Place!plvars PROVE PlInv'
    OBVIOUS
<1>1. ASSUME NEW t \in PlacedTasks, NEW runner \in PlacedOn, NEW noCloud \in BOOLEAN, NEW onlyFree \in BOOLEAN,
             NEW explained \in BOOLEAN, Place!Start(t, runner, noCloud, onlyFree, explained)
      PROVE  PlInv'
  <2> DEFINE key == IF explained /\ Place!Offers(runner, noCloud, onlyFree) # {} THEN runner ELSE "none"
             b == [placed[t] EXCEPT !.state = "open"]
             q == [b EXCEPT !.key = key]
  <2>1. placed[t] \in PlRow /\ placed[t].state = "none"
      BY <1>1, PlAlone DEF Place!Start
  <2>2. b \in PlRow /\ b.state = "open" /\ b.recorded = placed[t].recorded
      BY <2>1 DEF PlRow
  <2>3. placed' = [placed EXCEPT ![t] = q] /\ UNCHANGED <<taught, teacher>>
      BY <1>1 DEF Place!Start
  <2>4. key \in PlKeys
      BY DEF PlKeys
  <2> HIDE DEF b, key
  <2>5. q \in PlRow /\ q.state = "open" /\ q.recorded = placed[t].recorded
      BY <2>2, <2>4 DEF PlRow
  <2> HIDE DEF q
  <2> QED
      BY <2>1, <2>3, <2>5, PlPlaced
<1>2. ASSUME NEW t \in PlacedTasks, NEW outcome \in {"done", "failed", "stopped"}, Place!Ends(t, outcome)
      PROVE  PlInv'
  <2> DEFINE b == [placed[t] EXCEPT !.state = "over"]
             q == [b EXCEPT !.outcome = outcome]
  <2>1. placed[t] \in PlRow /\ placed[t].state = "open"
      BY <1>2, PlAlone DEF Place!Ends
  <2>2. b \in PlRow /\ b.state = "over" /\ b.recorded = placed[t].recorded /\ b.key = placed[t].key
      BY <2>1 DEF PlRow
  <2>3. placed' = [placed EXCEPT ![t] = q] /\ UNCHANGED <<taught, teacher>>
      BY <1>2 DEF Place!Ends
  <2> HIDE DEF b
  <2>4. q \in PlRow /\ q.state = "over" /\ q.recorded = placed[t].recorded /\ q.key = placed[t].key
      BY <2>2 DEF PlRow
  <2> HIDE DEF q
  <2> QED
      BY <2>3, <2>4, PlPlaced
<1>3. ASSUME NEW t \in PlacedTasks, Place!Continue(t) PROVE PlInv'
  <2> DEFINE b == [placed[t] EXCEPT !.state = "open"]
             q == [b EXCEPT !.outcome = "none"]
  <2>1. placed[t] \in PlRow
      BY PlAlone
  <2>2. b \in PlRow /\ b.state = "open" /\ b.recorded = placed[t].recorded /\ b.key = placed[t].key
      BY <2>1 DEF PlRow
  <2>3. placed' = [placed EXCEPT ![t] = q] /\ UNCHANGED <<taught, teacher>>
      BY <1>3 DEF Place!Continue
  <2> HIDE DEF b
  <2>4. q \in PlRow /\ q.state = "open" /\ q.recorded = placed[t].recorded /\ q.key = placed[t].key
      BY <2>2 DEF PlRow
  <2> HIDE DEF q
  <2> QED
      BY <2>3, <2>4, PlPlaced
<1>4. CASE UNCHANGED Place!plvars
    BY <1>4 DEF Place!plvars, PlInv, PlTypes, PlClaims
<1> QED
    BY <1>1, <1>2, <1>3, <1>4, PlSees, PlClaim, PlReadRow, PlUpsert, PlLoses DEF Place!NextPlacement

LEMMA PlCardinality == \A S : Place!Cardinality(S) = Cardinality(S)
    BY DEF Cardinality, Place!Cardinality

(* A task teaches the placement of its agent at most once, however often it  *)
(* ends, is continued and its ends are delivered, for any finite set of      *)
(* tasks and any number of handlers (run-tasks.js recordPlacementOutcome).   *)
(* Inductive is the stronger: the counts, and every copy a handler is about  *)
(* to write over them, are no more than the claims that are over.            *)
THEOREM TaughtAtMostOnce == Place!Spec => []TaughtOnce
<1>1. PlInv => TaughtOnce
  <2> SUFFICES ASSUME PlInv, NEW k \in PlacedOn
               PROVE  taught[k].ok <= taught[k].n /\ taught[k].n <= Cardinality(Place!Claimed(k))
      BY PlCardinality DEF TaughtOnce, Place!TaughtOnce
  <2>1. PlDone(k, placed, teacher) \subseteq Place!Claimed(k) /\ Place!Claimed(k) \subseteq PlacedTasks
      BY DEF PlDone, Place!Claimed
  <2>2. IsFiniteSet(Place!Claimed(k))
      BY <2>1, PlacementAssumption, FS_Subset
  <2>3. taught[k] \in PlCounts /\ PlBounded(taught[k], PlDone(k, placed, teacher))
      BY DEF PlInv, PlTypes
  <2> QED
      BY <2>1, <2>2, <2>3, PlBoundedStays DEF PlBounded
<1> QED
    BY <1>1, PlInitial, PlNext, PTL DEF Place!Spec

-----------------------------------------------------------------------------
(* The agent of a pinned turn (Fleet).                                       *)

FleetWindow == [pct : Nat, past : {"no", "yes"}]
FleetReading == [kit : {"none", "absent", "login", "ready"}, use : [Windows -> FleetWindow]]

(* A reading without a kit is no row at all.                                 *)
FleetRow(x) == x \in FleetReading /\ (x.kit = "none" => x = Machine!None)
FleetTable(T) == T = [m \in Machines |-> [a \in FleetAgents |-> T[m][a]]] /\ \A m \in Machines, a \in FleetAgents : FleetRow(T[m][a])

(* What Bot holds, what a refresh read of it and what Codes holds are rows.  *)
FleetInv ==
    /\ bot = [list |-> bot.list, told |-> bot.told, fleet |-> bot.fleet] /\ FleetTable(bot.fleet)
    /\ FleetTable(held)
    /\ DOMAIN reader = Pair
    /\ \A r \in Pair : /\ reader[r] = [pc |-> reader[r].pc, doc |-> reader[r].doc, seen |-> reader[r].seen]
                       /\ reader[r].pc # "idle" => FleetTable(reader[r].doc.fleet)

LEMMA FleetNone == FleetRow(Machine!None) /\ Machine!None.kit = "none"
    BY DEF Machine!None, FleetRow, FleetReading, FleetWindow

LEMMA FleetUnreported ==
    ASSUME NEW T, FleetTable(T), NEW m \in Machines
    PROVE  FleetTable([T EXCEPT ![m] = Machine!Unreported])
    BY FleetNone DEF FleetTable, Machine!Unreported

LEMMA FleetInitial == Machine!InitFleet => FleetInv
<1> SUFFICES ASSUME Machine!InitFleet PROVE FleetInv
    OBVIOUS
<1>1. FleetTable([m \in Machines |-> Machine!Unreported])
    BY FleetNone DEF FleetTable, Machine!Unreported
<1> QED
    BY <1>1 DEF Machine!InitFleet, FleetInv, Machine!NoReader

(* One row of a table takes another reading.                                 *)
LEMMA FleetPut ==
    ASSUME NEW T, FleetTable(T), NEW m \in Machines, NEW a \in FleetAgents, NEW x, FleetRow(x)
    PROVE  FleetTable([T EXCEPT ![m][a] = x])
<1> DEFINE U == [T EXCEPT ![m][a] = x]
<1>1. T = [n \in Machines |-> [b \in FleetAgents |-> T[n][b]]]
    BY DEF FleetTable
<1>2. U = [n \in Machines |-> [b \in FleetAgents |-> IF n = m /\ b = a THEN x ELSE T[n][b]]]
    BY <1>1
<1> HIDE DEF U
<1>3. \A n \in Machines, b \in FleetAgents : U[n][b] = IF n = m /\ b = a THEN x ELSE T[n][b]
    BY <1>2
<1>4. U = [n \in Machines |-> [b \in FleetAgents |-> U[n][b]]]
    BY <1>2, <1>3
<1> QED
    BY <1>3, <1>4 DEF FleetTable, U

LEMMA FleetReported ==
    ASSUME FleetInv, NEW m \in Machines, NEW a \in FleetAgents, NEW reading \in Readings,
           Machine!Report(m, a, reading)
    PROVE  FleetInv'
<1>1. FleetRow(reading)
    BY FleetAssumption DEF FleetRow, FleetReading, FleetWindow, Machine!None
<1> DEFINE b == [bot EXCEPT !.told = @ \cup {m}]
           F == [bot.fleet EXCEPT ![m][a] = reading]
<1>2. b = [list |-> bot.list, told |-> bot.told \cup {m}, fleet |-> bot.fleet]
  <2>1. PICK l, t, f : bot = [list |-> l, told |-> t, fleet |-> f]
      BY DEF FleetInv
  <2> QED
      BY <2>1
<1>3. bot' = [b EXCEPT !.fleet = F]
    BY <1>2 DEF Machine!Report, FleetInv
<1> HIDE DEF b
<1>4. FleetTable(F)
    BY <1>1, FleetPut DEF FleetInv
<1> HIDE DEF F
<1>5. bot' = [list |-> bot.list, told |-> bot.told \cup {m}, fleet |-> F]
    BY <1>2, <1>3
<1>6. bot' = [list |-> bot'.list, told |-> bot'.told, fleet |-> bot'.fleet] /\ bot'.fleet = F
    BY <1>5
<1> QED
    BY <1>4, <1>6 DEF FleetInv, Machine!Report

(* A window frees in a row that says something.                              *)
LEMMA FleetFrees ==
    ASSUME FleetInv, NEW m \in Machines, NEW a \in FleetAgents, NEW w \in Windows, Machine!Frees(m, a, w)
    PROVE  FleetInv'
<1> DEFINE x == held[m][a]
           u == [x.use[w] EXCEPT !.past = "yes"]
           y == [x EXCEPT !.use = [x.use EXCEPT ![w] = u]]
<1>1. FleetRow(x) /\ x \in FleetReading /\ x.use[w] \in FleetWindow
    BY DEF FleetInv, FleetTable, FleetRow, FleetReading
<1>2. x.kit # "none"
  <2>1. x.use[w].pct > 0
      BY DEF Machine!Frees
  <2>2. Machine!None.use[w].pct = 0
      BY DEF Machine!None
  <2> HIDE DEF x
  <2> QED
      BY <1>1, <2>1, <2>2 DEF FleetRow
<1>3. held' = [held EXCEPT ![m][a] = y]
    BY DEF Machine!Frees, FleetInv, FleetTable
<1>4. u \in FleetWindow
    BY <1>1 DEF FleetWindow
<1> HIDE DEF x, u
<1>5. y \in FleetReading /\ y.kit = x.kit
    BY <1>1, <1>4 DEF FleetReading
<1> HIDE DEF y
<1>6. FleetTable(held')
    BY <1>2, <1>3, <1>5, FleetPut DEF FleetInv, FleetRow
<1> QED
    BY <1>6 DEF FleetInv, Machine!Frees

(* A refresh stores rows it read over rows that were there.                  *)
LEMMA FleetStore ==
    ASSUME FleetInv, NEW r \in Pair, Machine!Store(r) PROVE FleetInv'
<1>1. FleetTable(reader[r].doc.fleet) /\ FleetTable(held)
    BY DEF FleetInv, Machine!Store
<1>2. \A m \in Machines, a \in FleetAgents : FleetRow(Machine!Stored(r, m, a))
    BY <1>1, FleetNone DEF FleetTable, Machine!Stored
<1>3. held' = [m \in Machines |-> [a \in FleetAgents |-> Machine!Stored(r, m, a)]]
    BY DEF Machine!Store
<1>4. FleetTable(held')
    BY <1>2, <1>3 DEF FleetTable
<1>5. DOMAIN reader' = Pair
    BY DEF Machine!Store
<1>6. ASSUME NEW q \in Pair
      PROVE  /\ reader'[q] = [pc |-> reader'[q].pc, doc |-> reader'[q].doc, seen |-> reader'[q].seen]
             /\ reader'[q].pc # "idle" => FleetTable(reader'[q].doc.fleet)
  <2>1. CASE q = r
    <3>1. reader'[q] = Machine!NoReader
        BY <2>1 DEF Machine!Store
    <3> QED
        BY <3>1 DEF Machine!NoReader
  <2>2. CASE q # r
    <3> DEFINE v == [reader[q] EXCEPT !.seen = @ \ reader[r].seen]
    <3>1. reader'[q] = v
        BY <2>2 DEF Machine!Store
    <3>2. v = [pc |-> reader[q].pc, doc |-> reader[q].doc, seen |-> reader[q].seen \ reader[r].seen]
      <4>1. PICK p, d, e : reader[q] = [pc |-> p, doc |-> d, seen |-> e]
          BY DEF FleetInv
      <4> QED
          BY <4>1
    <3>3. reader[q].pc # "idle" => FleetTable(reader[q].doc.fleet)
        BY DEF FleetInv
    <3> HIDE DEF v
    <3> QED
        BY <3>1, <3>2, <3>3
  <2> QED
      BY <2>1, <2>2
<1> QED
    BY <1>4, <1>5, <1>6 DEF FleetInv, Machine!Store

(* A refresh that goes on holds what it read.                                *)
LEMMA FleetReader ==
    ASSUME FleetInv, NEW r \in Pair, NEW v, v = [pc |-> v.pc, doc |-> v.doc, seen |-> v.seen],
           v.pc # "idle" => FleetTable(v.doc.fleet), reader' = [reader EXCEPT ![r] = v], UNCHANGED <<bot, held>>
    PROVE  FleetInv'
    BY DEF FleetInv

LEMMA FleetRefresh ==
    ASSUME FleetInv, NEW r \in Pair, Machine!Read(r) \/ Machine!Delete(r) \/ Machine!RollBack(r) PROVE FleetInv'
<1>1. CASE reader' = [reader EXCEPT ![r] = [pc |-> "read", doc |-> bot, seen |-> {}]] /\ UNCHANGED <<bot, held>>
    BY <1>1, FleetReader DEF FleetInv
<1>2. CASE UNCHANGED <<bot, held, reader>>
    BY <1>2 DEF FleetInv
<1>3. CASE Machine!Delete(r)
  <2>1. PICK S : reader' = [reader EXCEPT ![r].pc = "store", ![r].seen = S] /\ UNCHANGED <<bot, held>>
               /\ reader[r].pc = "read"
      BY <1>3 DEF Machine!Delete
  <2> DEFINE v == [pc |-> "store", doc |-> reader[r].doc, seen |-> S]
  <2>2. reader[r] = [pc |-> reader[r].pc, doc |-> reader[r].doc, seen |-> reader[r].seen] /\ FleetTable(v.doc.fleet)
      BY <2>1 DEF FleetInv
  <2>3. [[reader[r] EXCEPT !.pc = "store"] EXCEPT !.seen = S] = v
    <3>1. PICK p, d, e : reader[r] = [pc |-> p, doc |-> d, seen |-> e]
        BY <2>2
    <3> DEFINE b == [reader[r] EXCEPT !.pc = "store"]
    <3>2. b = [pc |-> "store", doc |-> d, seen |-> e]
        BY <3>1
    <3> HIDE DEF b
    <3>3. [b EXCEPT !.seen = S] = [pc |-> "store", doc |-> d, seen |-> S]
        BY <3>2
    <3> QED
        BY <3>1, <3>3 DEF b
  <2>4. reader' = [reader EXCEPT ![r] = [[reader[r] EXCEPT !.pc = "store"] EXCEPT !.seen = S]]
      BY <2>1 DEF FleetInv
  <2> QED
      BY <2>1, <2>2, <2>3, <2>4, FleetReader
<1>4. CASE Machine!RollBack(r)
    BY <1>4, FleetReader DEF Machine!RollBack, Machine!NoReader
<1> QED
    BY <1>1, <1>2, <1>3, <1>4 DEF Machine!Read

LEMMA FleetNext == FleetInv /\ [Machine!NextFleet]_Machine!fvars => FleetInv'
<1> SUFFICES ASSUME FleetInv, [Machine!NextFleet]_Machine!fvars PROVE FleetInv'
    OBVIOUS
<1>1. ASSUME NEW m \in Machines, Machine!Unpair(m) PROVE FleetInv'
  <2>1. FleetTable([bot.fleet EXCEPT ![m] = Machine!Unreported])
      BY FleetUnreported DEF FleetInv
  <2>2. bot' = [list |-> bot'.list, told |-> bot'.told, fleet |-> [bot.fleet EXCEPT ![m] = Machine!Unreported]]
      BY <1>1 DEF Machine!Unpair
  <2> QED
      BY <1>1, <2>1, <2>2 DEF FleetInv, Machine!Unpair
<1>2. ASSUME NEW m \in Machines, NEW a \in FleetAgents, NEW reading \in Readings, Machine!Report(m, a, reading)
      PROVE  FleetInv'
    BY <1>2, FleetReported
<1>3. ASSUME NEW m \in Machines, NEW a \in FleetAgents, NEW w \in Windows, Machine!Frees(m, a, w) PROVE FleetInv'
    BY <1>3, FleetFrees
<1>4. ASSUME NEW r \in Pair, Machine!Store(r) PROVE FleetInv'
    BY <1>4, FleetStore
<1>5. ASSUME NEW r \in Pair, Machine!Read(r) \/ Machine!Delete(r) \/ Machine!RollBack(r) PROVE FleetInv'
    BY <1>5, FleetRefresh
<1>6. CASE UNCHANGED <<bot, held, reader>>
    BY <1>6 DEF FleetInv
<1>7. UNCHANGED Machine!fvars \/ (\E a \in FleetAgents : \E b \in {"unread", "spent", "plenty"} : Machine!Balance(a, b))
        => UNCHANGED <<bot, held, reader>>
    BY DEF Machine!fvars, Machine!Balance
<1> QED
    BY <1>1, <1>2, <1>3, <1>4, <1>5, <1>6, <1>7 DEF Machine!NextFleet

(* An agent that can take the turn reads as one with room, or near its limit.*)
LEMMA FleetReadyUsage ==
    ASSUME FleetInv, NEW m \in Machines, NEW a \in FleetAgents, Machine!Ready(held[m][a])
    PROVE  Machine!UsageOf(Machine!Pinned(m, a)) \in {"ok", "near"}
<1> DEFINE use == held[m][a].use
           live == {w \in Windows : use[w].past = "no"}
           S == {use[w].pct : w \in live}
<1>1. held[m][a] \in FleetReading
    BY DEF FleetInv, FleetTable, FleetRow
<1>2. use \in [Windows -> FleetWindow]
    BY <1>1 DEF FleetReading
<1>3. held[m][a].kit = "ready" /\ \A w \in live : use[w].pct \in {0, 1}
  <2>1. \A w \in Windows : use[w].pct \in Nat
      BY <1>2 DEF FleetWindow
  <2> QED
      BY <2>1 DEF Machine!Ready, Machine!Full
<1>4. Machine!Top(use) \in {0, 1}
  <2>1. CASE live = {}
      BY <2>1 DEF Machine!Top
  <2>2. CASE live # {}
    <3>1. S # {} /\ S \subseteq {0, 1}
        BY <1>3, <2>2
    <3>2. \E p \in S : \A w \in live : use[w].pct <= p
      <4>1. CASE 1 \in S
        <5>1. \A w \in live : use[w].pct <= 1
            BY <1>3
        <5> QED
            BY <4>1, <5>1
      <4>2. CASE 1 \notin S
        <5>1. \A w \in live : use[w].pct \in S
            OBVIOUS
        <5>2. \A w \in live : use[w].pct <= 0
            BY <1>3, <4>2, <5>1
        <5> QED
            BY <3>1, <4>2, <5>2
      <4> QED
          BY <4>1, <4>2
    <3>3. Machine!Top(use) = CHOOSE p \in S : \A w \in live : use[w].pct <= p
        BY <2>2 DEF Machine!Top
    <3> QED
        BY <3>1, <3>2, <3>3
  <2> QED
      BY <2>1, <2>2
<1> QED
    BY <1>3, <1>4 DEF Machine!UsageOf, Machine!Pinned, Machine!Row

(* One with room can take the turn, one without a reading has no row.        *)
LEMMA FleetUsageReady ==
    ASSUME FleetInv, NEW m \in Machines, NEW a \in FleetAgents
    PROVE  /\ Machine!UsageOf(Machine!Pinned(m, a)) \in {"ok", "near"} => Machine!Ready(held[m][a])
           /\ Machine!UsageOf(Machine!Pinned(m, a)) = "unknown" => held[m][a] = Machine!None
<1>1. FleetRow(held[m][a])
    BY DEF FleetInv, FleetTable
<1> QED
    BY <1>1 DEF Machine!UsageOf, Machine!Pinned, Machine!Row, FleetRow, FleetReading

(* The first index of the chain that passes a test, if one does.             *)
FleetFirst(hits) == IF hits = {} THEN 0 ELSE CHOOSE i \in hits : \A j \in hits : i <= j

LEMMA FleetFirstHit ==
    ASSUME NEW hits \in SUBSET (1..Len(Chain))
    PROVE  /\ hits # {} => FleetFirst(hits) \in hits /\ FleetFirst(hits) > 0
           /\ hits = {} => FleetFirst(hits) = 0
<1>1. Len(Chain) \in Nat
    BY FleetAssumption
<1>2. hits # {} => \E i \in hits : \A j \in hits : i <= j
    BY <1>1, LeastNumber
<1>3. hits # {} => FleetFirst(hits) \in hits
    BY <1>2 DEF FleetFirst
<1>4. hits # {} => FleetFirst(hits) > 0
  <2>1. \A i \in 1..Len(Chain) : i > 0
      BY <1>1
  <2> QED
      BY <1>3, <2>1
<1>5. hits = {} => FleetFirst(hits) = 0
    BY DEF FleetFirst
<1> QED
    BY <1>3, <1>4, <1>5

LEMMA FleetChoice ==
    ASSUME NEW usage, NEW k \in 1..Len(Chain), usage[k] \in {"ok", "near"}
    PROVE  /\ Machine!Choose(usage) \in 1..Len(Chain)
           /\ usage[Machine!Choose(usage)] \in {"ok", "near", "unknown"}
<1> DEFINE ok == {i \in 1..Len(Chain) : usage[i] = "ok" \/ (i = 1 /\ usage[i] = "unknown")}
           near == {i \in 1..Len(Chain) : usage[i] = "near"}
           unknown == {i \in 1..Len(Chain) : usage[i] = "unknown"}
<1>1. Machine!Choose(usage) = IF FleetFirst(ok) > 0 THEN FleetFirst(ok)
                              ELSE IF FleetFirst(near) > 0 THEN FleetFirst(near)
                              ELSE IF FleetFirst(unknown) > 0 THEN FleetFirst(unknown) ELSE 1
    BY DEF Machine!Choose, Machine!First, FleetFirst
<1>2. ok \in SUBSET (1..Len(Chain)) /\ near \in SUBSET (1..Len(Chain))
    OBVIOUS
<1>3. k \in ok \/ k \in near
    OBVIOUS
<1>4. \A i \in ok : i \in 1..Len(Chain) /\ usage[i] \in {"ok", "near", "unknown"}
    OBVIOUS
<1>5. \A i \in near : i \in 1..Len(Chain) /\ usage[i] \in {"ok", "near", "unknown"}
    OBVIOUS
<1> HIDE DEF ok, near, unknown
<1>6. CASE ok # {}
    BY <1>1, <1>2, <1>4, <1>6, FleetFirstHit
<1>7. CASE ok = {}
  <2>1. near # {} /\ ~(FleetFirst(ok) > 0)
      BY <1>2, <1>3, <1>7, FleetFirstHit
  <2> QED
      BY <1>1, <1>2, <1>5, <2>1, FleetFirstHit
<1> QED
    BY <1>6, <1>7

(* A pinned turn goes to an agent that can take it on its machine while one  *)
(* of its chain can (conductor-failover.js choose, usageOf; fleet.js         *)
(* refresh), for every chain, every number of machines and windows, and any  *)
(* order of reports, refreshes, resets and unpairings.                       *)
THEOREM PinnedTurnsFindRoom == Machine!Spec => []ChoosesRoom
<1>1. ASSUME FleetInv PROVE ChoosesRoom
  <2> SUFFICES ASSUME NEW m \in Machines, NEW k \in 1..Len(Chain), Machine!Ready(held[m][Chain[k]])
               PROVE  LET a == Chain[Machine!ChoicePinned(m)]
                      IN  held[m][a] = Machine!None \/ Machine!Ready(held[m][a])
      BY DEF ChoosesRoom, Machine!ChoosesRoom
  <2> DEFINE usage == [i \in 1..Len(Chain) |-> Machine!UsageOf(Machine!Pinned(m, Chain[i]))]
  <2>1. \A i \in 1..Len(Chain) : Chain[i] \in FleetAgents
      BY FleetAssumption
  <2>2. usage[k] \in {"ok", "near"}
      BY <1>1, <2>1, FleetReadyUsage
  <2>3. \A i \in 1..Len(Chain) : usage[i] = Machine!UsageOf(Machine!Pinned(m, Chain[i]))
      OBVIOUS
  <2>4. Machine!ChoicePinned(m) = Machine!Choose(usage)
      BY DEF Machine!ChoicePinned
  <2> HIDE DEF usage
  <2>5. Machine!Choose(usage) \in 1..Len(Chain) /\ usage[Machine!Choose(usage)] \in {"ok", "near", "unknown"}
      BY <2>2, FleetChoice
  <2> QED
      BY <1>1, <2>1, <2>3, <2>4, <2>5, FleetUsageReady
<1> QED
    BY <1>1, FleetInitial, FleetNext, PTL DEF Machine!Spec
-----------------------------------------------------------------------------
(* Benchmark runs (Bench).                                                   *)

BenchStates == {"idle", "count", "daily", "start", "submit", "failing", "done", "refused", "502"}
BenchSession == [pc : BenchStates, n : 0..Runs!Total]
BenchCell == {"none", "queued", "failing", "running", "ended", "failed"}

(* How far a request is in its matrix: it has started the first n cells.     *)
BenchCounts(v) ==
    /\ v.pc \in {"idle", "count", "daily"} => v.n = 0
    /\ v.pc = "start" => v.n < Runs!Total
    /\ v.pc \in {"submit", "failing"} => v.n \in 1..Runs!Total

(* What request s has made of its cells.                                     *)
BenchRows(s, v, C) ==
    /\ \A n \in 1..Runs!Total : n > v.n => C[<<s, n>>] = "none"
    /\ v.pc = "submit" => C[<<s, v.n>>] = "queued"
    /\ v.pc = "failing" => C[<<s, v.n>>] = "failing"

(* A cell that will not run again: it ended or failed, or its insert stands  *)
(* and the request that was to submit it is gone.                            *)
BenchSettled(x, v, C) ==
    /\ C[x] \in {"ended", "failed", "failing", "queued"}
    /\ C[x] = "queued" => ~(v.pc = "submit" /\ v.n = x[2])

(* A group's publisher holds the whole group, settled; so has what was sent. *)
BenchWhole(g, R, S, C) ==
    /\ R = {x \in Runs!Cells : Runs!GroupOf(x) = g}
    /\ \A x \in R : BenchSettled(x, S[x[1]], C)

BenchInv ==
    /\ session \in [Pair -> BenchSession]
    /\ cell \in [Runs!Cells -> BenchCell]
    /\ publisher \in [Runs!Cells -> [pc : {"none", "has", "read", "post"}, rows : SUBSET Runs!Cells]]
    /\ \A s \in Pair : BenchCounts(session[s]) /\ BenchRows(s, session[s], cell)
    /\ \A x \in Runs!Cells :
        publisher[x].pc = "post" => BenchWhole(Runs!GroupOf(x), publisher[x].rows, session, cell)
    /\ \A p \in published : BenchWhole(p.group, p.rows, session, cell)

LEMMA BenchTotal == Runs!Total \in Nat \ {0}
    BY BenchAssumption DEF Runs!Total

LEMMA BenchCellParts ==
    \A x \in Runs!Cells : x = <<x[1], x[2]>> /\ x[1] \in Pair /\ x[2] \in 1..Runs!Total /\ x[2] \in Nat
    BY BenchTotal DEF Runs!Cells

LEMMA BenchCardinality == \A S : Runs!Cardinality(S) = Cardinality(S)
    BY DEF Cardinality, Runs!Cardinality

(* A number is known by its quotient and its remainder.                      *)
LEMMA BenchDivision ==
    ASSUME NEW a \in Nat, NEW b \in Nat \ {0}, NEW c \in Nat, a \div b = c \div b, a % b = c % b
    PROVE  a = c
    OBVIOUS

LEMMA BenchRemainder ==
    ASSUME NEW a \in Nat, NEW b \in Nat \ {0} PROVE a % b \in 0..b - 1
    OBVIOUS

(* A group has TaskCount cells at most: one for each remainder.              *)
LEMMA BenchGroupSize ==
    ASSUME NEW x \in Runs!Cells
    PROVE  IsFiniteSet(Runs!Siblings(x)) /\ Cardinality(Runs!Siblings(x)) <= TaskCount
<1> DEFINE S == Runs!Siblings(x)
           f == [y \in S |-> (y[2] - 1) % TaskCount]
<1>1. TaskCount \in Nat \ {0}
    BY BenchAssumption
<1>2. ASSUME NEW y \in S
      PROVE  /\ y \in Runs!Cells /\ y[2] - 1 \in Nat /\ y[1] = x[1]
             /\ (y[2] - 1) \div TaskCount = (x[2] - 1) \div TaskCount
  <2>1. y \in Runs!Cells /\ Runs!GroupOf(y) = Runs!GroupOf(x)
      BY <1>2 DEF Runs!Siblings
  <2> QED
      BY <2>1, BenchCellParts DEF Runs!GroupOf
<1>3. f \in [S -> 0..TaskCount - 1]
  <2> SUFFICES ASSUME NEW y \in S PROVE (y[2] - 1) % TaskCount \in 0..TaskCount - 1
      OBVIOUS
  <2> QED
      BY <1>1, <1>2, BenchRemainder
<1>4. ASSUME NEW y \in S, NEW z \in S, f[y] = f[z] PROVE y = z
  <2>1. (y[2] - 1) % TaskCount = (z[2] - 1) % TaskCount
      BY <1>4
  <2>2. y[2] - 1 = z[2] - 1
      BY <1>1, <1>2, <2>1, BenchDivision
  <2>3. y[2] \in Nat /\ z[2] \in Nat
      BY <1>2, BenchCellParts
  <2> QED
      BY <1>2, <2>2, <2>3, BenchCellParts
<1>5. f \in Injection(S, 0..TaskCount - 1)
    BY <1>3, <1>4 DEF Injection, IsInjective
<1>6. IsFiniteSet(0..TaskCount - 1) /\ Cardinality(0..TaskCount - 1) = TaskCount
    BY <1>1, FS_Interval
<1> HIDE DEF f, S
<1>7. IsFiniteSet(S) /\ Cardinality(S) <= TaskCount
    BY <1>5, <1>6, FS_Injection
<1> QED
    BY <1>7 DEF S

(* As many rows as the benchmark has tasks are all of the group's.           *)
LEMMA BenchAllRows ==
    ASSUME NEW x \in Runs!Cells, Runs!Whole(x) PROVE Runs!Rows(x) = Runs!Siblings(x)
<1>1. Cardinality(Runs!Rows(x)) >= TaskCount
    BY BenchCardinality DEF Runs!Whole
<1>2. Runs!Rows(x) \in SUBSET Runs!Siblings(x)
    BY DEF Runs!Rows
<1>3. IsFiniteSet(Runs!Siblings(x)) /\ Cardinality(Runs!Siblings(x)) <= TaskCount
    BY BenchGroupSize
<1>4. Cardinality(Runs!Rows(x)) <= Cardinality(Runs!Siblings(x)) /\ IsFiniteSet(Runs!Rows(x))
    BY <1>2, <1>3, FS_Subset
<1>5. Cardinality(Runs!Rows(x)) = Cardinality(Runs!Siblings(x))
    BY <1>1, <1>3, <1>4, FS_CardinalityType, BenchAssumption
<1> QED
    BY <1>2, <1>3, <1>5, FS_Subset

LEMMA BenchInitial == Runs!InitBench => BenchInv
<1> SUFFICES ASSUME Runs!InitBench PROVE BenchInv
    OBVIOUS
<1>1. session \in [Pair -> BenchSession]
    BY BenchTotal DEF Runs!InitBench, BenchSession, BenchStates
<1>2. publisher \in [Runs!Cells -> [pc : {"none", "has", "read", "post"}, rows : SUBSET Runs!Cells]]
    BY DEF Runs!InitBench, Runs!Quiet
<1>3. ASSUME NEW s \in Pair PROVE BenchCounts(session[s]) /\ BenchRows(s, session[s], cell)
  <2>1. session[s].pc = "idle" /\ session[s].n = 0
      BY DEF Runs!InitBench
  <2>2. \A n \in 1..Runs!Total : <<s, n>> \in Runs!Cells
      BY DEF Runs!Cells
  <2> QED
      BY <2>1, <2>2 DEF Runs!InitBench, BenchCounts, BenchRows
<1> QED
    BY <1>1, <1>2, <1>3 DEF Runs!InitBench, BenchInv, BenchCell, Runs!Quiet

(* A step of request s, of its cell or of none: what is settled stays so.    *)
BenchMoves(s, v, C) ==
    /\ s \in Pair /\ v \in BenchSession /\ C \in [Runs!Cells -> BenchCell]
    /\ BenchCounts(v) /\ BenchRows(s, v, C)
    /\ \A x \in Runs!Cells : x[1] # s => C[x] = cell[x]
    /\ \A x \in Runs!Cells : x[1] = s /\ BenchSettled(x, session[s], cell) => BenchSettled(x, v, C)

(* The publishers change no row, and hold or send whole groups.              *)
BenchPublishes(P, Q) ==
    /\ P \in [Runs!Cells -> [pc : {"none", "has", "read", "post"}, rows : SUBSET Runs!Cells]]
    /\ \A x \in Runs!Cells : P[x].pc = "post" => P[x] = publisher[x] \/ BenchWhole(Runs!GroupOf(x), P[x].rows, session, cell)
    /\ \A p \in Q : p \in published \/ BenchWhole(p.group, p.rows, session, cell)

LEMMA BenchStep ==
    ASSUME BenchInv, NEW s, NEW v, BenchMoves(s, v, cell'), session' = [session EXCEPT ![s] = v],
           BenchPublishes(publisher', published')
    PROVE  BenchInv'
<1>1. s \in Pair /\ v \in BenchSession /\ cell' \in [Runs!Cells -> BenchCell]
    BY DEF BenchMoves
<1>2. session' \in [Pair -> BenchSession] /\ session'[s] = v /\ \A r \in Pair : r # s => session'[r] = session[r]
    BY <1>1 DEF BenchInv
<1>3. \A x \in Runs!Cells : x[1] # s => cell'[x] = cell[x]
    BY DEF BenchMoves
<1>4. ASSUME NEW r \in Pair PROVE BenchCounts(session'[r]) /\ BenchRows(r, session'[r], cell')
  <2>1. CASE r = s
      BY <1>2, <2>1 DEF BenchMoves
  <2>2. CASE r # s
    <3>1. \A n \in 1..Runs!Total : cell'[<<r, n>>] = cell[<<r, n>>]
        BY <1>3, <2>2 DEF Runs!Cells
    <3>2. BenchCounts(session[r]) /\ BenchRows(r, session[r], cell)
        BY DEF BenchInv
    <3>3. session[r].pc \in {"submit", "failing"} => session[r].n \in 1..Runs!Total
        BY <3>2 DEF BenchCounts
    <3> QED
        BY <1>2, <2>2, <3>1, <3>2, <3>3 DEF BenchRows
  <2> QED
      BY <2>1, <2>2
<1>5. ASSUME NEW x \in Runs!Cells, BenchSettled(x, session[x[1]], cell) PROVE BenchSettled(x, session'[x[1]], cell')
  <2>1. x[1] \in Pair
      BY BenchCellParts
  <2>2. CASE x[1] = s
      BY <1>2, <1>5, <2>2 DEF BenchMoves
  <2>3. CASE x[1] # s
      BY <1>2, <1>3, <1>5, <2>1, <2>3 DEF BenchSettled
  <2> QED
      BY <2>2, <2>3
<1>6. ASSUME NEW g, NEW R, BenchWhole(g, R, session, cell) PROVE BenchWhole(g, R, session', cell')
    BY <1>5, <1>6 DEF BenchWhole
<1>7. ASSUME NEW x \in Runs!Cells, publisher'[x].pc = "post"
      PROVE  BenchWhole(Runs!GroupOf(x), publisher'[x].rows, session', cell')
  <2>1. BenchWhole(Runs!GroupOf(x), publisher'[x].rows, session, cell)
      BY <1>7 DEF BenchPublishes, BenchInv
  <2> QED
      BY <1>6, <2>1
<1>8. ASSUME NEW p \in published' PROVE BenchWhole(p.group, p.rows, session', cell')
  <2>1. BenchWhole(p.group, p.rows, session, cell)
      BY <1>8 DEF BenchPublishes, BenchInv
  <2> QED
      BY <1>6, <2>1
<1> QED
    BY <1>1, <1>2, <1>4, <1>7, <1>8 DEF BenchInv, BenchPublishes

(* A publisher that is not about to post, and nothing sent.                  *)
LEMMA BenchPublisherMoves ==
    ASSUME BenchInv, NEW x \in Runs!Cells, NEW w \in [pc : {"none", "has", "read"}, rows : SUBSET Runs!Cells],
           publisher' = [publisher EXCEPT ![x] = w], published' = published
    PROVE  BenchPublishes(publisher', published')
    BY DEF BenchInv, BenchPublishes

LEMMA BenchPublishersStay ==
    ASSUME BenchInv, UNCHANGED <<publisher, published>> PROVE BenchPublishes(publisher', published')
    BY DEF BenchInv, BenchPublishes

(* Only the publishers move.                                                 *)
LEMMA BenchPublisherStep ==
    ASSUME BenchInv, UNCHANGED <<session, cell>>, BenchPublishes(publisher', published') PROVE BenchInv'
<1>1. ASSUME NEW x \in Runs!Cells, publisher'[x].pc = "post"
      PROVE  BenchWhole(Runs!GroupOf(x), publisher'[x].rows, session, cell)
    BY <1>1 DEF BenchPublishes, BenchInv
<1>2. ASSUME NEW p \in published' PROVE BenchWhole(p.group, p.rows, session, cell)
    BY <1>2 DEF BenchPublishes, BenchInv
<1> QED
    BY <1>1, <1>2 DEF BenchInv, BenchPublishes

(* A request goes on, and no cell changes.                                   *)
LEMMA BenchGoes ==
    ASSUME BenchInv, NEW s \in Pair, NEW pc \in BenchStates \ {"submit", "failing"}, Runs!Goes(s, pc),
           pc \in {"idle", "count", "daily"} => session[s].n = 0,
           pc = "start" => session[s].n < Runs!Total,
           UNCHANGED <<cell, publisher, published>>
    PROVE  BenchInv'
<1> DEFINE v == [session[s] EXCEPT !.pc = pc]
<1>1. session[s] \in BenchSession /\ BenchCounts(session[s]) /\ BenchRows(s, session[s], cell)
    BY DEF BenchInv
<1>2. v \in BenchSession /\ v.pc = pc /\ v.n = session[s].n
    BY <1>1 DEF BenchSession
<1>3. session' = [session EXCEPT ![s] = v]
    BY DEF Runs!Goes
<1> HIDE DEF v
<1>4. BenchCounts(v) /\ BenchRows(s, v, cell)
    BY <1>1, <1>2 DEF BenchCounts, BenchRows
<1>5. BenchMoves(s, v, cell')
    BY <1>2, <1>4 DEF BenchMoves, BenchInv, BenchSettled
<1> QED
    BY <1>3, <1>5, BenchPublishersStay, BenchStep

LEMMA BenchStart ==
    ASSUME BenchInv, NEW s \in Pair, Runs!Start(s) PROVE BenchInv'
<1> DEFINE v == [pc |-> "submit", n |-> session[s].n + 1]
           y == <<s, session[s].n + 1>>
<1>1. session[s] \in BenchSession /\ BenchCounts(session[s]) /\ BenchRows(s, session[s], cell) /\ session[s].pc = "start"
    BY DEF BenchInv, Runs!Start, Runs!At
<1>2. session[s].n + 1 \in 1..Runs!Total /\ session[s].n \in Nat /\ session[s].n < Runs!Total
    BY <1>1, BenchTotal DEF BenchSession, BenchCounts
<1>3. v \in BenchSession /\ v.pc = "submit" /\ v.n = session[s].n + 1
    BY <1>2 DEF BenchSession, BenchStates
<1>4. session' = [session EXCEPT ![s] = v] /\ cell' = [cell EXCEPT ![y] = "queued"]
    BY DEF Runs!Start
<1>5. y \in Runs!Cells /\ y[1] = s /\ y[2] = session[s].n + 1
    BY <1>2 DEF Runs!Cells
<1> HIDE DEF v, y
<1>6. cell \in [Runs!Cells -> BenchCell]
    BY DEF BenchInv
<1>7. cell[y] = "none"
    BY <1>1, <1>2 DEF BenchRows, y
<1>8. cell' \in [Runs!Cells -> BenchCell] /\ cell'[y] = "queued" /\ \A x \in Runs!Cells : x # y => cell'[x] = cell[x]
    BY <1>4, <1>5, <1>6 DEF BenchCell
<1>9. BenchCounts(v)
    BY <1>2, <1>3 DEF BenchCounts
<1>10. BenchRows(s, v, cell')
  <2>1. ASSUME NEW n \in 1..Runs!Total, n > v.n PROVE cell'[<<s, n>>] = "none"
    <3>1. <<s, n>> \in Runs!Cells /\ <<s, n>> # y
        BY <1>2, <1>3, <1>5, <2>1 DEF Runs!Cells, y
    <3>2. cell[<<s, n>>] = "none"
        BY <1>1, <1>2, <1>3, <2>1 DEF BenchRows
    <3> QED
        BY <1>8, <3>1, <3>2
  <2>2. cell'[<<s, v.n>>] = "queued"
      BY <1>3, <1>8 DEF y
  <2> QED
      BY <1>3, <2>1, <2>2 DEF BenchRows
<1>11. ASSUME NEW x \in Runs!Cells, x[1] = s, BenchSettled(x, session[s], cell) PROVE BenchSettled(x, v, cell')
  <2>1. x # y
      BY <1>7, <1>11 DEF BenchSettled
  <2>2. x[2] # v.n
      BY <1>3, <1>11, <2>1, BenchCellParts DEF y
  <2> QED
      BY <1>8, <1>11, <2>1, <2>2 DEF BenchSettled
<1>12. BenchMoves(s, v, cell')
    BY <1>3, <1>5, <1>8, <1>9, <1>10, <1>11 DEF BenchMoves
<1> QED
    BY <1>4, <1>12, BenchPublishersStay, BenchStep DEF Runs!Start

(* The cell request s is at takes another state.                             *)
LEMMA BenchHere ==
    ASSUME BenchInv, NEW s \in Pair, session[s].pc \in {"submit", "failing"},
           NEW c \in BenchCell \ {"none"}, NEW pc \in {"start", "done", "failing"},
           cell' = [cell EXCEPT ![Runs!Here(s)] = c], Runs!Goes(s, pc),
           pc = "start" => session[s].n # Runs!Total, pc = "failing" => c = "failing",
           session[s].pc = "failing" => c \in {"failed", "ended"},
           BenchPublishes(publisher', published')
    PROVE  BenchInv'
<1> DEFINE v == [session[s] EXCEPT !.pc = pc]
           y == Runs!Here(s)
<1>1. session[s] \in BenchSession /\ BenchCounts(session[s]) /\ BenchRows(s, session[s], cell)
    BY DEF BenchInv
<1>2. session[s].n \in 1..Runs!Total
    BY <1>1 DEF BenchCounts
<1>3. v \in BenchSession /\ v.pc = pc /\ v.n = session[s].n
    BY <1>1 DEF BenchSession, BenchStates
<1>4. session' = [session EXCEPT ![s] = v]
    BY DEF Runs!Goes
<1> HIDE DEF v
<1>5. y \in Runs!Cells /\ y = <<s, session[s].n>> /\ y[1] = s /\ y[2] = session[s].n
    BY <1>2 DEF Runs!Cells, Runs!Here
<1>6. cell \in [Runs!Cells -> BenchCell] /\ cell' = [cell EXCEPT ![y] = c]
    BY DEF BenchInv
<1> HIDE DEF y
<1>7. cell' \in [Runs!Cells -> BenchCell] /\ cell'[y] = c /\ \A x \in Runs!Cells : x # y => cell'[x] = cell[x]
    BY <1>5, <1>6
<1>8. BenchCounts(v)
    BY <1>2, <1>3, BenchTotal DEF BenchCounts
<1>9. BenchRows(s, v, cell')
  <2>1. ASSUME NEW n \in 1..Runs!Total, n > v.n PROVE cell'[<<s, n>>] = "none"
    <3>1. <<s, n>> \in Runs!Cells /\ <<s, n>> # y
        BY <1>2, <1>3, <1>5, <2>1 DEF Runs!Cells
    <3>2. cell[<<s, n>>] = "none"
        BY <1>1, <1>3, <2>1 DEF BenchRows
    <3> QED
        BY <1>7, <3>1, <3>2
  <2> QED
      BY <1>3, <1>5, <1>7, <2>1 DEF BenchRows
<1>10. ASSUME NEW x \in Runs!Cells, x[1] = s, BenchSettled(x, session[s], cell) PROVE BenchSettled(x, v, cell')
  <2>1. CASE x = y
    <3>1. session[s].pc # "submit"
        BY <1>1, <1>5, <1>10, <2>1 DEF BenchRows, BenchSettled
    <3> QED
        BY <1>7, <2>1, <3>1 DEF BenchSettled
  <2>2. CASE x # y
      BY <1>3, <1>7, <1>10, <2>2 DEF BenchSettled
  <2> QED
      BY <2>1, <2>2
<1>11. BenchMoves(s, v, cell')
    BY <1>3, <1>5, <1>7, <1>8, <1>9, <1>10 DEF BenchMoves
<1> QED
    BY <1>4, <1>11, BenchStep

LEMMA BenchOnward ==
    ASSUME BenchInv, NEW s \in Pair, Runs!Onward(s)
    PROVE  \E pc \in {"start", "done"} : Runs!Goes(s, pc) /\ (pc = "start" => session[s].n # Runs!Total)
    BY DEF Runs!Onward

LEMMA BenchQuietHas ==
    /\ Runs!Quiet \in [pc : {"none", "has", "read"}, rows : SUBSET Runs!Cells]
    /\ [Runs!Quiet EXCEPT !.pc = "has"] \in [pc : {"none", "has", "read"}, rows : SUBSET Runs!Cells]
    BY DEF Runs!Quiet

LEMMA BenchRequest ==
    ASSUME BenchInv, NEW s \in Pair,
           Runs!Ask(s) \/ Runs!Count(s) \/ Runs!Daily(s) \/ Runs!Start(s) \/ Runs!Submit(s) \/ Runs!SubmitFails(s)
             \/ Runs!Commit(s) \/ Runs!Throws(s)
    PROVE  BenchInv'
<1> USE DEF BenchStates
<1>1. BenchCounts(session[s])
    BY BenchTotal DEF BenchInv
<1>2. CASE Runs!Ask(s)
    BY <1>1, <1>2, BenchGoes DEF Runs!Ask, Runs!At, BenchCounts
<1>3. CASE Runs!Count(s)
    BY <1>1, <1>3, BenchGoes DEF Runs!Count, Runs!At, BenchCounts
<1>4. CASE Runs!Daily(s)
    BY <1>1, <1>4, BenchGoes, BenchTotal DEF Runs!Daily, Runs!At, BenchCounts
<1>5. CASE Runs!Start(s)
    BY <1>5, BenchStart
<1>6. CASE Runs!Submit(s)
  <2>1. PICK pc \in {"start", "done"} : Runs!Goes(s, pc) /\ (pc = "start" => session[s].n # Runs!Total)
      BY <1>6, BenchOnward DEF Runs!Submit
  <2>2. session[s].pc = "submit" /\ cell' = [cell EXCEPT ![Runs!Here(s)] = "running"] /\ UNCHANGED <<publisher, published>>
      BY <1>6 DEF Runs!Submit, Runs!At
  <2>3. "running" \in BenchCell \ {"none"}
      BY DEF BenchCell
  <2> QED
      BY <2>1, <2>2, <2>3, BenchPublishersStay, BenchHere
<1>7. CASE Runs!SubmitFails(s)
  <2>1. session[s].pc = "submit" /\ cell' = [cell EXCEPT ![Runs!Here(s)] = "failing"] /\ Runs!Goes(s, "failing")
      BY <1>7 DEF Runs!SubmitFails, Runs!At
  <2>2. Runs!Here(s) \in Runs!Cells
      BY <1>1, <2>1 DEF Runs!Here, Runs!Cells, BenchCounts
  <2>3. BenchPublishes(publisher', published')
      BY <1>7, <2>2, BenchQuietHas, BenchPublisherMoves DEF Runs!SubmitFails
  <2>4. "failing" \in BenchCell \ {"none"}
      BY DEF BenchCell
  <2> QED
      BY <2>1, <2>3, <2>4, BenchHere
<1>8. CASE Runs!Commit(s)
  <2>1. PICK pc \in {"start", "done"} : Runs!Goes(s, pc) /\ (pc = "start" => session[s].n # Runs!Total)
      BY <1>8, BenchOnward DEF Runs!Commit
  <2>2. session[s].pc = "failing" /\ cell' = [cell EXCEPT ![Runs!Here(s)] = "failed"] /\ UNCHANGED <<publisher, published>>
      BY <1>8 DEF Runs!Commit, Runs!At
  <2>3. "failed" \in BenchCell \ {"none"}
      BY DEF BenchCell
  <2> QED
      BY <2>1, <2>2, <2>3, BenchPublishersStay, BenchHere
<1>9. CASE Runs!Throws(s)
    BY <1>9, BenchGoes DEF Runs!Throws
<1> QED
    BY <1>2, <1>3, <1>4, <1>5, <1>6, <1>7, <1>8, <1>9

LEMMA BenchEnds ==
    ASSUME BenchInv, NEW x \in Runs!Cells, Runs!Ends(x) PROVE BenchInv'
<1> DEFINE s == x[1]
           v == session[s]
<1>1. s \in Pair /\ x = <<s, x[2]>>
    BY BenchCellParts
<1>2. v \in BenchSession /\ BenchCounts(v) /\ BenchRows(s, v, cell) /\ session' = [session EXCEPT ![s] = v]
    BY <1>1 DEF BenchInv, Runs!Ends
<1>3. cell[x] = "running" /\ cell' = [cell EXCEPT ![x] = "ended"] /\ cell \in [Runs!Cells -> BenchCell]
    BY DEF BenchInv, Runs!Ends
<1> HIDE DEF v
<1>4. cell' \in [Runs!Cells -> BenchCell] /\ cell'[x] = "ended" /\ \A y \in Runs!Cells : y # x => cell'[y] = cell[y]
    BY <1>3 DEF BenchCell
<1>5. BenchRows(s, v, cell')
  <2>1. ASSUME NEW n \in 1..Runs!Total, cell[<<s, n>>] # "running" PROVE cell'[<<s, n>>] = cell[<<s, n>>]
    <3>1. <<s, n>> \in Runs!Cells /\ <<s, n>> # x
        BY <1>1, <1>3, <2>1 DEF Runs!Cells
    <3> QED
        BY <1>4, <3>1
  <2>2. v.pc \in {"submit", "failing"} => v.n \in 1..Runs!Total
      BY <1>2 DEF BenchCounts
  <2>3. \A n \in 1..Runs!Total : n > v.n => cell'[<<s, n>>] = "none"
      BY <1>2, <2>1 DEF BenchRows
  <2> QED
      BY <1>2, <2>1, <2>2, <2>3 DEF BenchRows
<1>6. BenchMoves(s, v, cell')
  <2>1. ASSUME NEW y \in Runs!Cells, y[1] = s, BenchSettled(y, session[s], cell) PROVE BenchSettled(y, v, cell')
      BY <1>4, <2>1 DEF BenchSettled, v
  <2>2. \A y \in Runs!Cells : y[1] # s => cell'[y] = cell[y]
      BY <1>4
  <2> QED
      BY <1>1, <1>2, <1>4, <1>5, <2>1, <2>2 DEF BenchMoves
<1>7. BenchPublishes(publisher', published')
    BY BenchQuietHas, BenchPublisherMoves DEF Runs!Ends
<1> QED
    BY <1>2, <1>6, <1>7, BenchStep

LEMMA BenchRead ==
    ASSUME BenchInv, NEW x \in Runs!Cells, Runs!Read(x) PROVE BenchInv'
<1>1. CASE Runs!Whole(x) /\ publisher' = [publisher EXCEPT ![x] = [pc |-> "post", rows |-> Runs!Rows(x)]]
  <2>1. Runs!Rows(x) = {y \in Runs!Cells : Runs!GroupOf(y) = Runs!GroupOf(x)}
      BY <1>1, BenchAllRows DEF Runs!Siblings
  <2>2. ASSUME NEW y \in Runs!Rows(x) PROVE BenchSettled(y, session[y[1]], cell)
      BY <1>1, <2>2 DEF Runs!Whole, Runs!Terminal, Runs!Ended, BenchSettled
  <2>3. BenchWhole(Runs!GroupOf(x), Runs!Rows(x), session, cell)
      BY <2>1, <2>2 DEF BenchWhole
  <2>4. publisher' \in [Runs!Cells -> [pc : {"none", "has", "read", "post"}, rows : SUBSET Runs!Cells]]
      BY <1>1, <2>1 DEF BenchInv
  <2>5. BenchPublishes(publisher', published')
      BY <1>1, <2>3, <2>4 DEF BenchPublishes, BenchInv, Runs!Read
  <2> QED
      BY <2>5, BenchPublisherStep DEF Runs!Read
<1>2. CASE publisher' = [publisher EXCEPT ![x] = Runs!Quiet]
    BY <1>2, BenchQuietHas, BenchPublisherMoves, BenchPublisherStep DEF Runs!Read
<1> QED
    BY <1>1, <1>2 DEF Runs!Read

(* What is posted, or lost on its way, is what the publisher holds.          *)
LEMMA BenchPost ==
    ASSUME BenchInv, NEW x \in Runs!Cells, publisher[x].pc = "post",
           published' \in {published, published \cup {Runs!Sent(x)}},
           publisher' = [publisher EXCEPT ![x] = Runs!Quiet], UNCHANGED <<session, cell>>
    PROVE  BenchInv'
<1>1. BenchWhole(Runs!GroupOf(x), publisher[x].rows, session, cell)
    BY DEF BenchInv
<1>2. BenchWhole(Runs!Sent(x).group, Runs!Sent(x).rows, session, cell)
    BY <1>1 DEF Runs!Sent
<1>3. publisher' \in [Runs!Cells -> [pc : {"none", "has", "read", "post"}, rows : SUBSET Runs!Cells]]
    BY BenchQuietHas DEF BenchInv
<1>4. Runs!Quiet.pc = "none"
    BY DEF Runs!Quiet
<1>5. BenchPublishes(publisher', published')
    BY <1>2, <1>3, <1>4 DEF BenchPublishes, BenchInv
<1> QED
    BY <1>5, BenchPublisherStep

LEMMA BenchRestart ==
    ASSUME BenchInv, Runs!Restart PROVE BenchInv'
<1>1. session' \in [Pair -> BenchSession] /\ \A s \in Pair : session'[s].n = session[s].n
  <2>1. ASSUME NEW s \in Pair PROVE session[s] \in BenchSession /\ [session[s] EXCEPT !.pc = "502"] \in BenchSession
      BY DEF BenchInv, BenchSession, BenchStates
  <2>2. \A s \in Pair : session'[s] \in {session[s], [session[s] EXCEPT !.pc = "502"]}
      BY DEF Runs!Restart
  <2>3. \A s \in Pair : [session[s] EXCEPT !.pc = "502"].n = session[s].n
      BY <2>1 DEF BenchSession
  <2> QED
      BY <2>1, <2>2, <2>3 DEF Runs!Restart
<1>2. \A s \in Pair : session'[s].pc \in {"idle", "done", "refused", "502"} /\ (session'[s].pc = "idle" => session'[s] = session[s])
  <2>1. ASSUME NEW s \in Pair PROVE [session[s] EXCEPT !.pc = "502"].pc = "502"
      BY DEF BenchInv, BenchSession
  <2> QED
      BY <2>1 DEF Runs!Restart
<1>3. cell' \in [Runs!Cells -> BenchCell]
       /\ \A x \in Runs!Cells : cell'[x] = IF cell[x] = "failing" THEN "queued" ELSE cell[x]
    BY DEF Runs!Restart, BenchInv, BenchCell
<1>4. ASSUME NEW s \in Pair PROVE BenchCounts(session'[s]) /\ BenchRows(s, session'[s], cell')
  <2>1. BenchCounts(session[s]) /\ BenchRows(s, session[s], cell)
      BY DEF BenchInv
  <2>2. \A n \in 1..Runs!Total : <<s, n>> \in Runs!Cells
      BY DEF Runs!Cells
  <2>3. BenchCounts(session'[s])
      BY <1>1, <1>2, <2>1 DEF BenchCounts
  <2>4. BenchRows(s, session'[s], cell')
      BY <1>1, <1>2, <1>3, <2>1, <2>2 DEF BenchRows
  <2> QED
      BY <2>3, <2>4
<1>5. ASSUME NEW x \in Runs!Cells, BenchSettled(x, session[x[1]], cell) PROVE BenchSettled(x, session'[x[1]], cell')
    BY <1>2, <1>3, <1>5, BenchCellParts DEF BenchSettled
<1>6. \A p \in published' : BenchWhole(p.group, p.rows, session', cell')
    BY <1>5 DEF BenchInv, BenchWhole, Runs!Restart
<1>7. publisher' \in [Runs!Cells -> [pc : {"none", "has", "read", "post"}, rows : SUBSET Runs!Cells]]
       /\ \A x \in Runs!Cells : publisher'[x].pc = "none"
    BY DEF Runs!Restart, Runs!Quiet
<1> QED
    BY <1>1, <1>3, <1>4, <1>6, <1>7 DEF BenchInv

LEMMA BenchNext == BenchInv /\ [Runs!NextBench]_Runs!bvars => BenchInv'
<1> SUFFICES ASSUME BenchInv, [Runs!NextBench]_Runs!bvars PROVE BenchInv'
    OBVIOUS
<1>1. ASSUME NEW s \in Pair,
             Runs!Ask(s) \/ Runs!Count(s) \/ Runs!Daily(s) \/ Runs!Start(s) \/ Runs!Submit(s) \/ Runs!SubmitFails(s)
               \/ Runs!Commit(s) \/ Runs!Throws(s)
      PROVE  BenchInv'
    BY <1>1, BenchRequest
<1>2. ASSUME NEW x \in Runs!Cells, Runs!Ends(x) PROVE BenchInv'
    BY <1>2, BenchEnds
<1>3. ASSUME NEW x \in Runs!Cells, Runs!Again(x) PROVE BenchInv'
    BY <1>3, BenchQuietHas, BenchPublisherMoves, BenchPublisherStep DEF Runs!Again
<1>4. ASSUME NEW x \in Runs!Cells, Runs!Has(x) PROVE BenchInv'
  <2> DEFINE pc == IF Runs!GroupOf(x) \in publishing THEN "none" ELSE "read"
             w == [publisher[x] EXCEPT !.pc = pc]
  <2>1. w \in [pc : {"none", "has", "read"}, rows : SUBSET Runs!Cells]
      BY DEF BenchInv
  <2>2. publisher' = [publisher EXCEPT ![x] = w] /\ UNCHANGED <<session, cell, published>>
      BY <1>4 DEF Runs!Has
  <2> HIDE DEF w
  <2> QED
      BY <2>1, <2>2, BenchPublisherMoves, BenchPublisherStep
<1>5. ASSUME NEW x \in Runs!Cells, Runs!Read(x) PROVE BenchInv'
    BY <1>5, BenchRead
<1>6. ASSUME NEW x \in Runs!Cells, Runs!Post(x) \/ Runs!PostFails(x) PROVE BenchInv'
    BY <1>6, BenchPost DEF Runs!Post, Runs!PostFails
<1>7. CASE Runs!Midnight
    BY <1>7, BenchPublishersStay, BenchPublisherStep DEF Runs!Midnight
<1>8. CASE Runs!Restart
    BY <1>8, BenchRestart
<1>9. CASE UNCHANGED Runs!bvars
    BY <1>9, BenchPublishersStay, BenchPublisherStep DEF Runs!bvars
<1> QED
    BY <1>1, <1>2, <1>3, <1>4, <1>5, <1>6, <1>7, <1>8, <1>9 DEF Runs!NextBench

(* What Bench is sent of a run has every task of its group, none of them     *)
(* still to be started or at work (bench-publisher.js onTaskTerminal), for   *)
(* any number of requests, groups and tasks: a publisher that counts as many *)
(* rows as the benchmark has tasks has counted the whole group, and a cell   *)
(* it saw ended is never started again.                                      *)
THEOREM SentRunsAreWhole == Runs!Spec => []PublishedWhole
<1>1. BenchInv => PublishedWhole
    BY DEF BenchInv, BenchWhole, BenchSettled, PublishedWhole, Runs!PublishedWhole
<1> QED
    BY <1>1, BenchInitial, BenchNext, PTL DEF Runs!Spec
-----------------------------------------------------------------------------
(* The proof of a finished attempt (ProofRun).                               *)

PfStages == {"package", "tests", "pages", "files", "wait", "routes", "judge", "diff", "review", "over",
             "thrown", "crashed"}
PfProof ==
    [stage : PfStages, start : BOOLEAN, test : {"none", "script", "other"}, width : {1, 2},
     left : SUBSET (Statics \cup Routes), shots : SUBSET {"clean", "bad"}, skipped : SUBSET {1, 2}, bad : SUBSET {1, 2}]
PfSeen ==
    [tests : {"none"} \cup Proof!Results, shot : SUBSET {1, 2}, bad : SUBSET {1, 2}, unlit : SUBSET {1, 2},
     author : Families \cup {"none"}, reviewer : Families \cup {"none"}, reply : Proof!Replies]
PfItems == [Proof!Kinds -> {"none", "passed", "failed", "skipped"}]
PfSites == [{1, 2} -> {"none", "starting", "up", "signalled", "gone"}]

(* What the tests came to is what their item says.                           *)
PfTests(p, i, v) ==
    /\ p.stage \in {"package", "tests"} => v.tests = "none"
    /\ p.stage # "thrown" => /\ i["tests"] = "passed" <=> v.tests = "zero"
                             /\ v.tests = "nonzero" => i["tests"] = "failed"

(* A bad page is among the shots of this width or in the answer of another,  *)
(* unless the site of its width did not start.                               *)
PfPages(p, i, v, g) ==
    /\ p.stage \notin {"thrown", "crashed"} =>
        \A w \in v.bad : \/ w \in p.bad \/ w \in v.unlit
                         \/ w = p.width /\ "bad" \in p.shots /\ p.stage \in {"files", "wait", "routes"}
    /\ p.stage \in {"files", "wait", "routes", "judge"} \/ p.bad # {} => g.static # {} \/ g.rendered
    /\ p.stage \in {"diff", "review", "over"} /\ p.bad # {} => i["screenshots"] = "failed"

(* A width that has its answer was skipped or shot; one whose site did not   *)
(* start was skipped, so pictures that passed are those of another.          *)
PfShown(p, i, v) ==
    /\ v.unlit \subseteq p.skipped
    /\ p.stage \in {"files", "wait", "routes"} /\ p.shots # {} => p.width \in v.shot
    /\ p.stage \in {"pages", "files", "wait", "routes", "judge"} /\ p.width = 2 => 1 \in p.skipped \cup v.shot
    /\ p.stage = "judge" => p.width = 2 /\ 2 \in p.skipped \cup v.shot
    /\ p.stage \in {"package", "tests"} => p.width = 1
    /\ p.stage \in {"package", "tests", "pages"} => p.shots = {}
    /\ p.stage \in {"diff", "review", "over"} /\ i["screenshots"] = "passed" => v.shot \ (v.bad \cup v.unlit) # {}

(* A reviewer that answers as it was asked to is taken at its word.          *)
PfTaken(r) == Proof!AsAsked(r) => ~r.refuses

(* Nobody reviewed before the last step; then the item is what was answered. *)
PfReview(p, i, v) ==
    /\ p.stage # "over" => v.reviewer = "none"
    /\ i["review"] = "passed" /\ p.stage = "over" =>
        v.reviewer \notin {"none", v.author} /\ PfTaken(v.reply)
    /\ v.reviewer # "none" /\ i["review"] # "failed" => v.reviewer # v.author

(* A site that runs is the one that is waited for or shot.                   *)
PfSite(p, s) ==
    \A w \in {1, 2} : s[w] \in {"starting", "up"} => w = p.width /\ p.stage \in {"wait", "routes"}

PfInv ==
    /\ change \in Proof!Changes
    /\ proof \in PfProof /\ seen \in PfSeen /\ item \in PfItems /\ site \in PfSites
    /\ PfTests(proof, item, seen) /\ PfPages(proof, item, seen, change) /\ PfReview(proof, item, seen)
    /\ PfShown(proof, item, seen) /\ PfSite(proof, site)

LEMMA PfWidths == Proof!Widths = {1, 2} /\ Proof!Max(Proof!Widths) = 2
    BY DEF Proof!Widths, Proof!Max

LEMMA PfInitial == Proof!InitProof => PfInv
<1> SUFFICES ASSUME Proof!InitProof PROVE PfInv
    OBVIOUS
<1>1. proof \in PfProof /\ proof.stage = "package" /\ proof.bad = {} /\ proof.width = 1 /\ proof.shots = {}
    BY DEF Proof!InitProof, PfProof, PfStages
<1>2. seen \in PfSeen /\ seen.tests = "none" /\ seen.bad = {} /\ seen.unlit = {} /\ seen.reviewer = "none"
    BY DEF Proof!InitProof, PfSeen, Proof!NoReply, Proof!Replies
<1>3. item \in PfItems /\ \A k \in Proof!Kinds : item[k] = "none"
    BY DEF Proof!InitProof, PfItems
<1>4. site \in PfSites /\ \A w \in {1, 2} : site[w] = "none"
    BY PfWidths DEF Proof!InitProof, PfSites
<1>5. PfTests(proof, item, seen) /\ PfPages(proof, item, seen, change) /\ PfReview(proof, item, seen)
       /\ PfShown(proof, item, seen)
    BY <1>1, <1>2, <1>3 DEF PfTests, PfPages, PfReview, PfShown, Proof!Kinds
<1>6. PfSite(proof, site)
    BY <1>4 DEF PfSite
<1> QED
    BY <1>1, <1>2, <1>3, <1>4, <1>5, <1>6 DEF PfInv, Proof!InitProof

(* What a step of the stage alone changes.                                   *)
LEMMA PfGoto ==
    ASSUME PfInv, NEW stage \in PfStages, Proof!Goto(stage)
    PROVE  /\ proof' \in PfProof /\ proof'.stage = stage /\ proof'.width = proof.width
           /\ proof'.bad = proof.bad /\ proof'.shots = proof.shots
       /\ proof'.skipped = proof.skipped
    BY DEF PfInv, Proof!Goto, PfProof

LEMMA PfSay ==
    ASSUME PfInv, NEW kind \in Proof!Kinds, NEW how \in {"passed", "failed", "skipped"}, Proof!Say(kind, how)
    PROVE  item' \in PfItems /\ item'[kind] = how /\ \A k \in Proof!Kinds \ {kind} : item'[k] = item[k]
    BY DEF PfInv, Proof!Say, PfItems

(* What the answer of one width leaves.                                      *)
LEMMA PfAnswered ==
    ASSUME PfInv, NEW skipped \in BOOLEAN, NEW bad \in BOOLEAN, Proof!Answered(skipped, bad)
    PROVE  /\ proof' \in PfProof /\ proof'.stage \in {"judge", "pages"}
           /\ proof'.bad = IF bad THEN proof.bad \cup {proof.width} ELSE proof.bad
           /\ proof'.skipped = IF skipped THEN proof.skipped \cup {proof.width} ELSE proof.skipped
           /\ proof'.shots = {}
           /\ \/ proof.width = 1 /\ proof'.stage = "pages" /\ proof'.width = 2
              \/ proof.width = 2 /\ proof'.stage = "judge" /\ proof'.width = 2
<1> DEFINE st == IF proof.width = Proof!Max(Proof!Widths) THEN "judge" ELSE "pages"
           wd == IF proof.width = Proof!Max(Proof!Widths) THEN proof.width ELSE proof.width + 1
           sk == IF skipped THEN proof.skipped \cup {proof.width} ELSE proof.skipped
           bd == IF bad THEN proof.bad \cup {proof.width} ELSE proof.bad
           b == [proof EXCEPT !.stage = st]
           c == [b EXCEPT !.width = wd]
           d == [c EXCEPT !.left = {}]
           e == [d EXCEPT !.shots = {}]
           f == [e EXCEPT !.skipped = sk]
           g == [f EXCEPT !.bad = bd]
<1>1. proof \in PfProof
    BY DEF PfInv
<1>2. /\ st \in {"judge", "pages"} /\ wd = 2 /\ wd \in {1, 2}
      /\ (proof.width = 1 /\ st = "pages") \/ (proof.width = 2 /\ st = "judge")
      /\ sk \in SUBSET {1, 2} /\ bd \in SUBSET {1, 2}
  <2>1. proof.width \in {1, 2} /\ proof.skipped \in SUBSET {1, 2} /\ proof.bad \in SUBSET {1, 2}
      BY <1>1 DEF PfProof
  <2>2. CASE proof.width = 1
      BY <2>1, <2>2, PfWidths
  <2>3. CASE proof.width = 2
      BY <2>1, <2>3, PfWidths
  <2> QED
      BY <2>1, <2>2, <2>3
<1>3. proof' = g
  <2>1. b.width = proof.width /\ c.left = proof.left /\ e.skipped = proof.skipped /\ f.bad = proof.bad
      BY <1>1 DEF PfProof
  <2> QED
      BY <1>1, <2>1 DEF Proof!Answered, PfProof
<1> HIDE DEF st, wd, sk
<1>4. b \in PfProof /\ b.stage = st
    BY <1>1, <1>2 DEF PfProof, PfStages
<1> HIDE DEF b
<1>5. c \in PfProof /\ c.stage = st /\ c.width = wd
    BY <1>2, <1>4 DEF PfProof
<1> HIDE DEF c
<1>6. d \in PfProof /\ d.stage = st /\ d.width = wd
    BY <1>5 DEF PfProof
<1> HIDE DEF d
<1>7. e \in PfProof /\ e.stage = st /\ e.width = wd /\ e.shots = {}
    BY <1>6 DEF PfProof
<1> HIDE DEF e
<1>8. f \in PfProof /\ f.stage = st /\ f.width = wd /\ f.shots = {} /\ f.skipped = sk
    BY <1>2, <1>7 DEF PfProof
<1> HIDE DEF f
<1>9. g \in PfProof /\ g.stage = st /\ g.bad = bd /\ g.width = wd /\ g.shots = {} /\ g.skipped = sk
  <2> HIDE DEF bd
  <2> QED
      BY <1>2, <1>8 DEF PfProof
<1> HIDE DEF g
<1> QED
    BY <1>2, <1>3, <1>9 DEF sk

LEMMA PfReads ==
    ASSUME PfInv, Proof!ReadPackage PROVE PfInv'
<1>1. PICK test \in {"none", "script", "other"}, start \in BOOLEAN :
        proof' = [proof EXCEPT !.stage = "tests", !.test = test, !.start = start]
    BY DEF Proof!ReadPackage
<1> DEFINE b == [proof EXCEPT !.stage = "tests"]
           c == [b EXCEPT !.test = test]
           d == [c EXCEPT !.start = start]
<1>2. proof \in PfProof /\ proof.stage = "package"
    BY DEF PfInv, Proof!ReadPackage, Proof!At
<1>3. proof' = d
    BY <1>1, <1>2 DEF PfProof
<1>4. b \in PfProof /\ b.stage = "tests" /\ b.width = proof.width /\ b.bad = proof.bad /\ b.skipped = proof.skipped /\ b.shots = proof.shots
    BY <1>2 DEF PfProof, PfStages
<1> HIDE DEF b
<1>5. c \in PfProof /\ c.stage = "tests" /\ c.width = proof.width /\ c.bad = proof.bad /\ c.skipped = proof.skipped /\ c.shots = proof.shots
    BY <1>4 DEF PfProof
<1> HIDE DEF c
<1>6. d \in PfProof /\ d.stage = "tests" /\ d.width = proof.width /\ d.bad = proof.bad /\ d.skipped = proof.skipped /\ d.shots = proof.shots
    BY <1>5 DEF PfProof
<1> HIDE DEF d
<1> QED
    BY <1>2, <1>3, <1>6 DEF PfInv, PfTests, PfPages, PfReview, PfShown, PfSite, Proof!ReadPackage

LEMMA PfRunsTests ==
    ASSUME PfInv, Proof!Tests PROVE PfInv'
<1>1. proof' \in PfProof /\ proof'.stage = "pages" /\ proof'.width = proof.width
       /\ proof'.bad = proof.bad /\ proof'.shots = proof.shots
       /\ proof'.skipped = proof.skipped
    BY PfGoto DEF Proof!Tests, PfStages
<1>2. proof.stage = "tests" /\ seen.tests = "none" /\ seen \in PfSeen
    BY DEF PfInv, PfTests, Proof!Tests, Proof!At
<1>3. CASE Proof!Say("tests", "skipped") /\ UNCHANGED seen
  <2>1. item' \in PfItems /\ item'["tests"] = "skipped" /\ item'["review"] = item["review"]
      BY <1>3, PfSay DEF Proof!Kinds
  <2> QED
      BY <1>1, <1>2, <1>3, <2>1 DEF PfInv, PfTests, PfPages, PfReview, PfShown, PfSite, Proof!Tests
<1>4. ASSUME NEW result \in Proof!Results, Proof!Say("tests", Proof!TestItem(result)),
             seen' = [seen EXCEPT !.tests = result]
      PROVE  PfInv'
  <2>1. Proof!TestItem(result) \in {"passed", "failed", "skipped"}
         /\ (Proof!TestItem(result) = "passed" <=> result = "zero")
         /\ (result = "nonzero" => Proof!TestItem(result) = "failed")
      BY DEF Proof!TestItem, Proof!Results
  <2>2. item' \in PfItems /\ item'["tests"] = Proof!TestItem(result) /\ item'["review"] = item["review"]
      BY <1>4, <2>1, PfSay DEF Proof!Kinds
  <2>3. seen' \in PfSeen /\ seen'.tests = result /\ seen'.bad = seen.bad /\ seen'.unlit = seen.unlit
         /\ seen'.reviewer = seen.reviewer /\ seen'.author = seen.author /\ seen'.reply = seen.reply
      BY <1>2, <1>4 DEF PfSeen
  <2> QED
      BY <1>1, <1>2, <2>1, <2>2, <2>3 DEF PfInv, PfTests, PfPages, PfReview, PfShown, PfSite, Proof!Tests
<1> QED
    BY <1>3, <1>4 DEF Proof!Tests

(* The steps between the tests and the review that say nothing of a page.    *)
LEMMA PfMoves ==
    ASSUME PfInv, NEW stage \in PfStages \ {"package", "tests", "over"}, Proof!Goto(stage),
           UNCHANGED <<change, item, seen>>, site' \in PfSites, PfSite(proof', site'),
           \/ stage \in {"wait", "crashed"} /\ proof.stage = "files"
           \/ stage = "review" /\ proof.stage = "diff"
    PROVE  PfInv'
<1>1. proof' \in PfProof /\ proof'.stage = stage /\ proof'.width = proof.width
       /\ proof'.bad = proof.bad /\ proof'.shots = proof.shots
       /\ proof'.skipped = proof.skipped
    BY PfGoto
<1> QED
    BY <1>1 DEF PfInv, PfTests, PfPages, PfReview, PfShown

LEMMA PfNoPages ==
    ASSUME PfInv, Proof!NoPages PROVE PfInv'
<1>1. proof' \in PfProof /\ proof'.stage = "diff" /\ proof'.width = proof.width
       /\ proof'.bad = proof.bad /\ proof'.shots = proof.shots
       /\ proof'.skipped = proof.skipped
    BY PfGoto DEF Proof!NoPages, PfStages
<1>2. item' \in PfItems /\ item'["screenshots"] = "skipped" /\ item'["tests"] = item["tests"]
       /\ item'["review"] = item["review"]
    BY PfSay DEF Proof!NoPages, Proof!Kinds
<1> QED
    BY <1>1, <1>2 DEF PfInv, PfTests, PfPages, PfReview, PfShown, PfSite, Proof!NoPages, Proof!PageFiles, Proof!At

(* A width is answered: its bad page is in the answer, or its site is unlit. *)
LEMMA PfAnswers ==
    ASSUME PfInv, NEW skipped \in BOOLEAN, NEW bad \in BOOLEAN, Proof!Answered(skipped, bad),
           UNCHANGED <<change, item>>, proof.stage \in {"pages", "files", "wait", "routes"},
           change.static # {} \/ change.rendered,
           \/ /\ UNCHANGED seen /\ proof.stage # "pages"
              /\ (bad <=> "bad" \in proof.shots) /\ (skipped <=> proof.shots = {})
           \/ UNCHANGED seen /\ proof.stage = "pages" /\ ~bad /\ skipped
           \/ seen' = [seen EXCEPT !.unlit = @ \cup {proof.width}] /\ ~bad /\ skipped,
           site' \in PfSites, \A w \in {1, 2} : site'[w] \notin {"starting", "up"}
    PROVE  PfInv'
<1>1. /\ proof' \in PfProof /\ proof'.stage \in {"judge", "pages"}
      /\ proof'.bad = IF bad THEN proof.bad \cup {proof.width} ELSE proof.bad
      /\ proof'.skipped = IF skipped THEN proof.skipped \cup {proof.width} ELSE proof.skipped
      /\ proof'.shots = {}
      /\ \/ proof.width = 1 /\ proof'.stage = "pages" /\ proof'.width = 2
         \/ proof.width = 2 /\ proof'.stage = "judge" /\ proof'.width = 2
    BY PfAnswered
<1>2. proof.width \in {1, 2} /\ proof.bad \in SUBSET {1, 2} /\ seen \in PfSeen
    BY DEF PfInv, PfProof
<1>3. seen' \in PfSeen /\ seen'.tests = seen.tests /\ seen'.bad = seen.bad /\ seen'.reviewer = seen.reviewer
       /\ seen'.author = seen.author /\ seen'.reply = seen.reply /\ seen.unlit \subseteq seen'.unlit
       /\ (seen' = seen \/ proof.width \in seen'.unlit) /\ seen'.shot = seen.shot
       /\ (seen'.unlit = seen.unlit \/ (skipped /\ seen'.unlit = seen.unlit \cup {proof.width}))
  <2>1. CASE UNCHANGED seen
      BY <1>2, <2>1
  <2>2. CASE seen' = [seen EXCEPT !.unlit = @ \cup {proof.width}] /\ skipped
      BY <1>2, <2>2 DEF PfSeen
  <2> QED
      BY <2>1, <2>2
<1>4. ASSUME NEW w \in seen'.bad PROVE w \in proof'.bad \/ w \in seen'.unlit
  <2>1. \/ w \in proof.bad \/ w \in seen.unlit
        \/ w = proof.width /\ "bad" \in proof.shots /\ proof.stage \in {"files", "wait", "routes"}
      BY <1>3 DEF PfInv, PfPages
  <2>2. proof.bad \subseteq proof'.bad /\ (bad => proof.width \in proof'.bad)
      BY <1>1
  <2>3. "bad" \in proof.shots /\ proof.stage \in {"files", "wait", "routes"} => bad \/ proof.width \in seen'.unlit
      BY <1>2 DEF PfSeen
  <2> QED
      BY <1>3, <2>1, <2>2, <2>3
<1>5. PfTests(proof', item', seen') /\ PfReview(proof', item', seen')
    BY <1>1, <1>3 DEF PfInv, PfTests, PfReview
<1>6. PfPages(proof', item', seen', change')
    BY <1>1, <1>4 DEF PfPages
<1>7. PfShown(proof', item', seen')
  <2>1. seen'.unlit \subseteq proof'.skipped
      BY <1>1, <1>3 DEF PfInv, PfShown
  <2>2. proof.width \in proof'.skipped \cup seen'.shot
    <3>1. CASE skipped
        BY <1>1, <3>1
    <3>2. CASE ~skipped
        BY <1>3, <3>2 DEF PfInv, PfShown
    <3> QED
        BY <3>1, <3>2
  <2>3. proof.width = 2 => 1 \in proof'.skipped \cup seen'.shot
      BY <1>1, <1>3 DEF PfInv, PfShown
  <2> QED
      BY <1>1, <2>1, <2>2, <2>3 DEF PfShown
<1> QED
    BY <1>1, <1>3, <1>5, <1>6, <1>7 DEF PfInv, PfSite

LEMMA PfScreenshot ==
    ASSUME PfInv, Proof!Screenshot PROVE PfInv'
<1>1. proof \in PfProof /\ proof.stage = "pages" /\ (change.static # {} \/ change.rendered)
       /\ UNCHANGED <<change, site, item, seen>> /\ change.static \subseteq Statics
    BY DEF PfInv, Proof!Screenshot, Proof!At, Proof!PageFiles, Proof!Changes
<1>2. CASE Proof!Answered(TRUE, FALSE)
  <2>1. site' \in PfSites /\ \A w \in {1, 2} : site'[w] \notin {"starting", "up"}
      BY <1>1 DEF PfInv, PfSite
  <2> QED
      BY <1>1, <1>2, <2>1, PfAnswers
<1>3. CASE proof' = [proof EXCEPT !.stage = "files", !.left = change.static]
  <2> DEFINE b == [proof EXCEPT !.stage = "files"]
             c == [b EXCEPT !.left = change.static]
  <2>1. proof' = c
      BY <1>1, <1>3 DEF PfProof
  <2>2. b \in PfProof /\ b.stage = "files" /\ b.width = proof.width /\ b.bad = proof.bad /\ b.skipped = proof.skipped
         /\ b.shots = proof.shots
      BY <1>1 DEF PfProof, PfStages
  <2> HIDE DEF b
  <2>3. c \in PfProof /\ c.stage = "files" /\ c.width = proof.width /\ c.bad = proof.bad /\ c.skipped = proof.skipped
         /\ c.shots = proof.shots
      BY <1>1, <2>2 DEF PfProof
  <2> HIDE DEF c
  <2> QED
      BY <1>1, <2>1, <2>3 DEF PfInv, PfTests, PfPages, PfReview, PfShown, PfSite
<1> QED
    BY <1>2, <1>3 DEF Proof!Screenshot

LEMMA PfThrown ==
    ASSUME PfInv, Proof!NotCollected PROVE PfInv'
<1>1. proof' \in PfProof /\ proof'.stage = "thrown" /\ proof'.width = proof.width
       /\ proof'.bad = proof.bad /\ proof'.shots = proof.shots
       /\ proof'.skipped = proof.skipped
    BY PfGoto DEF Proof!NotCollected, PfStages
<1>2. item' \in PfItems /\ \A k \in Proof!Kinds : item'[k] = "none"
    BY DEF Proof!NotCollected, PfItems
<1>3. proof.stage = "pages"
    BY DEF Proof!NotCollected, Proof!At
<1> QED
    BY <1>1, <1>2, <1>3 DEF PfInv, PfTests, PfPages, PfReview, PfShown, PfSite, Proof!NotCollected, Proof!Kinds

(* A page is shot: bad is among the shots when it is seen.                   *)
LEMMA PfShot ==
    ASSUME PfInv, proof.stage \in {"files", "routes"}, NEW page, NEW looks \in {"clean", "bad"},
           Proof!Shot(page, looks), UNCHANGED <<change, site, item>>
    PROVE  PfInv'
<1> DEFINE b == [proof EXCEPT !.left = @ \ {page}]
           c == [b EXCEPT !.shots = proof.shots \cup {looks}]
<1>1. proof \in PfProof /\ seen \in PfSeen /\ proof.width \in {1, 2}
    BY DEF PfInv, PfProof
<1>2. proof' = c
  <2>1. b.shots = proof.shots
      BY <1>1 DEF PfProof
  <2> QED
      BY <1>1, <2>1 DEF Proof!Shot, PfProof
<1>3. b \in PfProof /\ b.stage = proof.stage /\ b.width = proof.width /\ b.bad = proof.bad /\ b.skipped = proof.skipped
    BY <1>1 DEF PfProof
<1> HIDE DEF b
<1>4. c \in PfProof /\ c.stage = proof.stage /\ c.width = proof.width /\ c.bad = proof.bad /\ c.skipped = proof.skipped
       /\ c.shots = proof.shots \cup {looks}
  <2>1. proof.shots \cup {looks} \in SUBSET {"clean", "bad"}
      BY <1>1 DEF PfProof
  <2> QED
      BY <1>3, <2>1 DEF PfProof
<1> HIDE DEF c
<1>5. seen' \in PfSeen /\ seen'.tests = seen.tests /\ seen'.unlit = seen.unlit /\ seen'.reviewer = seen.reviewer
       /\ seen'.author = seen.author /\ seen'.reply = seen.reply
       /\ seen'.shot = seen.shot \cup {proof.width}
       /\ (seen'.bad = seen.bad \/ (looks = "bad" /\ seen'.bad = seen.bad \cup {proof.width}))
  <2> DEFINE sh == seen.shot \cup {proof.width}
             bd == IF looks = "bad" THEN seen.bad \cup {proof.width} ELSE seen.bad
             e == [seen EXCEPT !.shot = sh]
             f == [e EXCEPT !.bad = bd]
  <2>1. sh \in SUBSET {1, 2} /\ bd \in SUBSET {1, 2}
      BY <1>1 DEF PfSeen
  <2>2. seen' = f
    <3>1. e.bad = seen.bad
        BY <1>1 DEF PfSeen
    <3> QED
        BY <1>1, <3>1 DEF Proof!Shot, PfSeen
  <2>3. bd = seen.bad \/ (looks = "bad" /\ bd = seen.bad \cup {proof.width})
      OBVIOUS
  <2> HIDE DEF sh, bd
  <2>4. e \in PfSeen /\ e.tests = seen.tests /\ e.unlit = seen.unlit /\ e.reviewer = seen.reviewer
         /\ e.author = seen.author /\ e.reply = seen.reply /\ e.shot = sh
      BY <1>1, <2>1 DEF PfSeen
  <2> HIDE DEF e
  <2>5. f \in PfSeen /\ f.tests = seen.tests /\ f.unlit = seen.unlit /\ f.reviewer = seen.reviewer
         /\ f.author = seen.author /\ f.reply = seen.reply /\ f.shot = sh /\ f.bad = bd
      BY <2>1, <2>4 DEF PfSeen
  <2> HIDE DEF f
  <2> QED
      BY <2>2, <2>3, <2>5 DEF sh
<1>6. \A w \in seen'.bad : w \in proof'.bad \/ w \in seen'.unlit \/ (w = proof'.width /\ "bad" \in proof'.shots)
    BY <1>2, <1>4, <1>5 DEF PfInv, PfPages
<1>7. PfShown(proof', item', seen')
    BY <1>2, <1>4, <1>5 DEF PfInv, PfShown
<1> QED
    BY <1>2, <1>4, <1>5, <1>6, <1>7 DEF PfInv, PfTests, PfPages, PfReview, PfSite

LEMMA PfShootFile ==
    ASSUME PfInv, Proof!ShootFile PROVE PfInv'
<1>1. PICK f \in proof.left : \/ \E looks \in {"clean", "bad"} : Proof!Shot(f, looks)
                              \/ proof' = [proof EXCEPT !.left = @ \ {f}] /\ UNCHANGED seen
    BY DEF Proof!ShootFile
<1>2. proof.stage = "files" /\ UNCHANGED <<change, site, item>> /\ proof \in PfProof
    BY DEF Proof!ShootFile, Proof!At, PfInv
<1>3. CASE proof' = [proof EXCEPT !.left = @ \ {f}] /\ UNCHANGED seen
  <2>1. proof' \in PfProof /\ proof'.stage = proof.stage /\ proof'.width = proof.width /\ proof'.bad = proof.bad
         /\ proof'.shots = proof.shots /\ proof'.skipped = proof.skipped
      BY <1>2, <1>3 DEF PfProof
  <2> QED
      BY <1>2, <1>3, <2>1 DEF PfInv, PfTests, PfPages, PfReview, PfShown, PfSite
<1> QED
    BY <1>1, <1>2, <1>3, PfShot

(* The site of a width.                                                      *)
LEMMA PfStops ==
    ASSUME PfInv, site' = [site EXCEPT ![proof.width] = Proof!Stopped(@)]
    PROVE  site' \in PfSites /\ \A w \in {1, 2} : site'[w] \notin {"starting", "up"}
<1>1. proof.width \in {1, 2} /\ site \in PfSites
    BY DEF PfInv, PfProof
<1>2. \A x \in {"none", "starting", "up", "signalled", "gone"} :
        Proof!Stopped(x) \in {"none", "signalled", "gone"}
    BY DEF Proof!Stopped
<1>3. site[proof.width] \in {"none", "starting", "up", "signalled", "gone"}
    BY <1>1 DEF PfSites
<1>4. \A w \in {1, 2} \ {proof.width} : site[w] \notin {"starting", "up"}
    BY DEF PfInv, PfSite
<1> QED
    BY <1>1, <1>2, <1>3, <1>4 DEF PfSites

LEMMA PfStarts ==
    ASSUME PfInv, Proof!NamedSite \/ Proof!StartSite \/ Proof!NotSpawned PROVE PfInv'
<1>1. proof.stage = "files" /\ UNCHANGED <<change, item, seen>> /\ site \in PfSites /\ proof.width \in {1, 2}
    BY DEF Proof!NamedSite, Proof!StartSite, Proof!NotSpawned, Proof!FilesShot, Proof!At, PfInv, PfProof
<1>2. \A w \in {1, 2} : site[w] \notin {"starting", "up"}
    BY <1>1 DEF PfInv, PfSite
<1>3. CASE Proof!NamedSite \/ Proof!NotSpawned
  <2>1. PICK stage \in {"wait", "crashed"} : Proof!Goto(stage) /\ UNCHANGED site
      BY <1>3 DEF Proof!NamedSite, Proof!NotSpawned
  <2>2. site' \in PfSites /\ PfSite(proof', site')
      BY <1>1, <1>2, <2>1 DEF PfSite
  <2> QED
      BY <1>1, <2>1, <2>2, PfMoves DEF PfStages
<1>4. CASE Proof!StartSite
  <2>1. Proof!Goto("wait") /\ site' = [site EXCEPT ![proof.width] = "starting"]
      BY <1>4 DEF Proof!StartSite
  <2>2. proof'.width = proof.width /\ proof'.stage = "wait"
      BY <2>1, PfGoto DEF PfStages
  <2>3. site' \in PfSites /\ PfSite(proof', site')
      BY <1>1, <1>2, <2>1, <2>2 DEF PfSite, PfSites
  <2> QED
      BY <1>1, <2>1, <2>3, PfMoves DEF PfStages
<1> QED
    BY <1>3, <1>4

LEMMA PfSiteAnswers ==
    ASSUME PfInv, Proof!SiteAnswers PROVE PfInv'
<1> DEFINE b == [proof EXCEPT !.stage = "routes"]
           c == [b EXCEPT !.left = Routes]
<1>1. proof \in PfProof /\ proof.stage = "wait" /\ site \in PfSites /\ proof.width \in {1, 2}
       /\ UNCHANGED <<change, item, seen>>
    BY DEF PfInv, Proof!SiteAnswers, Proof!At, PfProof
<1>2. proof' = c
    BY <1>1 DEF Proof!SiteAnswers, PfProof
<1>3. b \in PfProof /\ b.stage = "routes" /\ b.width = proof.width /\ b.bad = proof.bad /\ b.skipped = proof.skipped /\ b.shots = proof.shots
    BY <1>1 DEF PfProof, PfStages
<1> HIDE DEF b
<1>4. c \in PfProof /\ c.stage = "routes" /\ c.width = proof.width /\ c.bad = proof.bad /\ c.skipped = proof.skipped /\ c.shots = proof.shots
    BY <1>3 DEF PfProof
<1> HIDE DEF c
<1>5. site' \in PfSites /\ PfSite(proof', site')
    BY <1>1, <1>2, <1>4 DEF Proof!SiteAnswers, PfSite, PfSites, PfInv
<1> QED
    BY <1>1, <1>2, <1>4, <1>5 DEF PfInv, PfTests, PfPages, PfReview, PfShown

(* The pictures are judged: a width that was bad fails them.                 *)
LEMMA PfPictures ==
    ASSUME PfInv, Proof!Pictures PROVE PfInv'
<1> DEFINE how == Proof!PictureItem(Proof!Widths \ proof.skipped, proof.bad)
<1>1. proof' \in PfProof /\ proof'.stage = "diff" /\ proof'.width = proof.width
       /\ proof'.bad = proof.bad /\ proof'.shots = proof.shots
       /\ proof'.skipped = proof.skipped
    BY PfGoto DEF Proof!Pictures, PfStages
<1>2. how \in {"passed", "failed", "skipped"} /\ (proof.bad # {} => how = "failed")
       /\ (how = "passed" => {1, 2} \ proof.skipped # {})
  <2>1. CASE proof.bad # {}
      BY <2>1 DEF Proof!PictureItem
  <2>2. CASE proof.bad = {}
      BY <2>2, PfWidths DEF Proof!PictureItem
  <2> QED
      BY <2>1, <2>2
<1>3. Proof!Say("screenshots", how) /\ proof.stage = "judge" /\ UNCHANGED <<change, site, seen>>
    BY DEF Proof!Pictures, Proof!At
<1> HIDE DEF how
<1>4. item' \in PfItems /\ item'["screenshots"] = how /\ item'["tests"] = item["tests"]
       /\ item'["review"] = item["review"]
    BY <1>2, <1>3, PfSay DEF Proof!Kinds
<1>5. PfShown(proof', item', seen')
  <2>1. ASSUME how = "passed" PROVE seen.shot \ (seen.bad \cup seen.unlit) # {}
    <3>1. PICK w \in {1, 2} : w \notin proof.skipped
        BY <1>2, <2>1
    <3>2. w \in seen.shot /\ w \notin seen.unlit /\ proof.bad = {}
        BY <1>2, <1>3, <2>1, <3>1 DEF PfInv, PfShown
    <3>3. w \notin seen.bad
        BY <1>3, <3>2 DEF PfInv, PfPages
    <3> QED
        BY <3>2, <3>3
  <2> QED
      BY <1>1, <1>3, <1>4, <2>1 DEF PfInv, PfShown
<1> QED
    BY <1>1, <1>2, <1>3, <1>4, <1>5 DEF PfInv, PfTests, PfPages, PfReview, PfSite

LEMMA PfDiff ==
    ASSUME PfInv, Proof!DiffItem PROVE PfInv'
<1>1. proof' \in PfProof /\ proof'.stage = "review" /\ proof'.width = proof.width
       /\ proof'.bad = proof.bad /\ proof'.shots = proof.shots
       /\ proof'.skipped = proof.skipped
    BY PfGoto DEF Proof!DiffItem, PfStages
<1>2. item' \in PfItems /\ \A k \in {"tests", "screenshots", "review"} : item'[k] = item[k]
    BY PfSay DEF Proof!DiffItem, Proof!Kinds
<1>3. proof.stage = "diff" /\ UNCHANGED <<change, site, seen>>
    BY DEF Proof!DiffItem, Proof!At
<1> QED
    BY <1>1, <1>2, <1>3 DEF PfInv, PfTests, PfPages, PfReview, PfShown, PfSite

(* The model that is asked is of a known family, and not of the author's.    *)
LEMMA PfChosen ==
    ASSUME NEW models \in Catalogs, NEW author \in Proof!AuthorFamily, Proof!Reviewers(models, author) # {}
    PROVE  /\ Proof!PickReviewer(models, author) \in Families \cup {"none"}
           /\ Proof!MayReview(Proof!PickReviewer(models, author), author)
<1> DEFINE S == Proof!Reviewers(models, author)
<1>1. models \in Seq(Families \cup {"none"})
    BY CatalogAssumption
<1>2. S \in SUBSET Nat /\ S \subseteq DOMAIN models /\ \A i \in S : Proof!MayReview(models[i], author)
    BY <1>1 DEF Proof!Reviewers
<1> HIDE DEF S
<1>3. \E i \in S : \A j \in S : i <= j
    BY <1>2, LeastNumber DEF S
<1>4. Proof!Min(S) \in S
    BY <1>3 DEF Proof!Min
<1>5. Proof!PickReviewer(models, author) = models[Proof!Min(S)]
    BY DEF Proof!PickReviewer, S
<1>6. Proof!Min(S) \in DOMAIN models /\ Proof!MayReview(models[Proof!Min(S)], author)
    BY <1>2, <1>4
<1>7. models[Proof!Min(S)] \in Families \cup {"none"}
    BY <1>1, <1>6
<1> QED
    BY <1>5, <1>6, <1>7

(* The last item: whoever reviewed, a pass is an approval by another family. *)
LEMMA PfLast ==
    ASSUME PfInv, proof.stage = "review", Proof!Goto("over"), UNCHANGED <<change, site>>,
           NEW how \in {"passed", "failed", "skipped"}, Proof!Say("review", how), seen' \in PfSeen,
           seen'.tests = seen.tests /\ seen'.bad = seen.bad /\ seen'.unlit = seen.unlit /\ seen'.shot = seen.shot,
           how = "passed" => seen'.reviewer \notin {"none", seen'.author} /\ PfTaken(seen'.reply),
           how # "failed" /\ seen'.reviewer # "none" => seen'.reviewer # seen'.author
    PROVE  PfInv'
<1>1. proof' \in PfProof /\ proof'.stage = "over" /\ proof'.width = proof.width
       /\ proof'.bad = proof.bad /\ proof'.shots = proof.shots
       /\ proof'.skipped = proof.skipped
    BY PfGoto DEF PfStages
<1>2. item' \in PfItems /\ item'["review"] = how /\ \A k \in {"tests", "screenshots"} : item'[k] = item[k]
    BY PfSay DEF Proof!Kinds
<1>3. PfReview(proof', item', seen')
    BY <1>1, <1>2 DEF PfReview
<1>4. PfPages(proof', item', seen', change')
    BY <1>1, <1>2 DEF PfPages, PfInv
<1>5. PfShown(proof', item', seen')
    BY <1>1, <1>2 DEF PfShown, PfInv
<1> QED
    BY <1>1, <1>2, <1>3, <1>4, <1>5 DEF PfInv, PfTests, PfSite

LEMMA PfReviews ==
    ASSUME PfInv, Proof!NoReviewer \/ Proof!ReviewFails \/ Proof!Reviewed PROVE PfInv'
<1>1. proof.stage = "review" /\ Proof!Goto("over") /\ UNCHANGED <<change, site>> /\ seen \in PfSeen
       /\ seen.reviewer = "none"
    BY DEF PfInv, PfReview, Proof!NoReviewer, Proof!ReviewFails, Proof!Reviewed, Proof!At
<1>2. CASE Proof!NoReviewer
    BY <1>1, <1>2, PfLast DEF Proof!NoReviewer
<1>3. CASE Proof!ReviewFails
  <2>1. PICK f, a : Proof!Say("review", Proof!ReviewItem(f, a, "changes_requested")) /\ UNCHANGED seen
      BY <1>3 DEF Proof!ReviewFails
  <2>2. Proof!ReviewItem(f, a, "changes_requested") = "failed"
      BY DEF Proof!ReviewItem
  <2> QED
      BY <1>1, <2>1, <2>2, PfLast
<1>4. CASE Proof!Reviewed
  <2>1. PICK models \in Catalogs, author \in Proof!AuthorFamily, answered \in Proof!FamilyOf, r \in Proof!Replies :
          /\ Proof!Reviewers(models, author) # {}
          /\ LET pick == Proof!PickReviewer(models, author)
                 family == Proof!Resolved(answered, pick)
             IN  /\ Proof!Say("review", Proof!ReviewItem(family, author, Proof!ReadVerdict(r)))
                 /\ seen' = [seen EXCEPT !.author = author,
                                         !.reviewer = IF answered = "none" THEN pick ELSE answered,
                                         !.reply = r]
      BY <1>4 DEF Proof!Reviewed
  <2> DEFINE pick == Proof!PickReviewer(models, author)
             family == IF answered = "none" THEN pick ELSE answered
             how == Proof!ReviewItem(family, author, Proof!ReadVerdict(r))
             b == [seen EXCEPT !.author = author]
             c == [b EXCEPT !.reviewer = family]
             d == [c EXCEPT !.reply = r]
  <2>2. pick \in Families \cup {"none"} /\ pick # "none"
      BY <2>1, PfChosen DEF Proof!MayReview
  <2>3. family \in Families \cup {"none"} /\ family # "none" /\ author \in Families \cup {"none"}
      BY <2>2 DEF Proof!FamilyOf, Proof!AuthorFamily
  <2>4. how \in {"passed", "failed"} /\ (how = "passed" => family # author /\ PfTaken(r))
      BY DEF Proof!ReviewItem, Proof!ReadVerdict, Proof!AsAsked, PfTaken
  <2>5. Proof!Say("review", how) /\ seen' = d
      BY <1>1, <2>1 DEF Proof!Resolved, PfSeen
  <2> HIDE DEF family, how
  <2>6. b \in PfSeen /\ b.author = author /\ b.tests = seen.tests /\ b.bad = seen.bad /\ b.unlit = seen.unlit
         /\ b.shot = seen.shot
      BY <1>1, <2>3 DEF PfSeen
  <2> HIDE DEF b
  <2>7. c \in PfSeen /\ c.author = author /\ c.reviewer = family /\ c.tests = seen.tests /\ c.bad = seen.bad
         /\ c.unlit = seen.unlit /\ c.shot = seen.shot
      BY <2>3, <2>6 DEF PfSeen
  <2> HIDE DEF c
  <2>8. d \in PfSeen /\ d.author = author /\ d.reviewer = family /\ d.reply = r /\ d.tests = seen.tests
         /\ d.bad = seen.bad /\ d.unlit = seen.unlit /\ d.shot = seen.shot
      BY <2>7 DEF PfSeen
  <2> HIDE DEF d
  <2> QED
      BY <1>1, <2>3, <2>4, <2>5, <2>8, PfLast
<1> QED
    BY <1>2, <1>3, <1>4

LEMMA PfNext == PfInv /\ [Proof!NextProof]_Proof!pvars => PfInv'
<1> SUFFICES ASSUME PfInv, [Proof!NextProof]_Proof!pvars PROVE PfInv'
    OBVIOUS
<1>wants. Proof!WantSite => change.static # {} \/ change.rendered
    BY DEF Proof!WantSite
<1>pages. proof.stage \in {"files", "wait", "routes"} => change.static # {} \/ change.rendered
    BY DEF PfInv, PfPages
<1>1. CASE Proof!FilesDone
  <2>1. proof.stage = "files" /\ Proof!Answered(proof.shots = {}, "bad" \in proof.shots)
         /\ UNCHANGED <<change, site, item, seen>>
      BY <1>1 DEF Proof!FilesDone, Proof!AnswerShots, Proof!At
  <2>2. site' \in PfSites /\ \A w \in {1, 2} : site'[w] \notin {"starting", "up"}
      BY <2>1 DEF PfInv, PfSite
  <2>3. (proof.shots = {}) \in BOOLEAN /\ ("bad" \in proof.shots) \in BOOLEAN
      OBVIOUS
  <2> QED
      BY <1>pages, <2>1, <2>2, <2>3, PfAnswers
<1>2. CASE Proof!NoPort
  <2>1. proof.stage = "files" /\ Proof!Answered(TRUE, FALSE) /\ UNCHANGED <<change, site, item>>
         /\ seen' = [seen EXCEPT !.unlit = @ \cup {proof.width}]
      BY <1>2 DEF Proof!NoPort, Proof!FilesShot, Proof!Unlit, Proof!At
  <2>2. site' \in PfSites /\ \A w \in {1, 2} : site'[w] \notin {"starting", "up"}
      BY <2>1 DEF PfInv, PfSite
  <2> QED
      BY <1>pages, <2>1, <2>2, PfAnswers
<1>3. CASE Proof!SiteSilent
  <2>1. proof.stage = "wait" /\ Proof!Answered(TRUE, FALSE) /\ UNCHANGED <<change, item>>
         /\ seen' = [seen EXCEPT !.unlit = @ \cup {proof.width}]
         /\ site' = [site EXCEPT ![proof.width] = Proof!Stopped(@)]
      BY <1>3 DEF Proof!SiteSilent, Proof!Unlit, Proof!At
  <2> QED
      BY <1>pages, <2>1, PfStops, PfAnswers
<1>4. CASE Proof!StopSite
  <2>1. proof.stage = "routes" /\ Proof!Answered(proof.shots = {}, "bad" \in proof.shots)
         /\ UNCHANGED <<change, item, seen>> /\ site' = [site EXCEPT ![proof.width] = Proof!Stopped(@)]
      BY <1>4 DEF Proof!StopSite, Proof!AnswerShots, Proof!At
  <2>2. (proof.shots = {}) \in BOOLEAN /\ ("bad" \in proof.shots) \in BOOLEAN
      OBVIOUS
  <2> QED
      BY <1>pages, <2>1, <2>2, PfStops, PfAnswers
<1>5. CASE Proof!SiteExits
  <2>1. site' \in PfSites /\ \A w \in {1, 2} : site'[w] \in {"starting", "up"} => site[w] \in {"starting", "up"}
      BY <1>5, PfWidths DEF Proof!SiteExits, PfInv, PfSites
  <2> QED
      BY <1>5, <2>1 DEF PfInv, PfSite, Proof!SiteExits
<1>6. CASE Proof!ShootRoute
    BY <1>6, PfShot DEF Proof!ShootRoute, Proof!At
<1>7. CASE UNCHANGED Proof!pvars
    BY <1>7 DEF PfInv, Proof!pvars
<1> QED
    BY <1>1, <1>2, <1>3, <1>4, <1>5, <1>6, <1>7, PfReads, PfRunsTests, PfNoPages, PfScreenshot, PfThrown,
       PfShootFile, PfStarts, PfSiteAnswers, PfPictures, PfDiff, PfReviews
       DEF Proof!NextProof

(* A proof stands on what was seen (engine/proof.js collectProof), for any    *)
(* pages, routes, models and families: tests that ended with zero, a width   *)
(* whose pages were shot and were all good, a reviewer of another family     *)
(* that did not refuse in the words it was asked for.  A bad page is in its  *)
(* width's answer unless that width's site did not start.                    *)
THEOREM ProofsStandOnWhatWasSeen == Proof!Spec => []DoneIsShown
<1>1. ASSUME PfInv PROVE Proof!DoneIsShown
  <2> SUFFICES ASSUME proof.stage = "over"
               PROVE  /\ item["tests"] = "passed" <=> seen.tests = "zero"
                      /\ item["screenshots"] = "passed" => seen.shot \ (seen.bad \cup seen.unlit) # {}
                      /\ item["review"] = "passed" => /\ seen.reviewer \notin {"none", seen.author}
                                                      /\ PfTaken(seen.reply)
                      /\ Proof!OutcomeOf = "done" => /\ seen.tests # "nonzero"
                                                     /\ seen.bad \subseteq seen.unlit
                                                     /\ seen.reviewer # "none" => seen.reviewer # seen.author
      BY DEF Proof!DoneIsShown, Proof!Over, Proof!At, PfTaken
  <2>1. Proof!OutcomeOf = "done" => \A k \in Proof!Kinds : item[k] # "failed"
      BY DEF Proof!OutcomeOf
  <2> QED
      BY <1>1, <2>1 DEF PfInv, PfTests, PfPages, PfReview, PfShown, Proof!Kinds
<1>2. PfInv => DoneIsShown
    BY <1>1 DEF DoneIsShown
<1> QED
    BY <1>2, PfInitial, PfNext, PTL DEF Proof!Spec

(* No site that the job brought up is left without having been told to stop  *)
(* (harness/proof.js startSite), whatever failed: one that runs is the one   *)
(* that is waited for or shot.                                               *)
THEOREM NoSiteIsLeft == Proof!Spec => []SitesAreStopped
<1>1. PfInv => SitesAreStopped
    BY PfWidths DEF PfInv, PfSite, SitesAreStopped, Proof!SitesAreStopped, Proof!At
<1> QED
    BY <1>1, PfInitial, PfNext, PTL DEF Proof!Spec

-----------------------------------------------------------------------------
(* The money of a task (RunTokens).                                          *)

TokAttempt == [state : {"queued", "running", "ended"}, mode : {"none", "ai"}, reported : Nat]
TokHand ==
    [pc : {"idle", "remaining", "stopped", "mint", "register", "record", "submit"}, left : Nat, read : Nat]

(* What one attempt can cost at most.                                        *)
TokMost == Cap + MaxCost - 1

TokTypes ==
    /\ attempt \in Seq(TokAttempt) /\ job \in Seq({"none", "runs", "over"})
    /\ budget \in Seq(Nat) /\ used \in Seq(Nat)
    /\ Len(job) = Len(attempt) /\ Len(budget) = Len(attempt) /\ Len(used) = Len(attempt)
    /\ hand \in TokHand
    /\ faults \in Nat

(* Where the handler is says how far the last attempt is; the ones before    *)
(* it have ended.                                                            *)
TokPlaces ==
    /\ \A a \in 1..Len(attempt) : a < Len(attempt) => attempt[a].state = "ended"
    /\ hand.left <= Cap
    /\ hand.pc \in {"remaining", "stopped"} => hand.read <= Len(attempt)
    /\ hand.pc \in {"remaining", "stopped"} /\ Len(attempt) > 0 => attempt[Len(attempt)].state = "ended"
    /\ hand.pc \in {"mint", "register", "record", "submit"} =>
        Len(attempt) > 0 /\ attempt[Len(attempt)].state = "queued" /\ job[Len(attempt)] = "none"
    /\ hand.pc \in {"mint", "register", "record"} => attempt[Len(attempt)].mode = "none" /\ hand.left > 0
    /\ hand.pc = "record" => budget[Len(attempt)] = hand.left

(* An attempt spends through a token with a budget, up to it and one         *)
(* request's cost beyond.                                                    *)
TokSpends ==
    \A a \in 1..Len(attempt) :
        /\ attempt[a].mode = "none" => used[a] = 0
        /\ attempt[a].mode = "ai" => budget[a] \in 1..Cap /\ used[a] <= budget[a] + MaxCost - 1
        /\ attempt[a].state = "queued" => job[a] = "none" /\ used[a] = 0

(* An attempt whose cost the next one's reading sees: it has a trace, and    *)
(* once it has ended its job spends no more.                                 *)
TokSeen(a) == attempt[a].mode = "ai" => a \in traced /\ (attempt[a].state = "ended" => job[a] # "runs")

TokBooked(b, s, a) ==
    \/ b[a] = b[a - 1] + TokMost /\ s[a] = s[a - 1]
    \/ b[a] = b[a - 1] /\ s[a] = s[a - 1] + used[a] /\ TokSeen(a)

(* The books of a task: an attempt is seen, or a fault pays for it (b); s is *)
(* what the attempts that are seen have spent, and w pays for the counters   *)
(* that were not read.  What is left for the next attempt, or was given to   *)
(* the last one, is what the ones that are seen left of the budget, if no    *)
(* counter was missed just now.                                              *)
TokBooks(b, s, w) ==
    /\ b \in [0..Len(attempt) -> Nat] /\ s \in [0..Len(attempt) -> Nat] /\ w \in Nat
    /\ b[0] = 0 /\ s[0] = 0
    /\ \A a \in 1..Len(attempt) : TokBooked(b, s, a)
    /\ b[Len(attempt)] + w <= faults * TokMost
    /\ s[Len(attempt)] <= TokMost + w
    /\ hand.pc = "remaining" /\ hand.left > 0 => s[Len(attempt)] <= w \/ hand.left + s[hand.read] <= Cap
    /\ hand.pc \in {"mint", "register", "record"} => s[Len(attempt)] <= w \/ hand.left + s[Len(attempt)] <= Cap
    /\ Len(attempt) > 0 /\ attempt[Len(attempt)].state # "ended" /\ attempt[Len(attempt)].mode = "ai" =>
        s[Len(attempt) - 1] <= w \/ budget[Len(attempt)] + s[Len(attempt) - 1] <= Cap

TokInv == TokTypes /\ TokPlaces /\ TokSpends /\ \E b, s, w : TokBooks(b, s, w)

(* What the attempts spent can be added up from the first one on: each sum   *)
(* that is defined can be extended by one more.                              *)
LEMMA TokSum ==
    ASSUME NEW N \in Nat, NEW u \in [1..N -> Nat]
    PROVE  \E g \in [0..N -> Nat] : g = [n \in 0..N |-> IF n = 0 THEN 0 ELSE g[n - 1] + u[n]]
<1> DEFINE Has(m) == \E g \in [0..m -> Nat] : g[0] = 0 /\ \A n \in 1..m : g[n] = g[n - 1] + u[n]
           Lacks == {m \in 0..N : ~Has(m)}
<1>1. Has(0)
  <2> DEFINE g == [n \in 0..0 |-> 0]
  <2>1. g \in [0..0 -> Nat] /\ g[0] = 0 /\ \A n \in 1..0 : g[n] = g[n - 1] + u[n]
      OBVIOUS
  <2> HIDE DEF g
  <2> QED
      BY <2>1
<1>2. ASSUME NEW m \in Nat, m + 1 \in 0..N, Has(m) PROVE Has(m + 1)
  <2>1. PICK g \in [0..m -> Nat] : g[0] = 0 /\ \A n \in 1..m : g[n] = g[n - 1] + u[n]
      BY <1>2
  <2> DEFINE k == [n \in 0..(m + 1) |-> IF n = m + 1 THEN g[m] + u[m + 1] ELSE g[n]]
  <2>2. u[m + 1] \in Nat /\ g[m] \in Nat
      BY <1>2
  <2>3. k \in [0..(m + 1) -> Nat] /\ k[0] = 0
      BY <2>1, <2>2
  <2>4. ASSUME NEW n \in 1..(m + 1) PROVE k[n] = k[n - 1] + u[n]
    <3>1. n - 1 \in 0..(m + 1) /\ n \in 0..(m + 1) /\ n - 1 # m + 1 /\ k[n - 1] = g[n - 1]
        BY <1>2
    <3>2. CASE n = m + 1
        BY <3>1, <3>2
    <3>3. CASE n # m + 1
        BY <2>1, <3>1, <3>3
    <3> QED
        BY <3>2, <3>3
  <2> HIDE DEF k
  <2> QED
      BY <2>3, <2>4
<1> HIDE DEF Has
<1>3. Lacks = {}
  <2> SUFFICES ASSUME Lacks # {} PROVE FALSE
      OBVIOUS
  <2>1. PICK m \in Lacks : \A j \in Lacks : m <= j
      BY LeastNumber, Lacks \subseteq Nat
  <2>2. m \in 1..N /\ m - 1 \in Nat /\ m - 1 \in 0..N /\ m - 1 \notin Lacks
      BY <1>1, <2>1
  <2>3. Has(m - 1) /\ (m - 1) + 1 = m
      BY <2>2
  <2> QED
      BY <1>2, <2>1, <2>2, <2>3
<1>4. PICK g \in [0..N -> Nat] : g[0] = 0 /\ \A n \in 1..N : g[n] = g[n - 1] + u[n]
  <2>1. N \in 0..N /\ N \notin Lacks
      BY <1>3
  <2> QED
      BY <2>1 DEF Has
<1>5. \A n \in 0..N : g[n] = IF n = 0 THEN 0 ELSE g[n - 1] + u[n]
    BY <1>4
<1>6. g = [n \in 0..N |-> IF n = 0 THEN 0 ELSE g[n - 1] + u[n]]
    BY <1>5
<1> QED
    BY <1>6

(* That sum is what the model's recursive function says: a least place where *)
(* the two differ would have a predecessor where they do not.                *)
LEMMA TokSpentIs ==
    ASSUME Len(attempt) \in Nat, used \in [1..Len(attempt) -> Nat]
    PROVE  \E g \in [0..Len(attempt) -> Nat] :
              /\ g[0] = 0 /\ \A n \in 1..Len(attempt) : g[n] = g[n - 1] + used[n]
              /\ Token!SpentInAll = g[Len(attempt)]
<1> DEFINE N == Len(attempt)
           Is(g) == g = [n \in 0..N |-> IF n = 0 THEN 0 ELSE g[n - 1] + used[n]]
           upTo == CHOOSE g : Is(g)
<1>1. PICK f \in [0..N -> Nat] : Is(f)
    BY TokSum
<1>2. Is(upTo)
    BY <1>1
<1>3. \A g : Is(g) => g = f
  <2> SUFFICES ASSUME NEW g, Is(g) PROVE g = f
      OBVIOUS
  <2> DEFINE Apart == {n \in 0..N : g[n] # f[n]}
  <2>1. ASSUME NEW n \in 0..N PROVE g[n] = (IF n = 0 THEN 0 ELSE g[n - 1] + used[n]) /\ f[n] = (IF n = 0 THEN 0 ELSE f[n - 1] + used[n])
      BY <1>1
  <2>2. ASSUME Apart # {} PROVE FALSE
    <3>1. PICK n \in Apart : \A j \in Apart : n <= j
        BY <2>2, LeastNumber, Apart \subseteq Nat
    <3>2. n # 0
        BY <2>1, <3>1
    <3>3. n - 1 \in 0..N /\ n - 1 \notin Apart
        BY <3>1, <3>2
    <3> QED
        BY <2>1, <3>1, <3>2, <3>3
  <2>3. DOMAIN g = 0..N /\ g = [n \in DOMAIN g |-> g[n]] /\ DOMAIN f = 0..N
      OBVIOUS
  <2> QED
      BY <2>2, <2>3
<1>4. Token!SpentInAll = upTo[N]
    BY DEF Token!SpentInAll, Token!Now
<1>5. f[0] = 0 /\ \A n \in 1..N : f[n] = f[n - 1] + used[n]
    BY <1>1
<1> QED
    BY <1>1, <1>2, <1>3, <1>4, <1>5

(* What an attempt can cost is a number, its cap at least.                   *)
LEMMA TokNumbers == Cap \in Nat /\ MaxCost \in Nat /\ MaxCost > 0 /\ TokMost \in Nat /\ Cap <= TokMost
    BY BudgetAssumption DEF TokMost

(* One more fault pays for one more attempt.                                 *)
LEMMA TokOneMore == \A f \in Nat : f * TokMost \in Nat /\ (f + 1) * TokMost = f * TokMost + TokMost
    BY TokNumbers

LEMMA TokInitial == Token!InitTokens => TokInv
<1> SUFFICES ASSUME Token!InitTokens PROVE TokInv
    OBVIOUS
<1> USE DEF Token!InitTokens, Token!Idle
<1>1. TokTypes
    BY DEF TokTypes, TokHand
<1>2. TokPlaces /\ TokSpends
    BY TokNumbers DEF TokPlaces, TokSpends
<1>3. TokBooks([i \in 0..0 |-> 0], [i \in 0..0 |-> 0], 0)
    BY TokNumbers DEF TokBooks
<1> QED
    BY <1>1, <1>2, <1>3 DEF TokInv

(* A step of the handler that only reads.                                    *)
LEMMA TokReads ==
    ASSUME TokInv, UNCHANGED <<attempt, job, budget, used, traced>>,
           Token!Begin \/ Token!Spend \/ Token!SpendUnread \/ Token!StopsAtBudget \/ Token!Minted \/ Token!NotMinted
    PROVE  TokInv'
<1> USE DEF Token!At, Token!Goes, Token!Now
<1> DEFINE N == Len(attempt)
<1>1. N \in Nat /\ DOMAIN attempt = 1..N /\ DOMAIN used = 1..N /\ hand \in TokHand /\ faults \in Nat
    BY DEF TokInv, TokTypes
<1>2. PICK b, s, w : TokBooks(b, s, w)
    BY DEF TokInv
<1>0. \A a \in 1..N : attempt[a] \in TokAttempt
    BY DEF TokInv, TokTypes
<1>3. /\ b \in [0..N -> Nat] /\ s \in [0..N -> Nat] /\ w \in Nat /\ s[N] \in Nat /\ b[N] \in Nat
    BY <1>1, <1>2 DEF TokBooks
<1>4. ASSUME Token!Begin PROVE TokInv'
  <2>1. hand' = [pc |-> "remaining", left |-> Cap, read |-> 0] /\ faults' = faults
        /\ (N > 0 => attempt[N].state = "ended")
      BY <1>4 DEF Token!Begin
  <2>2. hand'.pc = "remaining" /\ hand'.left = Cap /\ hand'.read = 0
      BY <2>1
  <2>3. TokTypes' /\ TokPlaces' /\ TokSpends'
      BY <1>1, <2>1, <2>2, TokNumbers DEF TokInv, TokTypes, TokHand, TokPlaces, TokSpends
  <2>4. TokBooks(b, s, w)'
      BY <1>1, <1>2, <1>3, <2>1, <2>2, TokNumbers DEF TokBooks, TokBooked, TokSeen
  <2> QED
      BY <2>3, <2>4 DEF TokInv
<1>5. ASSUME Token!Spend PROVE TokInv'
  <2> DEFINE r == hand.read + 1
  <2>1. hand.pc = "remaining" /\ hand.read < N /\ faults' = faults
        /\ hand' = [hand EXCEPT !.read = hand.read + 1,
                                !.left = IF r \in traced THEN Token!Minus(hand.left, used[r]) ELSE hand.left]
      BY <1>5 DEF Token!Spend
  <2>2. r \in 1..N /\ used[r] \in Nat /\ hand.left \in Nat /\ hand.read \in 0..N /\ r - 1 = hand.read
      BY <1>1, <2>1 DEF TokInv, TokTypes, TokHand
  <2>3. hand'.pc = "remaining" /\ hand'.read = r
        /\ hand'.left = IF r \in traced THEN Token!Minus(hand.left, used[r]) ELSE hand.left
      BY <1>1, <2>1 DEF TokHand
  <2>4. /\ hand'.left \in Nat /\ hand'.left <= hand.left
        /\ r \in traced /\ hand'.left > 0 => hand'.left + used[r] = hand.left
      BY <2>2, <2>3 DEF Token!Minus
  <2>5. TokTypes' /\ TokPlaces' /\ TokSpends'
    <3>1. hand' \in TokHand
        BY <1>1, <2>1, <2>2, <2>3, <2>4, hand' = [pc |-> "remaining", left |-> hand'.left, read |-> r] DEF TokHand
    <3>2. TokTypes'
        BY <2>1, <3>1 DEF TokInv, TokTypes
    <3> QED
        BY <1>1, <2>1, <2>2, <2>3, <2>4, <3>2, TokNumbers DEF TokInv, TokPlaces, TokSpends
  <2>6. s[N] <= w \/ (hand'.left > 0 => hand'.left + s[r] <= Cap)
    <3> SUFFICES ASSUME ~(s[N] <= w), hand'.left > 0 PROVE hand'.left + s[r] <= Cap
        OBVIOUS
    <3>1. hand.left > 0
        BY <2>2, <2>4
    <3>2. hand.left + s[hand.read] <= Cap
        BY <1>2, <2>1, <3>1 DEF TokBooks
    <3>3. s[r] = s[hand.read] \/ (s[r] = s[hand.read] + used[r] /\ TokSeen(r))
        BY <1>2, <2>2 DEF TokBooks, TokBooked
    <3>4. s[r] \in Nat /\ s[hand.read] \in Nat
        BY <1>3, <2>2
    <3>5. TokSeen(r) => r \in traced \/ used[r] = 0
        BY <1>0, <2>2 DEF TokInv, TokSpends, TokSeen, TokTypes, TokAttempt
    <3> QED
        BY <2>2, <2>4, <3>2, <3>3, <3>4, <3>5, TokNumbers
  <2>7. TokBooks(b, s, w)'
      BY <1>1, <1>2, <1>3, <2>1, <2>3, <2>6, TokNumbers DEF TokBooks, TokBooked, TokSeen
  <2> QED
      BY <2>5, <2>7 DEF TokInv
<1>6. ASSUME Token!SpendUnread PROVE TokInv'
  <2> DEFINE r == hand.read + 1
             v == w + TokMost
  <2>1. hand.pc = "remaining" /\ hand.read < N /\ faults' = faults + 1
        /\ hand' = [hand EXCEPT !.read = hand.read + 1, !.left = Token!Minus(hand.left, attempt[r].reported)]
      BY <1>6 DEF Token!SpendUnread, Token!Faulty
  <2>2. r \in 1..N /\ attempt[r].reported \in Nat /\ hand.left \in Nat /\ hand.read \in Nat
      BY <1>0, <1>1, <2>1, r \in 1..N DEF TokHand, TokAttempt
  <2>3. hand'.pc = "remaining" /\ hand'.read = r /\ hand'.left = Token!Minus(hand.left, attempt[r].reported)
      BY <1>1, <2>1 DEF TokHand
  <2>4. hand'.left \in Nat /\ hand'.left <= hand.left
      BY <2>2, <2>3 DEF Token!Minus
  <2>5. TokTypes' /\ TokPlaces' /\ TokSpends'
    <3>1. hand' \in TokHand
        BY <1>1, <2>1, <2>2, <2>3, <2>4, hand' = [pc |-> "remaining", left |-> hand'.left, read |-> r] DEF TokHand
    <3>2. TokTypes'
        BY <1>1, <2>1, <3>1 DEF TokInv, TokTypes
    <3> QED
        BY <1>1, <2>1, <2>2, <2>3, <2>4, <3>2, TokNumbers DEF TokInv, TokPlaces, TokSpends
  <2>6. v \in Nat /\ s[N] <= v /\ b[N] + v <= faults' * TokMost /\ s[N] <= TokMost + v
    <3>1. b[N] + w <= faults * TokMost /\ s[N] <= TokMost + w
        BY <1>2 DEF TokBooks
    <3>2. faults * TokMost \in Nat /\ faults' * TokMost = faults * TokMost + TokMost
        BY <1>1, <2>1, TokOneMore
    <3> QED
        BY <1>3, <3>1, <3>2, TokNumbers
  <2> HIDE DEF v
  <2>7. TokBooks(b, s, v)'
      BY <1>1, <1>2, <1>3, <2>1, <2>3, <2>6, N > 0 => attempt[N].state = "ended"
      DEF TokBooks, TokBooked, TokSeen, TokInv, TokPlaces
  <2> QED
      BY <2>5, <2>7 DEF TokInv
<1>7. ASSUME Token!StopsAtBudget \/ Token!Minted \/ Token!NotMinted PROVE TokInv'
  <2>1. /\ faults' = faults
        /\ \/ hand.pc = "remaining" /\ hand' = [hand EXCEPT !.pc = "stopped"]
           \/ hand.pc = "mint" /\ hand' = [hand EXCEPT !.pc = "register"]
           \/ hand.pc = "mint" /\ hand' = [hand EXCEPT !.pc = "submit"]
      BY <1>7 DEF Token!StopsAtBudget, Token!Minted, Token!NotMinted
  <2>2. /\ hand'.left = hand.left /\ hand'.read = hand.read
        /\ \/ hand.pc = "remaining" /\ hand'.pc = "stopped"
           \/ hand.pc = "mint" /\ hand'.pc = "register"
           \/ hand.pc = "mint" /\ hand'.pc = "submit"
      BY <1>1, <2>1 DEF TokHand
  <2>3. TokTypes' /\ TokPlaces' /\ TokSpends'
    <3>1. hand' \in TokHand
        BY <1>1, <2>1 DEF TokHand
    <3>2. TokTypes'
        BY <2>1, <3>1 DEF TokInv, TokTypes
    <3> QED
        BY <1>1, <2>2, <3>2 DEF TokInv, TokPlaces, TokSpends
  <2>4. TokBooks(b, s, w)'
      BY <1>1, <1>2, <1>3, <2>1, <2>2 DEF TokBooks, TokBooked, TokSeen
  <2> QED
      BY <2>3, <2>4 DEF TokInv
<1> QED
    BY <1>4, <1>5, <1>6, <1>7

(* What is booked of an attempt stays while the attempt does.                *)
LEMMA TokBookedStays ==
    ASSUME NEW b, NEW s, NEW c, NEW t, NEW a, TokBooked(b, s, a),
           c[a] = b[a], c[a - 1] = b[a - 1], t[a] = s[a], t[a - 1] = s[a - 1],
           attempt'[a] = attempt[a], job'[a] = job[a], used'[a] = used[a], traced \subseteq traced'
    PROVE  TokBooked(c, t, a)'
  BY DEF TokBooked, TokSeen

LEMMA TokCreates ==
    ASSUME TokInv, Token!Create
    PROVE  TokInv'
<1> USE DEF Token!At, Token!Goes, Token!Now
<1> DEFINE N == Len(attempt)
           M == N + 1
<1>1. N \in Nat /\ hand \in TokHand /\ faults \in Nat /\ attempt \in Seq(TokAttempt)
      /\ job \in Seq({"none", "runs", "over"}) /\ budget \in Seq(Nat) /\ used \in Seq(Nat)
      /\ Len(job) = N /\ Len(budget) = N /\ Len(used) = N
    BY DEF TokInv, TokTypes
<1>2. PICK b, s, w : TokBooks(b, s, w)
    BY DEF TokInv
<1>3. /\ b \in [0..N -> Nat] /\ s \in [0..N -> Nat] /\ w \in Nat /\ s[N] \in Nat /\ b[N] \in Nat
    BY <1>1, <1>2 DEF TokBooks
<1>4. /\ hand.pc = "remaining" /\ hand.read = N /\ hand.left > 0 /\ hand.left <= Cap
      /\ hand' = [hand EXCEPT !.pc = "mint"] /\ UNCHANGED <<traced, faults>>
      /\ attempt' = Append(attempt, [state |-> "queued", mode |-> "none", reported |-> 0])
      /\ job' = Append(job, "none") /\ budget' = Append(budget, 0) /\ used' = Append(used, 0)
    BY <1>1 DEF Token!Create, Token!Exhausted, TokInv, TokPlaces, TokHand
<1>5. hand'.pc = "mint" /\ hand'.left = hand.left /\ hand' \in TokHand
    BY <1>1, <1>4 DEF TokHand
<1>6. /\ Len(attempt') = M /\ \A a \in 1..N : attempt'[a] = attempt[a] /\ job'[a] = job[a] /\ used'[a] = used[a] /\ budget'[a] = budget[a]
      /\ attempt'[M] = [state |-> "queued", mode |-> "none", reported |-> 0] /\ job'[M] = "none" /\ used'[M] = 0 /\ budget'[M] = 0
    BY <1>1, <1>4
<1>7. TokTypes'
    BY <1>1, <1>4, <1>5 DEF TokTypes, TokAttempt
<1>8. N > 0 => attempt[N].state = "ended"
    BY <1>4 DEF TokInv, TokPlaces
<1>9. TokPlaces' /\ TokSpends'
  <2>1. \A a \in 1..M : a = M \/ a \in 1..N
      BY <1>1
  <2>2. TokPlaces'
      BY <1>1, <1>4, <1>5, <1>6, <1>8, <2>1 DEF TokInv, TokPlaces
  <2>3. TokSpends'
      BY <1>6, <2>1 DEF TokInv, TokSpends
  <2> QED
      BY <2>2, <2>3
<1>14. ASSUME NEW f \in [0..N -> Nat]
       PROVE  \E g \in [0..M -> Nat] : g[M] = f[N] /\ \A i \in 0..N : g[i] = f[i]
  <2> DEFINE g == [i \in 0..M |-> IF i = M THEN f[N] ELSE f[i]]
  <2>1. g \in [0..M -> Nat] /\ g[M] = f[N] /\ \A i \in 0..N : g[i] = f[i]
      BY <1>1
  <2> HIDE DEF g
  <2> QED
      BY <2>1
<1>15. PICK c \in [0..M -> Nat] : c[M] = b[N] /\ \A i \in 0..N : c[i] = b[i]
    BY <1>3, <1>14
<1>16. PICK t \in [0..M -> Nat] : t[M] = s[N] /\ \A i \in 0..N : t[i] = s[i]
    BY <1>3, <1>14
<1>10. /\ \A i \in 0..N : c[i] = b[i] /\ t[i] = s[i]
       /\ c[M] = b[N] /\ t[M] = s[N]
    BY <1>15, <1>16
<1>11. ASSUME NEW a \in 1..M
       PROVE  TokBooked(c, t, a)'
  <2>1. CASE a = M
    <3>1. a - 1 = N /\ c[a] = c[a - 1] /\ t[a] = t[a - 1] /\ t[a] \in Nat
        BY <1>1, <1>3, <1>10, <2>1
    <3> QED
        BY <1>6, <2>1, <3>1 DEF TokSeen, TokBooked
  <2>2. CASE a \in 1..N
    <3>1. TokBooked(b, s, a) /\ a \in 0..N /\ a - 1 \in 0..N
        BY <1>1, <1>2, <2>2 DEF TokBooks
    <3> QED
        BY <1>4, <1>6, <1>10, <2>2, <3>1, TokBookedStays
  <2> QED
      BY <1>1, <2>1, <2>2
<1>12. s[N] <= w \/ hand.left + s[N] <= Cap
    BY <1>2, <1>4 DEF TokBooks
<1>17. c[0] = 0 /\ t[0] = 0
    BY <1>1, <1>2, <1>10 DEF TokBooks
<1>13. TokBooks(c, t, w)'
    BY <1>17, <1>1, <1>2, <1>3, <1>4, <1>5, <1>6, <1>10, <1>11, <1>12 DEF TokBooks
<1> QED
    BY <1>7, <1>9, <1>13 DEF TokInv

(* The last attempt gets its token, its trace and its job.                   *)
LEMMA TokHandsOut ==
    ASSUME TokInv,
           Token!Registered \/ Token!NotRegistered \/ Token!Recorded \/ Token!NotRecorded
           \/ Token!Submitted \/ Token!NotSubmitted \/ Token!SubmitLost
    PROVE  TokInv'
<1> USE DEF Token!At, Token!Goes, Token!Now
<1> DEFINE N == Len(attempt)
<1>1. N \in Nat /\ hand \in TokHand /\ faults \in Nat /\ attempt \in Seq(TokAttempt)
      /\ job \in Seq({"none", "runs", "over"}) /\ budget \in Seq(Nat) /\ used \in Seq(Nat)
      /\ Len(job) = N /\ Len(budget) = N /\ Len(used) = N
    BY DEF TokInv, TokTypes
<1>2. PICK b, s, w : TokBooks(b, s, w)
    BY DEF TokInv
<1>3. hand.pc \in {"register", "record", "submit"}
    BY DEF Token!Registered, Token!NotRegistered, Token!Recorded, Token!NotRecorded,
           Token!Submitted, Token!NotSubmitted, Token!SubmitLost
<1>4. /\ N > 0 /\ N \in 1..N /\ N \in 0..N /\ N - 1 \in 0..N /\ attempt[N].state = "queued" /\ job[N] = "none" /\ used[N] = 0
      /\ attempt[N] \in TokAttempt
    BY <1>1, <1>3 DEF TokInv, TokPlaces, TokSpends
<1>5. /\ b \in [0..N -> Nat] /\ s \in [0..N -> Nat] /\ w \in Nat /\ s[N] \in Nat /\ b[N] \in Nat
      /\ s[N - 1] \in Nat /\ b[N - 1] \in Nat /\ s[N] = s[N - 1] /\ b[N] >= b[N - 1]
      /\ (b[N] = b[N - 1] \/ b[N] = b[N - 1] + TokMost)
  <2>1. /\ b \in [0..N -> Nat] /\ s \in [0..N -> Nat] /\ w \in Nat /\ TokBooked(b, s, N)
      BY <1>2, <1>4 DEF TokBooks
  <2>2. b[N] \in Nat /\ b[N - 1] \in Nat /\ s[N] \in Nat /\ s[N - 1] \in Nat
      BY <1>1, <1>4, <2>1
  <2> QED
      BY <1>4, <2>1, <2>2, TokNumbers DEF TokBooked
<1>10. \A a \in 1..N : a \in 0..N /\ a - 1 \in 0..N /\ (a # N => a - 1 # N) /\ TokBooked(b, s, a)
  <2>1. \A a \in 1..N : TokBooked(b, s, a)
      BY <1>2 DEF TokBooks
  <2> QED
      BY <1>1, <2>1
<1>11. \E c \in [0..N -> Nat] : c[N] = b[N - 1] + TokMost /\ \A i \in 0..N : i # N => c[i] = b[i]
  <2> DEFINE c == [b EXCEPT ![N] = b[N - 1] + TokMost]
  <2>1. c \in [0..N -> Nat] /\ c[N] = b[N - 1] + TokMost /\ \A i \in 0..N : i # N => c[i] = b[i]
      BY <1>4, <1>5, TokNumbers
  <2> HIDE DEF c
  <2> QED
      BY <2>1
<1>12. N > 0 => b[0] = 0 /\ s[0] = 0
    BY <1>2 DEF TokBooks
<1>6. ASSUME Token!Registered \/ Token!NotRegistered PROVE TokInv'
  <2>1. hand.pc = "register" /\ attempt[N].mode = "none" /\ hand.left > 0 /\ hand.left <= Cap /\ hand.left \in Nat
      BY <1>1, <1>6 DEF Token!Registered, Token!NotRegistered, TokInv, TokPlaces, TokHand
  <2>2. /\ UNCHANGED <<attempt, job, used, traced, faults>>
        /\ \/ hand' = [hand EXCEPT !.pc = "record"] /\ budget' = [budget EXCEPT ![N] = hand.left]
           \/ hand' = [hand EXCEPT !.pc = "submit"] /\ budget' \in {budget, [budget EXCEPT ![N] = hand.left]}
      BY <1>6 DEF Token!Registered, Token!NotRegistered
  <2>3. /\ hand'.pc \in {"record", "submit"} /\ hand'.left = hand.left /\ hand' \in TokHand
        /\ hand'.pc = "record" => budget'[N] = hand.left
        /\ budget' \in Seq(Nat) /\ Len(budget') = N /\ \A a \in 1..N : a # N => budget'[a] = budget[a]
    <3>1. hand'.pc \in {"record", "submit"} /\ hand'.left = hand.left /\ hand' \in TokHand
        BY <1>1, <2>2 DEF TokHand
    <3>2. budget' \in {budget, [budget EXCEPT ![N] = hand.left]} /\ (hand'.pc = "record" => budget' = [budget EXCEPT ![N] = hand.left])
        BY <1>1, <2>2 DEF TokHand
    <3>3. budget' \in Seq(Nat) /\ Len(budget') = N /\ \A a \in 1..N : a # N => budget'[a] = budget[a]
        BY <1>1, <1>4, <2>1, <3>2
    <3>4. hand'.pc = "record" => budget'[N] = hand.left
        BY <1>1, <1>4, <2>1, <3>2
    <3> QED
        BY <3>1, <3>3, <3>4
  <2>4. TokTypes' /\ TokPlaces' /\ TokSpends'
    <3>1. TokTypes'
        BY <1>1, <1>4, <2>1, <2>2, <2>3 DEF TokInv, TokTypes
    <3>2. TokPlaces'
        BY <1>1, <1>4, <2>1, <2>2, <2>3 DEF TokInv, TokPlaces
    <3>3. TokSpends'
        BY <1>1, <1>4, <2>1, <2>2, <2>3 DEF TokInv, TokSpends
    <3> QED
        BY <3>1, <3>2, <3>3
  <2>5. TokBooks(b, s, w)'
      BY <1>1, <1>2, <1>4, <1>5, <2>1, <2>2, <2>3 DEF TokBooks, TokBooked, TokSeen
  <2> QED
      BY <2>4, <2>5 DEF TokInv
<1>7. ASSUME Token!Recorded \/ Token!NotRecorded PROVE TokInv'
  <2>1. hand.pc = "record" /\ budget[N] = hand.left /\ hand.left > 0 /\ hand.left <= Cap /\ hand.left \in Nat
      BY <1>1, <1>7 DEF Token!Recorded, Token!NotRecorded, TokInv, TokPlaces, TokHand
  <2>2. /\ UNCHANGED <<job, budget, used>> /\ hand' = [hand EXCEPT !.pc = "submit"]
        /\ attempt' = [attempt EXCEPT ![N].mode = "ai"]
        /\ \/ traced' = traced \cup {N} /\ faults' = faults
           \/ traced' = traced /\ faults' = faults + 1
      BY <1>7 DEF Token!Recorded, Token!NotRecorded, Token!Funded, Token!Faulty
  <2>3. /\ hand'.pc = "submit" /\ hand'.left = hand.left /\ hand' \in TokHand
        /\ attempt' \in Seq(TokAttempt) /\ Len(attempt') = N /\ \A a \in 1..N : a # N => attempt'[a] = attempt[a]
        /\ attempt'[N].mode = "ai" /\ attempt'[N].state = "queued"
    <3> DEFINE r == [attempt[N] EXCEPT !.mode = "ai"]
    <3>1. r \in TokAttempt /\ r.mode = "ai" /\ r.state = "queued"
        BY <1>4 DEF TokAttempt
    <3>2. attempt' = [attempt EXCEPT ![N] = r]
        BY <2>2
    <3> HIDE DEF r
    <3>3. hand'.pc = "submit" /\ hand'.left = hand.left /\ hand' \in TokHand
        BY <1>1, <2>2 DEF TokHand
    <3>4. /\ attempt' \in Seq(TokAttempt) /\ Len(attempt') = N /\ attempt'[N] = r
          /\ \A a \in 1..N : a # N => attempt'[a] = attempt[a]
        BY <1>1, <1>4, <3>1, <3>2
    <3> QED
        BY <3>1, <3>3, <3>4
  <2>4. TokTypes' /\ TokPlaces' /\ TokSpends'
    <3>1. TokTypes'
        BY <1>1, <1>4, <2>1, <2>2, <2>3, TokNumbers DEF TokInv, TokTypes
    <3>2. TokPlaces'
        BY <1>1, <1>4, <2>1, <2>2, <2>3, TokNumbers DEF TokInv, TokPlaces
    <3>3. TokSpends'
        BY <1>1, <1>4, <2>1, <2>2, <2>3, TokNumbers DEF TokInv, TokSpends
    <3> QED
        BY <3>1, <3>2, <3>3
  <2>5. s[N - 1] <= w \/ budget[N] + s[N - 1] <= Cap
      BY <1>2, <1>5, <2>1 DEF TokBooks
  <2>6. CASE traced' = traced \cup {N} /\ faults' = faults
    <3>2. ASSUME NEW a \in 1..N PROVE TokBooked(b, s, a)'
      <4>1. CASE a = N
          BY <1>4, <1>10, <2>2, <2>3, <2>6, <4>1 DEF TokBooked, TokSeen
      <4>2. CASE a # N
          BY <1>10, <2>2, <2>3, <4>2, TokBookedStays
      <4> QED
          BY <4>1, <4>2
    <3>1. TokBooks(b, s, w)'
        BY <1>1, <1>2, <1>4, <1>5, <2>2, <2>3, <2>5, <2>6, <3>2 DEF TokBooks
    <3> QED
        BY <2>4, <3>1 DEF TokInv
  <2>7. CASE traced' = traced /\ faults' = faults + 1
    <3>1. PICK c \in [0..N -> Nat] : c[N] = b[N - 1] + TokMost /\ \A i \in 0..N : i # N => c[i] = b[i]
        BY <1>11
    <3>2. c[N] + w <= faults' * TokMost
      <4>1. b[N] + w <= faults * TokMost /\ faults * TokMost \in Nat /\ faults' * TokMost = faults * TokMost + TokMost
          BY <1>1, <1>2, <2>7, TokOneMore DEF TokBooks
      <4>2. \A x, y, v, m \in Nat : x + v <= y => (x + m) + v <= y + m
          OBVIOUS
      <4>3. b[N] \in Nat /\ w \in Nat /\ TokMost \in Nat /\ c[N] = b[N] + TokMost
          BY <1>5, <3>1, TokNumbers
      <4> QED
          BY <4>1, <4>2, <4>3
    <3>4. ASSUME NEW a \in 1..N PROVE TokBooked(c, s, a)'
      <4>1. CASE a = N
          BY <1>5, <1>10, <3>1, <4>1 DEF TokBooked
      <4>2. CASE a # N
          BY <1>10, <2>2, <2>3, <3>1, <4>2, TokBookedStays
      <4> QED
          BY <4>1, <4>2
    <3>3. TokBooks(c, s, w)'
      <4>1. c \in [0..N -> Nat] /\ c[0] = 0 /\ Len(attempt') = N
        <5>1. 0 \in 0..N /\ 0 # N /\ b[0] = 0
            BY <1>1, <1>4, <1>12
        <5> QED
            BY <2>3, <3>1, <5>1
      <4>2. s[N] <= TokMost + w /\ s \in [0..N -> Nat] /\ w \in Nat /\ s[0] = 0
          BY <1>2 DEF TokBooks
      <4>3. budget'[N] = budget[N] /\ hand'.pc = "submit"
          BY <2>2, <2>3
      <4> QED
          BY <2>5, <3>2, <3>4, <4>1, <4>2, <4>3 DEF TokBooks
    <3> QED
        BY <2>4, <3>3 DEF TokInv
  <2> QED
      BY <2>2, <2>6, <2>7
<1>8. ASSUME Token!Submitted \/ Token!NotSubmitted PROVE TokInv'
  <2>1. hand.pc = "submit" /\ UNCHANGED <<budget, used, traced, faults>> /\ hand' = [hand EXCEPT !.pc = "idle"]
        /\ \/ job' = [job EXCEPT ![N] = "runs"] /\ attempt' = [attempt EXCEPT ![N].state = "running"]
           \/ job' = job /\ attempt' = [attempt EXCEPT ![N].state = "ended"]
      BY <1>8 DEF Token!Submitted, Token!NotSubmitted
  <2>2. /\ hand'.pc = "idle" /\ hand'.left = hand.left /\ hand' \in TokHand
        /\ attempt' \in Seq(TokAttempt) /\ Len(attempt') = N /\ \A a \in 1..N : a # N => attempt'[a] = attempt[a] /\ job'[a] = job[a]
        /\ attempt'[N].mode = attempt[N].mode /\ attempt'[N].state \in {"running", "ended"}
        /\ job' \in Seq({"none", "runs", "over"}) /\ Len(job') = N
        /\ \/ attempt'[N].state = "running" /\ job'[N] = "runs"
           \/ attempt'[N].state = "ended" /\ job'[N] = "none"
    <3>1. ASSUME NEW st \in {"running", "ended"}, attempt' = [attempt EXCEPT ![N].state = st]
          PROVE  /\ attempt' \in Seq(TokAttempt) /\ Len(attempt') = N /\ \A a \in 1..N : a # N => attempt'[a] = attempt[a]
                 /\ attempt'[N].mode = attempt[N].mode /\ attempt'[N].state = st
      <4> DEFINE r == [attempt[N] EXCEPT !.state = st]
      <4>1. r \in TokAttempt /\ r.mode = attempt[N].mode /\ r.state = st
          BY <1>4 DEF TokAttempt
      <4>2. attempt' = [attempt EXCEPT ![N] = r]
          BY <3>1
      <4> HIDE DEF r
      <4> QED
          BY <1>1, <1>4, <4>1, <4>2
    <3>2. hand'.pc = "idle" /\ hand'.left = hand.left /\ hand' \in TokHand
        BY <1>1, <2>1 DEF TokHand
    <3>3. CASE job' = [job EXCEPT ![N] = "runs"] /\ attempt' = [attempt EXCEPT ![N].state = "running"]
      <4>1. job' \in Seq({"none", "runs", "over"}) /\ Len(job') = N /\ job'[N] = "runs" /\ \A a \in 1..N : a # N => job'[a] = job[a]
          BY <1>1, <1>4, <3>3
      <4> QED
          BY <3>1, <3>2, <3>3, <4>1
    <3>4. CASE job' = job /\ attempt' = [attempt EXCEPT ![N].state = "ended"]
        BY <1>1, <1>4, <3>1, <3>2, <3>4
    <3> QED
        BY <2>1, <3>3, <3>4
  <2>3. TokTypes' /\ TokPlaces' /\ TokSpends'
    <3>1. TokTypes'
        BY <1>1, <1>4, <2>1, <2>2 DEF TokInv, TokTypes
    <3>2. TokPlaces'
        BY <1>1, <1>4, <2>1, <2>2 DEF TokInv, TokPlaces
    <3>3. TokSpends'
        BY <1>1, <1>4, <2>1, <2>2 DEF TokInv, TokSpends
    <3> QED
        BY <3>1, <3>2, <3>3
  <2>5. ASSUME NEW a \in 1..N PROVE TokBooked(b, s, a)'
    <3>1. CASE a = N
        BY <1>4, <1>10, <2>1, <2>2, <3>1 DEF TokBooked, TokSeen
    <3>2. CASE a # N
        BY <1>10, <2>1, <2>2, <3>2, TokBookedStays
    <3> QED
        BY <3>1, <3>2
  <2>4. TokBooks(b, s, w)'
      BY <1>1, <1>2, <1>4, <1>5, <2>1, <2>2, <2>5 DEF TokBooks
  <2> QED
      BY <2>3, <2>4 DEF TokInv
<1>9. ASSUME Token!SubmitLost PROVE TokInv'
  <2>1. hand.pc = "submit" /\ UNCHANGED <<budget, used, traced>> /\ faults' = faults + 1 /\ hand' = [hand EXCEPT !.pc = "idle"]
        /\ job' = [job EXCEPT ![N] = "runs"] /\ attempt' = [attempt EXCEPT ![N].state = "ended"]
      BY <1>9 DEF Token!SubmitLost, Token!Faulty
  <2>2. /\ hand'.pc = "idle" /\ hand'.left = hand.left /\ hand' \in TokHand
        /\ attempt' \in Seq(TokAttempt) /\ Len(attempt') = N /\ \A a \in 1..N : a # N => attempt'[a] = attempt[a] /\ job'[a] = job[a]
        /\ attempt'[N].mode = attempt[N].mode /\ attempt'[N].state = "ended"
        /\ job' \in Seq({"none", "runs", "over"}) /\ Len(job') = N
    <3> DEFINE r == [attempt[N] EXCEPT !.state = "ended"]
    <3>1. r \in TokAttempt /\ r.mode = attempt[N].mode /\ r.state = "ended"
        BY <1>4 DEF TokAttempt
    <3>2. attempt' = [attempt EXCEPT ![N] = r]
        BY <2>1
    <3> HIDE DEF r
    <3>3. hand'.pc = "idle" /\ hand'.left = hand.left /\ hand' \in TokHand
        BY <1>1, <2>1 DEF TokHand
    <3>4. attempt' \in Seq(TokAttempt) /\ Len(attempt') = N /\ attempt'[N] = r /\ \A a \in 1..N : a # N => attempt'[a] = attempt[a]
        BY <1>1, <1>4, <3>1, <3>2
    <3>5. job' \in Seq({"none", "runs", "over"}) /\ Len(job') = N /\ \A a \in 1..N : a # N => job'[a] = job[a]
        BY <1>1, <1>4, <2>1
    <3> QED
        BY <3>1, <3>3, <3>4, <3>5
  <2>3. TokTypes' /\ TokPlaces' /\ TokSpends'
    <3>1. TokTypes'
        BY <1>1, <1>4, <2>1, <2>2 DEF TokInv, TokTypes
    <3>2. TokPlaces'
        BY <1>1, <1>4, <2>1, <2>2 DEF TokInv, TokPlaces
    <3>3. TokSpends'
        BY <1>1, <1>4, <2>1, <2>2 DEF TokInv, TokSpends
    <3> QED
        BY <3>1, <3>2, <3>3
  <2>4. PICK c \in [0..N -> Nat] : c[N] = b[N - 1] + TokMost /\ \A i \in 0..N : i # N => c[i] = b[i]
      BY <1>11
  <2>5. c[N] + w <= faults' * TokMost
    <3>1. b[N] + w <= faults * TokMost /\ faults * TokMost \in Nat /\ faults' * TokMost = faults * TokMost + TokMost
        BY <1>1, <1>2, <2>1, TokOneMore DEF TokBooks
    <3> QED
        BY <1>5, <2>4, <3>1, TokNumbers
  <2>7. ASSUME NEW a \in 1..N PROVE TokBooked(c, s, a)'
    <3>1. CASE a = N
        BY <1>5, <1>10, <2>4, <3>1 DEF TokBooked
    <3>2. CASE a # N
        BY <1>10, <2>1, <2>2, <2>4, <3>2, TokBookedStays
    <3> QED
        BY <3>1, <3>2
  <2>8. /\ c[0] = 0 /\ s[0] = 0 /\ s[N] <= TokMost + w
        /\ hand'.pc \notin {"remaining", "mint", "register", "record"} /\ attempt'[N].state = "ended"
      BY <1>2, <1>4, <1>12, <2>2, <2>4 DEF TokBooks
  <2>6. TokBooks(c, s, w)'
      BY <1>5, <2>2, <2>5, <2>7, <2>8 DEF TokBooks
  <2> QED
      BY <2>3, <2>6 DEF TokInv
<1> QED
    BY <1>6, <1>7, <1>8, <1>9

(* OpenVibe.AI counts a request; a job ends.                                 *)
LEMMA TokWorks ==
    ASSUME TokInv, NEW a \in 1..Len(attempt),
           \/ \E cost \in 1..MaxCost : Token!Request(a, cost)
           \/ \E reported \in {0, used[a]} : Token!JobEnds(a, reported)
    PROVE  TokInv'
<1> DEFINE N == Len(attempt)
<1>1. N \in Nat /\ hand \in TokHand /\ faults \in Nat /\ attempt \in Seq(TokAttempt)
      /\ job \in Seq({"none", "runs", "over"}) /\ budget \in Seq(Nat) /\ used \in Seq(Nat)
      /\ Len(job) = N /\ Len(budget) = N /\ Len(used) = N /\ UNCHANGED <<budget, traced, hand, faults>>
    BY DEF TokInv, TokTypes, Token!Request, Token!JobEnds
<1>2. PICK b, s, w : TokBooks(b, s, w)
    BY DEF TokInv
<1>3. a \in 1..N /\ a \in 0..N /\ a - 1 \in 0..N /\ N \in 1..N /\ N - 1 \in 0..N /\ attempt[a] \in TokAttempt /\ used[a] \in Nat /\ budget[a] \in Nat
    BY <1>1
<1>4. /\ b \in [0..N -> Nat] /\ s \in [0..N -> Nat] /\ w \in Nat /\ s[N] \in Nat /\ b[N] \in Nat
      /\ s[a] \in Nat /\ s[a - 1] \in Nat /\ s[N - 1] \in Nat
  <2>1. b \in [0..N -> Nat] /\ s \in [0..N -> Nat] /\ w \in Nat
      BY <1>2 DEF TokBooks
  <2> QED
      BY <1>3, <2>1, N \in 0..N
<1>5. \A i \in 1..N : i \in 0..N /\ i - 1 \in 0..N /\ (a = N => (i # N => i - 1 # N)) /\ TokBooked(b, s, i)
  <2>1. \A i \in 1..N : TokBooked(b, s, i)
      BY <1>2 DEF TokBooks
  <2> QED
      BY <1>1, <2>1
<1>6. ASSUME NEW cost \in 1..MaxCost, Token!Request(a, cost) PROVE TokInv'
  <2>1. /\ job[a] = "runs" /\ attempt[a].mode = "ai" /\ (budget[a] > 0 => used[a] < budget[a])
        /\ used' = [used EXCEPT ![a] = used[a] + cost] /\ attempt' = attempt /\ job' = job
        /\ budget[a] \in 1..Cap /\ cost \in Nat /\ cost <= MaxCost
      BY <1>3, <1>6, TokNumbers DEF Token!Request, Token!Allowed, TokInv, TokSpends
  <2>2. /\ used' \in Seq(Nat) /\ Len(used') = N /\ used'[a] = used[a] + cost /\ \A i \in 1..N : i # a => used'[i] = used[i]
        /\ used'[a] <= budget[a] + MaxCost - 1
    <3>1. used[a] + cost \in Nat /\ used[a] + cost <= budget[a] + MaxCost - 1
      <4>1. used[a] < budget[a] /\ used[a] \in Nat /\ budget[a] \in Nat /\ cost \in Nat /\ cost <= MaxCost /\ MaxCost \in Nat
          BY <1>3, <2>1, TokNumbers
      <4> QED
          BY <4>1
    <3> QED
        BY <1>1, <1>3, <2>1, <3>1
  <2>3. TokTypes' /\ TokPlaces' /\ TokSpends'
    <3>1. TokTypes'
        BY <1>1, <1>3, <2>1, <2>2 DEF TokInv, TokTypes
    <3>2. TokPlaces'
        BY <1>1, <1>3, <2>1, <2>2 DEF TokInv, TokPlaces
    <3>3. TokSpends'
        BY <1>1, <1>3, <2>1, <2>2 DEF TokInv, TokSpends
    <3> QED
        BY <3>1, <3>2, <3>3
  <2>4. CASE TokSeen(a) /\ b[a] = b[a - 1] /\ s[a] = s[a - 1] + used[a]
    <3>1. a = N /\ attempt[N].state # "ended" /\ hand.pc \notin {"remaining", "mint", "register", "record"}
        BY <1>1, <1>3, <2>1, <2>4 DEF TokSeen, TokInv, TokPlaces
    <3>2. PICK t \in [0..N -> Nat] : t[N] = s[N - 1] + used'[N] /\ \A i \in 0..N : i # N => t[i] = s[i]
      <4> DEFINE t == [s EXCEPT ![N] = s[N - 1] + used'[N]]
      <4>1. t \in [0..N -> Nat] /\ t[N] = s[N - 1] + used'[N] /\ \A i \in 0..N : i # N => t[i] = s[i]
          BY <1>3, <1>4, <2>2, <3>1
      <4> HIDE DEF t
      <4> QED
          BY <4>1
    <3>3. t[N] <= TokMost + w
      <4>1. s[N - 1] <= w \/ budget[N] + s[N - 1] <= Cap
          BY <1>2, <1>3, <2>1, <3>1 DEF TokBooks
      <4>2. s[N - 1] \in Nat /\ budget[N] \in Nat /\ budget[N] <= Cap /\ used'[N] \in Nat /\ used'[N] <= budget[N] + MaxCost - 1
          BY <1>3, <1>4, <2>1, <2>2, <3>1
      <4>3. TokMost = Cap + MaxCost - 1
          BY DEF TokMost
      <4>4. \A x, u, d, z, c, m \in Nat :
                /\ x <= z \/ d + x <= c
                /\ d <= c /\ u <= d + m - 1
                => x + u <= c + m - 1 + z
          OBVIOUS
      <4>5. t[N] = s[N - 1] + used'[N] /\ w \in Nat
          BY <1>4, <3>2
      <4> QED
          BY <4>1, <4>2, <4>3, <4>4, <4>5, TokNumbers
    <3>4. ASSUME NEW i \in 1..N PROVE TokBooked(b, t, i)'
      <4>1. CASE i = N
        <5>1. t[N - 1] = s[N - 1] /\ b[N] = b[N - 1] /\ t[N] = t[N - 1] + used'[N]
          <6>1. N - 1 \in 0..N /\ N - 1 # N
              BY <1>1, <1>3
          <6> QED
              BY <2>4, <3>1, <3>2, <6>1
        <5>2. TokSeen(a)'
            BY <1>1, <2>1, <2>4, <3>1 DEF TokSeen
        <5> QED
            BY <3>1, <4>1, <5>1, <5>2 DEF TokBooked
      <4>2. CASE i # N
          BY <1>1, <1>5, <2>1, <2>2, <3>1, <3>2, <4>2, TokBookedStays
      <4> QED
          BY <4>1, <4>2
    <3>5. t[0] = 0 /\ t[N - 1] = s[N - 1]
        BY <1>2, <1>3, <3>2 DEF TokBooks
    <3>6. TokBooks(b, t, w)'
        BY <1>1, <1>2, <1>3, <2>1, <3>1, <3>2, <3>3, <3>4, <3>5 DEF TokBooks
    <3> QED
        BY <2>3, <3>6 DEF TokInv
  <2>5. CASE b[a] = b[a - 1] + TokMost /\ s[a] = s[a - 1]
    <3>1. ASSUME NEW i \in 1..N PROVE TokBooked(b, s, i)'
      <4>1. CASE i = a
          BY <2>5, <4>1 DEF TokBooked
      <4>2. CASE i # a
          BY <1>1, <1>5, <2>1, <2>2, <4>2, TokBookedStays
      <4> QED
          BY <4>1, <4>2
    <3>2. TokBooks(b, s, w)'
        BY <1>1, <1>2, <2>1, <3>1 DEF TokBooks
    <3> QED
        BY <2>3, <3>2 DEF TokInv
  <2> QED
      BY <1>3, <1>5, <2>4, <2>5 DEF TokBooked
<1>7. ASSUME NEW reported \in {0, used[a]}, Token!JobEnds(a, reported) PROVE TokInv'
  <2>1. /\ job[a] = "runs" /\ job' = [job EXCEPT ![a] = "over"] /\ used' = used /\ reported \in Nat
        /\ \/ attempt[a].state = "running" /\ attempt' = [attempt EXCEPT ![a].state = "ended", ![a].reported = reported]
           \/ attempt[a].state # "running" /\ attempt' = attempt
      BY <1>3, <1>7 DEF Token!JobEnds
  <2>2. /\ attempt' \in Seq(TokAttempt) /\ Len(attempt') = N /\ \A i \in 1..N : i # a => attempt'[i] = attempt[i]
        /\ attempt'[a].mode = attempt[a].mode /\ attempt'[a].state \in {attempt[a].state, "ended"}
        /\ job' \in Seq({"none", "runs", "over"}) /\ Len(job') = N /\ job'[a] = "over" /\ \A i \in 1..N : i # a => job'[i] = job[i]
        /\ attempt[a].state # "running" => attempt' = attempt
        /\ attempt[a].state = "running" => attempt'[a].state = "ended"
    <3> DEFINE r == [attempt[a] EXCEPT !.state = "ended", !.reported = reported]
    <3>1. r \in TokAttempt /\ r.mode = attempt[a].mode /\ r.state = "ended"
        BY <1>3, <2>1 DEF TokAttempt
    <3>2. attempt[a].state = "running" => attempt' = [attempt EXCEPT ![a] = r]
        BY <2>1
    <3> HIDE DEF r
    <3>3. job' \in Seq({"none", "runs", "over"}) /\ Len(job') = N /\ job'[a] = "over" /\ \A i \in 1..N : i # a => job'[i] = job[i]
        BY <1>1, <1>3, <2>1
    <3>4. CASE attempt[a].state = "running"
      <4>1. attempt' = [attempt EXCEPT ![a] = r]
          BY <3>2, <3>4
      <4>2. attempt' \in Seq(TokAttempt) /\ Len(attempt') = N /\ attempt'[a] = r /\ \A i \in 1..N : i # a => attempt'[i] = attempt[i]
          BY <1>1, <1>3, <3>1, <4>1
      <4> QED
          BY <3>1, <3>3, <3>4, <4>2
    <3>5. CASE attempt[a].state # "running"
        BY <1>1, <1>3, <2>1, <3>3, <3>5
    <3> QED
        BY <3>4, <3>5
  <2>3. hand.pc \in {"mint", "register", "record", "submit"} => a # N
      BY <1>3, <2>1 DEF TokInv, TokPlaces
  <2>4. TokTypes' /\ TokPlaces'
    <3>1. TokTypes'
        BY <1>1, <1>3, <2>1, <2>2, <2>3 DEF TokInv, TokTypes
    <3>2. TokPlaces'
        BY <1>1, <1>3, <2>1, <2>2, <2>3 DEF TokInv, TokPlaces
    <3> QED
        BY <3>1, <3>2
  <2>5. TokSpends'
    <3>1. attempt[a].state # "queued"
        BY <1>3, <2>1 DEF TokInv, TokSpends
    <3>2. attempt'[a].state # "queued" /\ used' = used /\ budget' = budget
      <4>1. attempt'[a].state \in {attempt[a].state, "ended"}
          BY <2>2
      <4> QED
          BY <1>1, <2>1, <3>1, <4>1
    <3> QED
        BY <1>1, <2>2, <3>2 DEF TokInv, TokSpends
  <2>6. ASSUME NEW i \in 1..N PROVE TokBooked(b, s, i)'
    <3>1. CASE i = a
      <4>1. TokBooked(b, s, a) /\ attempt'[a].mode = attempt[a].mode /\ job'[a] # "runs" /\ used' = used /\ traced' = traced
          BY <1>1, <1>3, <1>5, <2>1, <2>2
      <4> QED
          BY <3>1, <4>1 DEF TokBooked, TokSeen
    <3>2. CASE i # a
        BY <1>1, <1>5, <2>1, <2>2, <3>2, TokBookedStays
    <3> QED
        BY <3>1, <3>2
  <2>7. N > 0 /\ attempt'[N].state # "ended" => attempt[N].state # "ended" /\ attempt'[N].mode = attempt[N].mode
      BY <1>3, <2>2
  <2>8. TokBooks(b, s, w)'
      BY <1>1, <1>2, <1>3, <2>1, <2>2, <2>6, <2>7 DEF TokBooks
  <2> QED
      BY <2>4, <2>5, <2>8 DEF TokInv
<1> QED
    BY <1>6, <1>7

LEMMA TokNext == TokInv /\ [Token!NextTokens]_(Token!tvars) => TokInv'
<1> SUFFICES ASSUME TokInv, [Token!NextTokens]_(Token!tvars) PROVE TokInv'
    OBVIOUS
<1>1. ASSUME UNCHANGED Token!tvars PROVE TokInv'
  <2>1. PICK b, s, w : TokBooks(b, s, w)
      BY DEF TokInv
  <2>2. TokBooks(b, s, w)'
      BY <1>1, <2>1 DEF Token!tvars, TokBooks, TokBooked, TokSeen
  <2> QED
      BY <1>1, <2>2 DEF Token!tvars, TokInv, TokTypes, TokPlaces, TokSpends
<1>2. ASSUME Token!Begin \/ Token!Spend \/ Token!SpendUnread \/ Token!StopsAtBudget \/ Token!Minted \/ Token!NotMinted
      PROVE TokInv'
  <2>1. UNCHANGED <<attempt, job, budget, used, traced>>
      BY <1>2 DEF Token!Begin, Token!Spend, Token!SpendUnread, Token!StopsAtBudget, Token!Minted, Token!NotMinted
  <2> QED
      BY <1>2, <2>1, TokReads
<1>3. ASSUME NEW a \in 1..Len(attempt),
             \/ \E cost \in 1..MaxCost : Token!Request(a, cost)
             \/ \E reported \in {0, used[a]} : Token!JobEnds(a, reported)
      PROVE TokInv'
    BY <1>3, TokWorks
<1> QED
    BY <1>1, <1>2, <1>3, TokCreates, TokHandsOut DEF Token!NextTokens, Token!Now

(* A task spends its budget at most, what its last request costs beyond it,  *)
(* and as much again for each lost answer, missing trace or unread counter,  *)
(* for any number of attempts, requests and refusals.                        *)
THEOREM BudgetIsKept == Token!Spec => []BudgetHolds
<1>1. ASSUME TokInv PROVE BudgetHolds
  <2> DEFINE N == Len(attempt)
  <2>1. PICK b, s, w : TokBooks(b, s, w)
      BY <1>1 DEF TokInv
  <2>2. N \in Nat /\ faults \in Nat /\ used \in [1..N -> Nat]
      BY <1>1 DEF TokInv, TokTypes
  <2>3. b \in [0..N -> Nat] /\ s \in [0..N -> Nat] /\ w \in Nat /\ b[0] = 0 /\ s[0] = 0
        /\ \A a \in 1..N : TokBooked(b, s, a)
      BY <2>1 DEF TokBooks
  <2>4. PICK g \in [0..N -> Nat] : g[0] = 0 /\ (\A n \in 1..N : g[n] = g[n - 1] + used[n]) /\ Token!SpentInAll = g[N]
      BY <2>2, TokSpentIs
  <2> DEFINE Over == {n \in 0..N : ~(g[n] <= s[n] + b[n])}
  <2>5. ASSUME NEW n \in 1..N, n - 1 \notin Over PROVE n \notin Over
    <3>1. n - 1 \in 0..N /\ n \in 0..N /\ g[n] = g[n - 1] + used[n]
        BY <2>2, <2>4
    <3>2. g[n - 1] <= s[n - 1] + b[n - 1]
        BY <2>5, <3>1
    <3>3. used[n] \in Nat /\ g[n - 1] \in Nat /\ s[n - 1] \in Nat /\ b[n - 1] \in Nat
        BY <2>2, <2>3, <2>4, <3>1
    <3>4. used[n] <= TokMost
      <4>1. attempt[n].mode \in {"none", "ai"} /\ budget[n] \in Nat
        <5>1. attempt[n] \in TokAttempt /\ budget[n] \in Nat
            BY <1>1 DEF TokInv, TokTypes
        <5> QED
            BY <5>1 DEF TokAttempt
      <4>2. used[n] = 0 \/ (budget[n] <= Cap /\ used[n] <= budget[n] + MaxCost - 1)
          BY <1>1, <4>1 DEF TokInv, TokSpends
      <4>3. TokMost = Cap + MaxCost - 1
          BY DEF TokMost
      <4>4. Cap \in Nat /\ MaxCost \in Nat /\ MaxCost > 0
          BY TokNumbers
      <4> QED
          BY <3>3, <4>1, <4>2, <4>3, <4>4
    <3>5. \/ b[n] = b[n - 1] + TokMost /\ s[n] = s[n - 1]
          \/ b[n] = b[n - 1] /\ s[n] = s[n - 1] + used[n]
      <4>1. TokBooked(b, s, n)
          BY <2>3
      <4> QED
          BY <4>1 DEF TokBooked
    <3>6. \A x, y, z, u, m \in Nat : x <= y + z /\ u <= m => x + u <= y + (z + m)
        OBVIOUS
    <3>7. g[n] <= s[n] + b[n]
      <4>1. CASE b[n] = b[n - 1] + TokMost /\ s[n] = s[n - 1]
          BY <3>1, <3>2, <3>3, <3>4, <3>6, <4>1, TokNumbers
      <4>2. CASE b[n] = b[n - 1] /\ s[n] = s[n - 1] + used[n]
        <5>1. \A x, y, z, u \in Nat : x <= y + z => x + u <= (y + u) + z
            OBVIOUS
        <5> QED
            BY <3>1, <3>2, <3>3, <4>2, <5>1
      <4> QED
          BY <3>5, <4>1, <4>2
    <3> QED
        BY <3>7
  <2>6. N \notin Over
    <3>1. 0 \notin Over
        BY <2>2, <2>3, <2>4
    <3>2. ASSUME Over # {} PROVE FALSE
      <4>1. PICK n \in Over : \A j \in Over : n <= j
          BY <2>2, <3>2, LeastNumber, Over \subseteq Nat
      <4>2. n \in 1..N /\ n - 1 \notin Over
          BY <2>2, <3>1, <4>1
      <4> QED
          BY <2>5, <4>1, <4>2
    <3> QED
        BY <3>2
  <2>7. g[N] <= s[N] + b[N] /\ g[N] \in Nat /\ s[N] \in Nat /\ b[N] \in Nat
      BY <2>2, <2>3, <2>4, <2>6
  <2>8. b[N] + w <= faults * TokMost /\ s[N] <= TokMost + w
      BY <2>1 DEF TokBooks
  <2>9. (1 + faults) * TokMost = faults * TokMost + TokMost /\ faults * TokMost \in Nat
      BY <2>2, TokOneMore, 1 + faults = faults + 1
  <2>10. g[N] <= (1 + faults) * TokMost
      BY <2>3, <2>7, <2>8, <2>9, TokNumbers
  <2> QED
      BY <2>4, <2>10 DEF BudgetHolds, Token!BudgetHolds, TokMost
<1> QED
    BY <1>1, TokInitial, TokNext, PTL DEF Token!Spec

-----------------------------------------------------------------------------
(* What an agent said, in the transcript (JobRunner).  Pieces of block b are *)
(* the words <<b, 1>> to <<b, Pieces>>.                                      *)

RunWord == {<<0, 0>>} \cup ((Nat \ {0}) \X (1..Pieces))
RunEvent ==
    [t : {"text", "thinking", "tool", "error", "final"}, words : Seq(RunWord), partial : {"no", "yes"},
     mid : {"no", "yes"}, id : Calls \cup {"none"}, pending : {"no", "yes"}]
RunAgent == [said : 0..Len(Blocks), streamed : 0..Pieces, broken : {"no", "yes"}, faults : Nat]

(* An event that is still partial has pieces of the block that is being      *)
(* said, and another one of blocks that were said.                           *)
RunWordsOK(e, g, h) ==
    /\ e.partial = "no" => \A j \in DOMAIN e.words : e.words[j][1] <= g.said
    /\ e.partial = "yes" =>
        /\ h = "claude" /\ g.said < Len(Blocks) /\ e.t = Blocks[g.said + 1]
        /\ g.streamed > 0 \/ g.broken = "yes"
        /\ \A j \in DOMAIN e.words : e.words[j][1] = g.said + 1

(* The partial event is the last one of its kind.                            *)
RunLatest(E) == \A k, l \in DOMAIN E : E[k].partial = "yes" /\ E[l].t = E[k].t => l <= k

(* A piece of a block that was said has one place at most; it has one unless *)
(* the feed leaves the block out.                                            *)
RunOnce(E, g) ==
    \A k, l \in DOMAIN E : \A i \in DOMAIN E[k].words, j \in DOMAIN E[l].words :
        E[k].words[i] = E[l].words[j] /\ E[k].words[i][1] \in 1..g.said => k = l /\ i = j
RunThere(E, b) ==
    \A i \in 1..Pieces : \E k \in DOMAIN E : \E j \in DOMAIN E[k].words : E[k].words[j] = <<b, i>>
RunAll(E, g, h) == \A b \in 1..g.said : h = "claude" \/ Blocks[b] = "text" => RunThere(E, b)

(* The last text that was said is the last event of its kind that is whole.  *)
RunIsLast(b, g) == Blocks[b] = "text" /\ \A c \in 1..g.said : Blocks[c] = "text" => c <= b
RunShows(E, k, b) ==
    /\ E[k].t = "text" /\ E[k].partial = "no" /\ E[k].words = Runner!Block(b)
    /\ \A l \in DOMAIN E : l > k /\ E[l].t = "text" => E[l].partial = "yes"
RunEnds(E, g) == \A b \in 1..g.said : RunIsLast(b, g) => \E k \in DOMAIN E : RunShows(E, k, b)

RunOK(E, g, h) ==
    /\ E \in Seq(RunEvent) /\ g \in RunAgent
    /\ \A k \in DOMAIN E : RunWordsOK(E[k], g, h)
    /\ RunLatest(E) /\ RunOnce(E, g) /\ RunAll(E, g, h) /\ RunEnds(E, g)

(* OpenCode's result is all of its texts again.                              *)
RunInv == harness # "opencode" => RunOK(events, agent, harness)

(* The pieces of a block.                                                    *)
LEMMA RunBlock ==
    ASSUME NEW b \in Nat \ {0}
    PROVE  Runner!Block(b) \in Seq(RunWord) /\ DOMAIN Runner!Block(b) = 1..Pieces
           /\ \A i \in 1..Pieces : Runner!Block(b)[i] = <<b, i>>
    BY BlocksAssumption DEF Runner!Block, RunWord

(* A set of events that is not empty has a last one.                         *)
LEMMA RunMax ==
    ASSUME NEW n \in Nat, NEW S \in SUBSET (1..n), S # {}
    PROVE  Runner!Max(S) \in S /\ \A i \in S : i <= Runner!Max(S)
<1> DEFINE T == {m \in Nat : n - m \in S}
<1>1. PICK x \in S : TRUE
    OBVIOUS
<1>2. n - x \in T
    OBVIOUS
<1>3. PICK m \in T : \A k \in T : m <= k
    BY <1>2, LeastNumber
<1>4. n - m \in S /\ \A i \in S : i <= n - m
  <2> SUFFICES ASSUME NEW i \in S PROVE i <= n - m
      BY <1>3
  <2>1. n - i \in T
      OBVIOUS
  <2>2. m <= n - i /\ m \in Nat
      BY <1>3, <2>1
  <2> QED
      BY <2>2
<1> QED
    BY <1>4 DEF Runner!Max

(* JobRunner's instance of Cardinality is the one the library's facts are    *)
(* about.                                                                    *)
LEMMA RunCardinality == \A S : Runner!Cardinality(S) = Cardinality(S)
    BY DEF Cardinality, Runner!Cardinality

(* A piece has a place while the events with its block keep their words.     *)
LEMMA RunThereStays ==
    ASSUME NEW E, NEW F, NEW b, RunThere(E, b),
           \A k \in DOMAIN E : \A j \in DOMAIN E[k].words :
              E[k].words[j][1] = b => k \in DOMAIN F /\ j \in DOMAIN F[k].words /\ F[k].words[j] = E[k].words[j]
    PROVE  RunThere(F, b)
<1> SUFFICES ASSUME NEW i \in 1..Pieces
             PROVE  \E k \in DOMAIN F : \E j \in DOMAIN F[k].words : F[k].words[j] = <<b, i>>
    BY DEF RunThere
<1>1. PICK k \in DOMAIN E : \E j \in DOMAIN E[k].words : E[k].words[j] = <<b, i>>
    BY DEF RunThere
<1>2. PICK j \in DOMAIN E[k].words : E[k].words[j] = <<b, i>>
    BY <1>1
<1>3. k \in DOMAIN F /\ j \in DOMAIN F[k].words /\ F[k].words[j] = <<b, i>>
    BY <1>2
<1> QED
    BY <1>3

(* Events that differ in nothing the invariant is about.                     *)
LEMMA RunAlike ==
    ASSUME NEW E, NEW g, NEW h, RunOK(E, g, h), NEW F \in Seq(RunEvent), Len(F) = Len(E),
           \A k \in DOMAIN E : F[k].t = E[k].t /\ F[k].words = E[k].words /\ F[k].partial = E[k].partial
    PROVE  RunOK(F, g, h)
<1>1. DOMAIN F = DOMAIN E
    BY DEF RunOK
<1>2. g \in RunAgent /\ (\A k \in DOMAIN F : RunWordsOK(F[k], g, h)) /\ RunLatest(F)
    BY <1>1 DEF RunOK, RunWordsOK, RunLatest
<1>3. RunOnce(F, g)
  <2> SUFFICES ASSUME NEW k \in DOMAIN E, NEW l \in DOMAIN E, NEW i \in DOMAIN E[k].words, NEW j \in DOMAIN E[l].words,
                      E[k].words[i] = E[l].words[j], E[k].words[i][1] \in 1..g.said
               PROVE  k = l /\ i = j
      BY <1>1 DEF RunOnce
  <2> QED
      BY DEF RunOK, RunOnce
<1>5. RunAll(F, g, h)
    BY <1>1, RunThereStays DEF RunOK, RunAll
<1>4. RunEnds(F, g)
    BY <1>1 DEF RunOK, RunEnds, RunShows
<1> QED
    BY <1>2, <1>3, <1>4, <1>5 DEF RunOK

(* An event that says nothing of a block.                                    *)
LEMMA RunAside ==
    ASSUME NEW E, NEW g, NEW h, RunOK(E, g, h), NEW e \in RunEvent,
           e.t \notin {"text", "thinking"}, e.partial = "no", \A j \in DOMAIN e.words : e.words[j] = <<0, 0>>
    PROVE  RunOK(Append(E, e), g, h)
<1> DEFINE F == Append(E, e)
           n == Len(E) + 1
<1>1. /\ E \in Seq(RunEvent) /\ F \in Seq(RunEvent) /\ DOMAIN F = DOMAIN E \cup {n} /\ n \notin DOMAIN E
      /\ F[n] = e /\ \A k \in DOMAIN E : F[k] = E[k] /\ k < n
    BY DEF RunOK
<1> HIDE DEF F, n
<1>2. g \in RunAgent /\ g.said \in Nat
    BY DEF RunOK, RunAgent
<1>3. \A k \in DOMAIN F : RunWordsOK(F[k], g, h)
    BY <1>1, <1>2 DEF RunOK, RunWordsOK
<1>4. RunLatest(F)
  <2>1. \A k \in DOMAIN E : E[k].partial = "yes" => E[k].t \in {"text", "thinking"}
      BY BlocksAssumption DEF RunOK, RunWordsOK, RunAgent
  <2> QED
      BY <1>1, <2>1 DEF RunOK, RunLatest
<1>5. RunOnce(F, g)
    BY <1>1, <1>2 DEF RunOK, RunOnce
<1>6. RunAll(F, g, h)
    BY <1>1, RunThereStays DEF RunOK, RunAll
<1>7. RunEnds(F, g)
    BY <1>1 DEF RunOK, RunEnds, RunShows
<1> QED
    BY <1>1, <1>2, <1>3, <1>4, <1>5, <1>6, <1>7 DEF RunOK, F

(* A piece that streams: it joins the event that is partial, or begins one.  *)
LEMMA RunStreams ==
    ASSUME NEW E, NEW g, RunOK(E, g, "claude"), g.said < Len(Blocks), g.streamed < Pieces
    PROVE  RunOK(Runner!PushDelta(E, Blocks[g.said + 1], <<g.said + 1, g.streamed + 1>>),
                 [g EXCEPT !.streamed = g.streamed + 1], "claude")
<1> DEFINE n == Len(E)
           b == g.said + 1
           word == <<b, g.streamed + 1>>
           f == [g EXCEPT !.streamed = g.streamed + 1]
           S == {i \in DOMAIN E : E[i].t = Blocks[b]}
           last == Runner!LastOf(E, LAMBDA e : e.t = Blocks[b])
           fresh == Runner!Event(Blocks[b], <<word>>, "yes", "none", "no")
<1>1. /\ E \in Seq(RunEvent) /\ n \in Nat /\ DOMAIN E = 1..n /\ g \in RunAgent /\ g.said \in Nat /\ g.streamed \in Nat
      /\ b \in Nat \ {0} /\ b \in 1..Len(Blocks) /\ Blocks[b] \in {"text", "thinking"} /\ word \in RunWord
      /\ \A k \in DOMAIN E : E[k] \in RunEvent
    BY BlocksAssumption DEF RunOK, RunAgent, RunWord
<1>2. f \in RunAgent /\ f.said = g.said /\ f.streamed > 0 /\ f.broken = g.broken
  <2>1. g.streamed + 1 \in 0..Pieces /\ g.streamed + 1 > 0
      BY <1>1, BlocksAssumption
  <2>2. g = [said |-> g.said, streamed |-> g.streamed, broken |-> g.broken, faults |-> g.faults]
        /\ g.said \in 0..Len(Blocks) /\ g.broken \in {"no", "yes"} /\ g.faults \in Nat
      BY <1>1 DEF RunAgent
  <2>3. f = [said |-> g.said, streamed |-> g.streamed + 1, broken |-> g.broken, faults |-> g.faults]
      BY <2>2
  <2> HIDE DEF f
  <2> QED
      BY <2>1, <2>2, <2>3 DEF RunAgent
<1>3. last = IF S = {} THEN 0 ELSE Runner!Max(S)
    BY DEF Runner!LastOf
<1>4. S # {} => last \in S /\ \A i \in S : i <= last
    BY <1>1, <1>3, RunMax, S \in SUBSET (1..n)
<1>5. last = 0 <=> S = {}
  <2>1. \A i \in S : i # 0
      BY <1>1
  <2> QED
      BY <1>3, <1>4, <2>1
<1> HIDE DEF last, S, f, word, b
<1>6. CASE last # 0 /\ E[last].partial = "yes"
  <2> DEFINE r == [E[last] EXCEPT !.words = Append(E[last].words, word)]
             F == [E EXCEPT ![last] = r]
  <2>1. last \in DOMAIN E /\ E[last] \in RunEvent /\ E[last].t = Blocks[b] /\ E[last].words \in Seq(RunWord)
      BY <1>1, <1>4, <1>5, <1>6 DEF S, RunEvent
  <2>2. /\ r \in RunEvent /\ r.t = E[last].t /\ r.partial = "yes" /\ r.words = Append(E[last].words, word)
    <3>1. Append(E[last].words, word) \in Seq(RunWord)
        BY <1>1, <2>1
    <3>2. E[last] = [t |-> E[last].t, words |-> E[last].words, partial |-> "yes", mid |-> E[last].mid,
                     id |-> E[last].id, pending |-> E[last].pending]
        BY <1>6, <2>1 DEF RunEvent
    <3>3. r = [t |-> E[last].t, words |-> Append(E[last].words, word), partial |-> "yes", mid |-> E[last].mid,
               id |-> E[last].id, pending |-> E[last].pending]
        BY <3>2
    <3> QED
        BY <2>1, <3>1, <3>3 DEF RunEvent
  <2>3. LET m == Len(E[last].words) + 1 IN
        /\ DOMAIN r.words = DOMAIN E[last].words \cup {m} /\ r.words[m] = word
        /\ \A j \in DOMAIN E[last].words : r.words[j] = E[last].words[j]
      BY <1>1, <2>1, <2>2
  <2>4. Runner!PushDelta(E, Blocks[b], word) = F
      BY <1>6 DEF Runner!PushDelta, last
  <2> HIDE DEF r
  <2>5. F \in Seq(RunEvent) /\ DOMAIN F = DOMAIN E /\ F[last] = r /\ \A k \in DOMAIN E : k # last => F[k] = E[k]
      BY <1>1, <2>1, <2>2
  <2> HIDE DEF F
  <2>6. word[1] = b /\ b = g.said + 1 /\ b > g.said
      BY <1>1 DEF word, b
  <2>7. \A k \in DOMAIN F : RunWordsOK(F[k], f, "claude")
    <3>1. RunWordsOK(E[last], g, "claude")
        BY <2>1 DEF RunOK
    <3>2. RunWordsOK(r, f, "claude")
        BY <1>2, <1>6, <2>2, <2>3, <2>6, <3>1 DEF RunWordsOK
    <3>3. ASSUME NEW k \in DOMAIN E, k # last PROVE RunWordsOK(E[k], f, "claude")
        BY <1>2, <3>3 DEF RunOK, RunWordsOK
    <3> QED
        BY <2>5, <3>2, <3>3
  <2>8. RunLatest(F)
      BY <2>1, <2>2, <2>5, <1>6 DEF RunOK, RunLatest
  <2>9. \A j \in DOMAIN r.words : r.words[j][1] = b
    <3>1. \A j \in DOMAIN E[last].words : E[last].words[j][1] = b
        BY <1>6, <2>1, <2>6 DEF RunOK, RunWordsOK
    <3> QED
        BY <2>3, <2>6, <3>1
  <2>10. RunOnce(F, f)
    <3> SUFFICES ASSUME NEW k \in DOMAIN F, NEW l \in DOMAIN F, NEW i \in DOMAIN F[k].words, NEW j \in DOMAIN F[l].words,
                        F[k].words[i] = F[l].words[j], F[k].words[i][1] \in 1..f.said
                 PROVE  k = l /\ i = j
        BY DEF RunOnce
    <3>1. k # last /\ l # last
        BY <1>1, <1>2, <2>5, <2>6, <2>9
    <3> QED
        BY <1>2, <2>5, <3>1 DEF RunOK, RunOnce
  <2>11. RunAll(F, f, "claude")
    <3> SUFFICES ASSUME NEW c \in 1..g.said PROVE RunThere(F, c)
        BY <1>2 DEF RunAll
    <3>1. RunThere(E, c) /\ c # b
        BY <1>1, <2>6 DEF RunOK, RunAll
    <3>2. \A j \in DOMAIN E[last].words : E[last].words[j][1] # c
        BY <2>1, <2>6, <3>1, <1>6 DEF RunOK, RunWordsOK
    <3> QED
        BY <2>5, <3>1, <3>2, RunThereStays
  <2>12. RunEnds(F, f)
    <3> SUFFICES ASSUME NEW c \in 1..g.said, RunIsLast(c, g) PROVE \E k \in DOMAIN F : RunShows(F, k, c)
        BY <1>2 DEF RunEnds, RunIsLast
    <3>1. PICK k \in DOMAIN E : RunShows(E, k, c)
        BY DEF RunOK, RunEnds
    <3>2. RunShows(F, k, c)
        BY <1>6, <2>1, <2>2, <2>5, <3>1 DEF RunShows
    <3> QED
        BY <2>5, <3>2
  <2> QED
      BY <1>2, <2>4, <2>5, <2>7, <2>8, <2>10, <2>11, <2>12 DEF RunOK, b, word, f
<1>7. CASE ~(last # 0 /\ E[last].partial = "yes")
  <2> DEFINE F == Append(E, fresh)
             m == n + 1
  <2>1. Runner!PushDelta(E, Blocks[b], word) = F
      BY <1>7 DEF Runner!PushDelta, last
  <2>2. /\ fresh \in RunEvent /\ fresh.t = Blocks[b] /\ fresh.partial = "yes"
        /\ DOMAIN fresh.words = {1} /\ fresh.words[1] = word
      BY <1>1 DEF Runner!Event, RunEvent
  <2> HIDE DEF fresh
  <2>3. /\ F \in Seq(RunEvent) /\ DOMAIN F = DOMAIN E \cup {m} /\ m \notin DOMAIN E /\ F[m] = fresh
        /\ \A k \in DOMAIN E : F[k] = E[k] /\ k < m
      BY <1>1, <2>2
  <2> HIDE DEF F, m
  <2>4. word[1] = b /\ b = g.said + 1 /\ b > g.said
      BY <1>1 DEF word, b
  <2>5. \A k \in DOMAIN E : E[k].partial = "no"
    <3> SUFFICES ASSUME NEW k \in DOMAIN E, E[k].partial = "yes" PROVE FALSE
        BY <1>1 DEF RunEvent
    <3>1. E[k].t = Blocks[b] /\ k \in S /\ last \in S
        BY <1>4, <2>4 DEF RunOK, RunWordsOK, S
    <3>2. last <= k /\ k <= last /\ last \in DOMAIN E /\ last # 0
        BY <1>1, <1>4, <3>1 DEF RunOK, RunLatest, S
    <3> QED
        BY <1>1, <1>7, <3>2
  <2>6. \A k \in DOMAIN F : RunWordsOK(F[k], f, "claude")
    <3>1. RunWordsOK(fresh, f, "claude")
        BY <1>1, <1>2, <2>2, <2>4 DEF RunWordsOK
    <3>2. \A k \in DOMAIN E : RunWordsOK(E[k], f, "claude")
        BY <1>2, <2>5 DEF RunOK, RunWordsOK
    <3> QED
        BY <2>3, <3>1, <3>2
  <2>7. RunLatest(F)
    <3>1. \A k \in DOMAIN F : k \in Nat /\ k <= m
        BY <1>1, <2>3 DEF m
    <3>2. \A k \in DOMAIN F : F[k].partial = "yes" => k = m
        BY <2>3, <2>5
    <3> QED
        BY <3>1, <3>2 DEF RunLatest
  <2>8. RunOnce(F, f)
    <3> SUFFICES ASSUME NEW k \in DOMAIN F, NEW l \in DOMAIN F, NEW i \in DOMAIN F[k].words, NEW j \in DOMAIN F[l].words,
                        F[k].words[i] = F[l].words[j], F[k].words[i][1] \in 1..f.said
                 PROVE  k = l /\ i = j
        BY DEF RunOnce
    <3>1. k # m /\ l # m
        BY <1>1, <1>2, <2>2, <2>3, <2>4
    <3> QED
        BY <1>2, <2>3, <3>1 DEF RunOK, RunOnce
  <2>9. RunAll(F, f, "claude")
      BY <1>2, <2>3, RunThereStays DEF RunOK, RunAll
  <2>10. RunEnds(F, f)
    <3> SUFFICES ASSUME NEW c \in 1..g.said, RunIsLast(c, g) PROVE \E k \in DOMAIN F : RunShows(F, k, c)
        BY <1>2 DEF RunEnds, RunIsLast
    <3>1. PICK k \in DOMAIN E : RunShows(E, k, c)
        BY DEF RunOK, RunEnds
    <3>2. RunShows(F, k, c)
        BY <2>2, <2>3, <3>1 DEF RunShows
    <3> QED
        BY <2>3, <3>2
  <2> QED
      BY <1>2, <2>1, <2>3, <2>6, <2>7, <2>8, <2>9, <2>10 DEF RunOK, b, word, f
<1> QED
    BY <1>6, <1>7

(* A whole block: event q gets its pieces, after the w words it keeps, and   *)
(* nothing is partial any more.                                              *)
RunGainsIn(E, F, g, q, w) ==
    /\ F \in Seq(RunEvent) /\ q \in DOMAIN F /\ w \in Nat
    /\ DOMAIN E \subseteq DOMAIN F /\ DOMAIN F \subseteq DOMAIN E \cup {q}
    /\ \A k \in DOMAIN E : k # q => F[k] = E[k]
    /\ \A k \in DOMAIN F : F[k].partial = "no"
    /\ F[q].t = Blocks[g.said + 1] /\ (q \in DOMAIN E => E[q].t = F[q].t)
    /\ DOMAIN F[q].words = 1..(w + Pieces) /\ \A i \in 1..Pieces : F[q].words[w + i] = <<g.said + 1, i>>
    /\ \A j \in 1..w : q \in DOMAIN E /\ j \in DOMAIN E[q].words /\ F[q].words[j] = E[q].words[j]
    /\ w > 0 => E[q].partial = "no"
    /\ q \in DOMAIN E /\ E[q].partial = "no" => DOMAIN E[q].words = 1..w
    /\ F[q].t = "text" => w = 0 /\ \A l \in DOMAIN F : F[l].t = "text" => l <= q

(* Such a block keeps the transcript in order.                               *)
LEMMA RunGains ==
    ASSUME NEW E, NEW g, NEW h, RunOK(E, g, h), g.said < Len(Blocks), NEW F, NEW q, NEW w, RunGainsIn(E, F, g, q, w)
    PROVE  RunOK(F, [g EXCEPT !.said = g.said + 1, !.streamed = 0, !.broken = "no"], h)
<1> DEFINE b == g.said + 1
           f == [g EXCEPT !.said = g.said + 1, !.streamed = 0, !.broken = "no"]
<1>1. g \in RunAgent /\ g.said \in Nat /\ b \in Nat \ {0} /\ b \in 1..Len(Blocks) /\ Len(Blocks) \in Nat
  <2>1. g \in RunAgent /\ g.said \in Nat
      BY DEF RunOK, RunAgent
  <2>2. Len(Blocks) \in Nat
      BY BlocksAssumption
  <2> QED
      BY <2>1, <2>2
<1>2. f \in RunAgent /\ f.said = b
  <2>1. b \in 0..Len(Blocks) /\ 0 \in 0..Pieces /\ b = g.said + 1
      BY <1>1, BlocksAssumption
  <2> HIDE DEF b
  <2> QED
      BY <1>1, <2>1 DEF RunAgent
<1> HIDE DEF f
<1> USE DEF RunGainsIn
<1>0. \A k \in DOMAIN F : F[k] \in RunEvent /\ F[k].words \in Seq(RunWord) /\ \A j \in DOMAIN F[k].words : F[k].words[j][1] \in Nat
  <2> SUFFICES ASSUME NEW k \in DOMAIN F
               PROVE  F[k] \in RunEvent /\ F[k].words \in Seq(RunWord) /\ \A j \in DOMAIN F[k].words : F[k].words[j][1] \in Nat
      OBVIOUS
  <2>1. F[k] \in RunEvent
      OBVIOUS
  <2>2. F[k].words \in Seq(RunWord)
      BY <2>1 DEF RunEvent
  <2>3. \A x \in RunWord : x[1] \in Nat
      BY DEF RunWord
  <2> QED
      BY <2>1, <2>2, <2>3
<1>3. \A k \in DOMAIN E : E[k].partial = "no" => \A j \in DOMAIN E[k].words : E[k].words[j][1] <= g.said
    BY DEF RunOK, RunWordsOK
<1>4. \A k \in DOMAIN F : k # q => k \in DOMAIN E /\ F[k] = E[k] /\ E[k].partial = "no"
    OBVIOUS
<1>5. \A j \in 1..w : q \in DOMAIN E /\ j \in DOMAIN E[q].words /\ F[q].words[j] = E[q].words[j] /\ F[q].words[j][1] <= g.said
    BY <1>3
<1>6. \A j \in DOMAIN F[q].words : j \notin 1..w => j - w \in 1..Pieces /\ F[q].words[j] = <<b, j - w>>
  <2> SUFFICES ASSUME NEW j \in 1..(w + Pieces), j \notin 1..w PROVE j - w \in 1..Pieces /\ F[q].words[j] = <<b, j - w>>
      OBVIOUS
  <2>0. Pieces \in Nat /\ w \in Nat /\ w + Pieces \in Nat
      BY BlocksAssumption
  <2>1. j - w \in 1..Pieces /\ w + (j - w) = j
      BY <2>0
  <2> QED
      BY <2>1
<1>7. \A k \in DOMAIN F : \A j \in DOMAIN F[k].words : F[k].words[j][1] <= g.said \/ (k = q /\ j \notin 1..w)
    BY <1>3, <1>4, <1>5
<1>8. \A k \in DOMAIN F : RunWordsOK(F[k], f, h)
  <2> SUFFICES ASSUME NEW k \in DOMAIN F, NEW j \in DOMAIN F[k].words PROVE F[k].words[j][1] <= b
      BY <1>2 DEF RunWordsOK
  <2>1. CASE k = q /\ j \notin 1..w
    <3>1. F[k].words[j] = <<b, j - w>>
        BY <1>6, <2>1
    <3> QED
        BY <1>1, <3>1
  <2>2. CASE F[k].words[j][1] <= g.said
    <3>1. F[k].words[j][1] \in Nat
        BY <1>0
    <3> QED
        BY <1>1, <2>2, <3>1
  <2> QED
      BY <1>7, <2>1, <2>2
<1>9. RunLatest(F)
    BY DEF RunLatest
<1>10. RunOnce(F, f)
  <2> SUFFICES ASSUME NEW k \in DOMAIN F, NEW l \in DOMAIN F, NEW i \in DOMAIN F[k].words, NEW j \in DOMAIN F[l].words,
                      F[k].words[i] = F[l].words[j], F[k].words[i][1] \in 1..b
               PROVE  k = l /\ i = j
      BY <1>2 DEF RunOnce
  <2>1. CASE F[k].words[i][1] <= g.said
    <3>2. k \in DOMAIN E /\ i \in DOMAIN E[k].words /\ F[k].words[i] = E[k].words[i]
      <4>1. k = q => i \in 1..w
        <5> SUFFICES ASSUME k = q, i \notin 1..w PROVE FALSE
            OBVIOUS
        <5>1. F[k].words[i] = <<b, i - w>>
            BY <1>6
        <5>2. F[k].words[i][1] = b
            BY <5>1
        <5> QED
            BY <1>1, <2>1, <5>2
      <4> QED
          BY <1>4, <1>5, <4>1
    <3>3. l \in DOMAIN E /\ j \in DOMAIN E[l].words /\ F[l].words[j] = E[l].words[j]
      <4>1. l = q => j \in 1..w
        <5> SUFFICES ASSUME l = q, j \notin 1..w PROVE FALSE
            OBVIOUS
        <5>1. F[l].words[j] = <<b, j - w>>
            BY <1>6
        <5>2. F[k].words[i][1] = b
            BY <5>1
        <5> QED
            BY <1>1, <2>1, <5>2
      <4> QED
          BY <1>4, <1>5, <4>1
    <3>4. E[k].words[i][1] \in 1..g.said /\ E[k].words[i] = E[l].words[j]
      <4>1. F[k].words[i][1] \in 1..g.said
          BY <1>1, <2>1
      <4> QED
          BY <3>2, <3>3, <4>1
    <3>5. RunOnce(E, g)
        BY DEF RunOK
    <3> QED
        BY <3>2, <3>3, <3>4, <3>5 DEF RunOnce
  <2>2. CASE ~(F[k].words[i][1] <= g.said)
    <3>1. k = q /\ i \notin 1..w /\ l = q /\ j \notin 1..w
        BY <1>7, <2>2
    <3>2. F[q].words[i] = <<b, i - w>> /\ F[q].words[j] = <<b, j - w>>
        BY <1>6, <3>1
    <3>3. i \in Nat /\ j \in Nat
        BY <1>0, <3>1
    <3>4. i - w = j - w
        BY <3>1, <3>2
    <3> QED
        BY <3>1, <3>3, <3>4
  <2> QED
      BY <2>1, <2>2
<1>11. RunAll(F, f, h)
  <2> SUFFICES ASSUME NEW c \in 1..b, h = "claude" \/ Blocks[c] = "text" PROVE RunThere(F, c)
      BY <1>2 DEF RunAll
  <2>1. CASE c = b
    <3> SUFFICES ASSUME NEW i \in 1..Pieces
                 PROVE  \E k \in DOMAIN F : \E j \in DOMAIN F[k].words : F[k].words[j] = <<c, i>>
        BY DEF RunThere
    <3>1. w + i \in 1..(w + Pieces)
        BY BlocksAssumption
    <3>2. w + i \in DOMAIN F[q].words /\ F[q].words[w + i] = <<c, i>>
        BY <2>1, <3>1
    <3> QED
        BY <3>2
  <2>2. CASE c # b
    <3>1. c \in 1..g.said /\ RunThere(E, c)
        BY <1>1, <2>2 DEF RunOK, RunAll
    <3>2. ASSUME NEW k \in DOMAIN E, NEW j \in DOMAIN E[k].words, E[k].words[j][1] = c
          PROVE  k \in DOMAIN F /\ j \in DOMAIN F[k].words /\ F[k].words[j] = E[k].words[j]
      <4>1. CASE k # q
          BY <4>1
      <4>2. CASE k = q
        <5>0. RunWordsOK(E[q], g, h) /\ E[q] \in RunEvent /\ c # g.said + 1
            BY <2>2, <4>2 DEF RunOK
        <5>1. E[q].partial = "no"
            BY <3>2, <4>2, <5>0 DEF RunWordsOK, RunEvent
        <5>2. j \in 1..w
            BY <3>2, <4>2, <5>1
        <5> QED
            BY <4>2, <5>2, BlocksAssumption
      <4> QED
          BY <4>1, <4>2
    <3> QED
        BY <3>1, <3>2, RunThereStays
  <2> QED
      BY <2>1, <2>2
<1>12. RunEnds(F, f)
  <2> SUFFICES ASSUME NEW c \in 1..b, RunIsLast(c, f) PROVE \E k \in DOMAIN F : RunShows(F, k, c)
      BY <1>2 DEF RunEnds
  <2>1. CASE Blocks[b] = "text"
    <3>1. b \in 1..b /\ b <= c
        BY <1>1, <1>2, <2>1 DEF RunIsLast
    <3>2. c = b /\ F[q].t = "text" /\ w = 0
        BY <1>1, <2>1, <3>1
    <3>3. F[q].words = Runner!Block(b)
      <4>1. DOMAIN F[q].words = 1..Pieces /\ \A i \in 1..Pieces : F[q].words[i] = <<b, i>>
          BY <3>2, BlocksAssumption
      <4>2. F[q].words \in Seq(RunWord)
          BY <1>0
      <4>3. \A s, z \in Seq(RunWord) :
                DOMAIN s = 1..Pieces /\ DOMAIN z = 1..Pieces /\ (\A i \in 1..Pieces : s[i] = z[i]) => s = z
        <5> SUFFICES ASSUME NEW s \in Seq(RunWord), NEW z \in Seq(RunWord),
                            DOMAIN s = 1..Pieces, DOMAIN z = 1..Pieces, \A i \in 1..Pieces : s[i] = z[i]
                     PROVE  s = z
            OBVIOUS
        <5>1. s = [i \in 1..Pieces |-> s[i]] /\ z = [i \in 1..Pieces |-> z[i]]
            OBVIOUS
        <5> QED
            BY <5>1
      <4>4. /\ Runner!Block(b) \in Seq(RunWord) /\ DOMAIN Runner!Block(b) = 1..Pieces
            /\ \A i \in 1..Pieces : Runner!Block(b)[i] = <<b, i>>
          BY <1>1, RunBlock
      <4>5. \A i \in 1..Pieces : F[q].words[i] = Runner!Block(b)[i]
          BY <4>1, <4>4
      <4> HIDE DEF b
      <4> QED
          BY <4>1, <4>2, <4>3, <4>4, <4>5
    <3>4. \A l \in DOMAIN F : ~(l > q /\ F[l].t = "text")
        BY <3>2
    <3> QED
        BY <3>2, <3>3, <3>4 DEF RunShows
  <2>2. CASE Blocks[b] # "text"
    <3>1. c # b
        BY <2>2 DEF RunIsLast
    <3>2. c \in 1..g.said /\ RunIsLast(c, g)
        BY <1>1, <1>2, <3>1 DEF RunIsLast
    <3>3. PICK k \in DOMAIN E : RunShows(E, k, c)
        BY <3>2 DEF RunOK, RunEnds
    <3>4. k # q /\ \A l \in DOMAIN F : F[l].t = "text" => l # q
        BY <2>2, <3>3 DEF RunShows
    <3>5. RunShows(F, k, c)
        BY <1>4, <3>3, <3>4 DEF RunShows
    <3> QED
        BY <3>3, <3>5
  <2> QED
      BY <2>1, <2>2
<1> QED
    BY <1>2, <1>8, <1>9, <1>10, <1>11, <1>12 DEF RunOK, f

(* An assistant message takes the place of what streamed, joins the thinking *)
(* before it, or is an event of its own: a whole block in each case.         *)
LEMMA RunWhole ==
    ASSUME NEW E, NEW g, NEW h, RunOK(E, g, h), g.said < Len(Blocks)
    PROVE  RunOK(Runner!Whole(E, Blocks[g.said + 1], Runner!Block(g.said + 1)),
                 [g EXCEPT !.said = g.said + 1, !.streamed = 0, !.broken = "no"], h)
<1> DEFINE n == Len(E)
           b == g.said + 1
           t == Blocks[b]
           B == Runner!Block(b)
           S == {i \in DOMAIN E : E[i].t = t /\ E[i].partial = "yes"}
           p == Runner!LastOf(E, LAMBDA e : e.t = t /\ e.partial = "yes")
           fresh == Runner!Plain(t, B)
<1>1. /\ E \in Seq(RunEvent) /\ n \in Nat /\ DOMAIN E = 1..n /\ g.said \in Nat
      /\ b \in Nat \ {0} /\ t \in {"text", "thinking"} /\ Pieces \in Nat
      /\ \A k \in DOMAIN E : E[k] \in RunEvent /\ E[k].words \in Seq(RunWord) /\ k \in Nat
  <2>1. E \in Seq(RunEvent) /\ n \in Nat /\ DOMAIN E = 1..n /\ g.said \in Nat
      BY DEF RunOK, RunAgent
  <2>2. b \in Nat \ {0} /\ t \in {"text", "thinking"} /\ Pieces \in Nat
      BY <2>1, BlocksAssumption
  <2>3. \A e \in RunEvent : e.words \in Seq(RunWord)
      BY DEF RunEvent
  <2> QED
      BY <2>1, <2>2, <2>3
<1>2. B \in Seq(RunWord) /\ DOMAIN B = 1..Pieces /\ Len(B) = Pieces /\ \A i \in 1..Pieces : B[i] = <<b, i>>
  <2>1. B \in Seq(RunWord) /\ DOMAIN B = 1..Pieces /\ \A i \in 1..Pieces : B[i] = <<b, i>>
      BY <1>1, RunBlock
  <2> HIDE DEF B
  <2>2. Len(B) \in Nat /\ 1..Len(B) = 1..Pieces
      BY <2>1
  <2> QED
      BY <1>1, <2>1, <2>2
<1>3. p = IF S = {} THEN 0 ELSE Runner!Max(S)
    BY DEF Runner!LastOf
<1>4. S # {} => p \in S
    BY <1>1, <1>3, RunMax, S \in SUBSET (1..n)
<1>5. p = 0 <=> S = {}
  <2>1. \A i \in S : i # 0
      BY <1>1
  <2> QED
      BY <1>3, <1>4, <2>1
<1>6. \A k \in DOMAIN E : E[k].partial = "yes" => k \in S
    BY DEF RunOK, RunWordsOK
<1>7. Runner!Whole(E, Blocks[g.said + 1], Runner!Block(g.said + 1)) =
        IF p # 0 THEN [E EXCEPT ![p].words = B, ![p].partial = "no"] ELSE Runner!Push(E, fresh)
    BY DEF Runner!Whole, p, fresh
<1> HIDE DEF p, B, fresh
<1>8. CASE p # 0
  <2> DEFINE F == [E EXCEPT ![p].words = B, ![p].partial = "no"]
  <2>1. p \in DOMAIN E /\ E[p] \in RunEvent /\ E[p].t = t /\ E[p].partial = "yes"
      BY <1>1, <1>4, <1>5, <1>8
  <2>2. PICK r : r = [E[p] EXCEPT !.words = B, !.partial = "no"]
      OBVIOUS
  <2>3. r \in RunEvent /\ r.t = t /\ r.words = B /\ r.partial = "no"
      BY <1>2, <2>1, <2>2 DEF RunEvent
  <2>4. F = [E EXCEPT ![p] = r]
      BY <2>2
  <2> HIDE DEF F
  <2>5. F \in Seq(RunEvent) /\ DOMAIN F = DOMAIN E /\ F[p] = r /\ \A k \in DOMAIN E : k # p => F[k] = E[k]
      BY <1>1, <2>1, <2>3, <2>4
  <2>6. \A k \in DOMAIN E : E[k].partial = "yes" => k = p
    <3> SUFFICES ASSUME NEW k \in DOMAIN E, E[k].partial = "yes" PROVE k = p
        OBVIOUS
    <3>1. E[k].t = E[p].t
        BY <1>6, <2>1
    <3>2. k <= p /\ p <= k
        BY <2>1, <3>1 DEF RunOK, RunLatest
    <3> QED
        BY <1>1, <2>1, <3>2
  <2>7. \A k \in DOMAIN F : F[k].partial = "no"
    <3> SUFFICES ASSUME NEW k \in DOMAIN E PROVE F[k].partial = "no"
        BY <2>5
    <3>1. E[k].partial \in {"no", "yes"}
        BY <1>1 DEF RunEvent
    <3> QED
        BY <2>3, <2>5, <2>6, <3>1
  <2>8. \A l \in DOMAIN F : F[l].t = t => l <= p
      BY <2>1, <2>3, <2>5 DEF RunOK, RunLatest
  <2>9. DOMAIN F[p].words = 1..(0 + Pieces) /\ \A i \in 1..Pieces : F[p].words[0 + i] = <<g.said + 1, i>>
    <3>1. F[p].words = B /\ 0 + Pieces = Pieces /\ \A i \in 1..Pieces : 0 + i = i
        BY <1>1, <2>3, <2>5
    <3> QED
        BY <1>2, <3>1
  <2>10. RunGainsIn(E, F, g, p, 0)
    <3>1. F[p].t = Blocks[g.said + 1] /\ E[p].t = F[p].t /\ E[p].partial = "yes" /\ p \in DOMAIN F
        BY <2>1, <2>3, <2>5
    <3> QED
        BY <2>5, <2>7, <2>8, <2>9, <3>1 DEF RunGainsIn
  <2>11. RunOK(F, [g EXCEPT !.said = g.said + 1, !.streamed = 0, !.broken = "no"], h)
      BY <2>10, RunGains
  <2> QED
      BY <1>7, <1>8, <2>11 DEF F
<1>9. CASE p = 0
  <2>1. \A k \in DOMAIN E : E[k].partial = "no"
    <3>1. \A k \in DOMAIN E : E[k].partial \in {"no", "yes"}
        BY <1>1 DEF RunEvent
    <3> QED
        BY <1>5, <1>6, <1>9, <3>1
  <2>2. /\ fresh \in RunEvent /\ fresh.t = t /\ fresh.partial = "no" /\ fresh.mid = "no" /\ fresh.words = B
      BY <1>1, <1>2 DEF Runner!Plain, Runner!Event, RunEvent, fresh
  <2>3. CASE n > 0 /\ t = "thinking" /\ E[n].t = "thinking" /\ E[n].mid = "no"
    <3> DEFINE F == [E EXCEPT ![n].words = E[n].words \o B]
               w == Len(E[n].words)
    <3>1. n \in DOMAIN E /\ E[n] \in RunEvent /\ E[n].words \in Seq(RunWord) /\ E[n].partial = "no" /\ w \in Nat
        BY <1>1, <2>1, <2>3
    <3>2. PICK r : r = [E[n] EXCEPT !.words = E[n].words \o B]
        OBVIOUS
    <3>3. r \in RunEvent /\ r.t = t /\ r.words = E[n].words \o B /\ r.partial = "no"
      <4>1. E[n].words \o B \in Seq(RunWord)
          BY <1>2, <3>1
      <4> QED
          BY <2>3, <3>1, <3>2, <4>1 DEF RunEvent
    <3>4. F = [E EXCEPT ![n] = r]
        BY <3>2
    <3> HIDE DEF F
    <3>5. F \in Seq(RunEvent) /\ DOMAIN F = DOMAIN E /\ F[n] = r /\ \A k \in DOMAIN E : k # n => F[k] = E[k]
        BY <1>1, <3>1, <3>3, <3>4
    <3>6. /\ DOMAIN F[n].words = 1..(w + Pieces) /\ DOMAIN E[n].words = 1..w
          /\ \A j \in 1..w : F[n].words[j] = E[n].words[j]
          /\ \A i \in 1..Pieces : F[n].words[w + i] = <<g.said + 1, i>>
      <4>1. \A u, v \in Seq(RunWord) :
                /\ DOMAIN (u \o v) = 1..(Len(u) + Len(v)) /\ DOMAIN u = 1..Len(u)
                /\ \A j \in 1..Len(u) : (u \o v)[j] = u[j]
                /\ \A i \in 1..Len(v) : (u \o v)[Len(u) + i] = v[i]
          OBVIOUS
      <4>2. F[n].words = E[n].words \o B
          BY <3>3, <3>5
      <4> QED
          BY <1>2, <3>1, <4>1, <4>2
    <3>7. \A k \in DOMAIN F : F[k].partial = "no"
        BY <2>1, <3>3, <3>5
    <3>8. F[n].t = "thinking" /\ F[n].t = Blocks[g.said + 1] /\ E[n].t = F[n].t
        BY <2>3, <3>3, <3>5
    <3>9. RunOK(F, [g EXCEPT !.said = g.said + 1, !.streamed = 0, !.broken = "no"], h)
      <4>1. RunGainsIn(E, F, g, n, w)
          BY <3>1, <3>5, <3>6, <3>7, <3>8 DEF RunGainsIn
      <4> QED
          BY <4>1, RunGains
    <3>10. Runner!Push(E, fresh) = F
        BY <1>1, <2>2, <2>3 DEF Runner!Push, F
    <3> QED
        BY <1>7, <1>9, <3>9, <3>10
  <2>4. CASE ~(n > 0 /\ t = "thinking" /\ E[n].t = "thinking" /\ E[n].mid = "no")
    <3> DEFINE F == Append(E, fresh)
               q == n + 1
    <3>1. /\ F \in Seq(RunEvent) /\ DOMAIN F = DOMAIN E \cup {q} /\ q \notin DOMAIN E /\ F[q] = fresh
          /\ \A k \in DOMAIN E : F[k] = E[k] /\ k < q
        BY <1>1, <2>2
    <3>2. Runner!Push(E, fresh) = F
        BY <1>1, <2>2, <2>4 DEF Runner!Push
    <3>3. q \in Nat
        BY <1>1
    <3> HIDE DEF F, q
    <3>4. \A k \in DOMAIN F : F[k].partial = "no"
        BY <2>1, <2>2, <3>1
    <3>5. \A l \in DOMAIN F : l <= q
        BY <1>1, <3>1, <3>3
    <3>6. DOMAIN F[q].words = 1..(0 + Pieces) /\ \A i \in 1..Pieces : F[q].words[0 + i] = <<g.said + 1, i>>
      <4>1. F[q].words = B /\ 0 + Pieces = Pieces /\ \A i \in 1..Pieces : 0 + i = i
          BY <1>1, <2>2, <3>1
      <4> QED
          BY <1>2, <4>1
    <3>7. RunOK(F, [g EXCEPT !.said = g.said + 1, !.streamed = 0, !.broken = "no"], h)
      <4>1. F[q].t = Blocks[g.said + 1] /\ q \in DOMAIN F
          BY <2>2, <3>1
      <4>2. RunGainsIn(E, F, g, q, 0)
          BY <3>1, <3>4, <3>5, <3>6, <4>1 DEF RunGainsIn
      <4> QED
          BY <4>2, RunGains
    <3> QED
        BY <1>7, <1>9, <3>2, <3>7
  <2> QED
      BY <2>3, <2>4
<1> QED
    BY <1>8, <1>9

(* The CLI's own books: what it counts as streamed is about no event once    *)
(* nothing is partial.                                                       *)
LEMMA RunCounts ==
    ASSUME NEW E, NEW g, NEW h, RunOK(E, g, h), NEW f \in RunAgent, f.said = g.said,
           g.streamed > 0 \/ g.broken = "yes" => f.streamed > 0 \/ f.broken = "yes"
    PROVE  RunOK(E, f, h)
  BY DEF RunOK, RunWordsOK, RunOnce, RunAll, RunEnds, RunIsLast

(* Codex thinks, and its feed leaves it out.                                 *)
LEMMA RunUnsaid ==
    ASSUME NEW E, NEW g, NEW h, RunOK(E, g, h), h # "claude", g.said < Len(Blocks), Blocks[g.said + 1] # "text",
           NEW f \in RunAgent, f.said = g.said + 1
    PROVE  RunOK(E, f, h)
<1>1. E \in Seq(RunEvent) /\ g.said \in Nat
    BY DEF RunOK, RunAgent
<1>2. \A k \in DOMAIN E : E[k].partial = "no" /\ \A j \in DOMAIN E[k].words : E[k].words[j][1] <= g.said /\ E[k].words[j][1] \in Nat
  <2> SUFFICES ASSUME NEW k \in DOMAIN E
               PROVE  E[k].partial = "no" /\ \A j \in DOMAIN E[k].words : E[k].words[j][1] <= g.said /\ E[k].words[j][1] \in Nat
      OBVIOUS
  <2>1. E[k] \in RunEvent /\ RunWordsOK(E[k], g, h)
      BY <1>1 DEF RunOK
  <2>2. E[k].partial = "no" /\ E[k].words \in Seq(RunWord)
      BY <2>1 DEF RunEvent, RunWordsOK
  <2>3. \A x \in RunWord : x[1] \in Nat
      BY DEF RunWord
  <2>4. \A j \in DOMAIN E[k].words : E[k].words[j] \in RunWord
      BY <2>2
  <2> QED
      BY <2>1, <2>2, <2>3, <2>4 DEF RunWordsOK
<1>3. \A k \in DOMAIN E : RunWordsOK(E[k], f, h)
    BY <1>1, <1>2 DEF RunWordsOK
<1>4. RunOnce(E, f)
  <2> SUFFICES ASSUME NEW k \in DOMAIN E, NEW l \in DOMAIN E, NEW i \in DOMAIN E[k].words, NEW j \in DOMAIN E[l].words,
                      E[k].words[i] = E[l].words[j], E[k].words[i][1] \in 1..f.said
               PROVE  k = l /\ i = j
      BY DEF RunOnce
  <2>1. E[k].words[i][1] \in 1..g.said
      BY <1>1, <1>2
  <2> QED
      BY <2>1 DEF RunOK, RunOnce
<1>5. RunAll(E, f, h)
  <2>1. \A b \in 1..f.said : b = g.said + 1 \/ b \in 1..g.said
      BY <1>1
  <2> QED
      BY <2>1 DEF RunOK, RunAll
<1>6. RunEnds(E, f)
  <2>1. \A b \in 1..f.said : b = g.said + 1 \/ b \in 1..g.said
      BY <1>1
  <2>2. 1..g.said \subseteq 1..f.said
      BY <1>1
  <2> QED
      BY <2>1, <2>2 DEF RunOK, RunEnds, RunIsLast
<1> QED
    BY <1>3, <1>4, <1>5, <1>6 DEF RunOK

(* A tool's answer changes no words.                                         *)
LEMMA RunAnswers ==
    ASSUME NEW E, NEW g, NEW h, RunOK(E, g, h), NEW K
    PROVE  RunOK([i \in DOMAIN E |-> IF i \in K THEN [E[i] EXCEPT !.pending = "no"] ELSE E[i]], g, h)
<1> DEFINE F == [i \in DOMAIN E |-> IF i \in K THEN [E[i] EXCEPT !.pending = "no"] ELSE E[i]]
<1>1. E \in Seq(RunEvent)
    BY DEF RunOK
<1>2. ASSUME NEW i \in DOMAIN E
      PROVE  /\ F[i] \in RunEvent
             /\ F[i].t = E[i].t /\ F[i].words = E[i].words /\ F[i].partial = E[i].partial
  <2>1. E[i] \in RunEvent
      BY <1>1
  <2> QED
      BY <2>1 DEF RunEvent
<1>3. F \in Seq(RunEvent) /\ Len(F) = Len(E)
  <2>1. DOMAIN F = 1..Len(E) /\ Len(E) \in Nat
      BY <1>1
  <2>2. \A i \in 1..Len(E) : F[i] \in RunEvent
      BY <1>2, <2>1
  <2> HIDE DEF F
  <2>3. F = [i \in 1..Len(E) |-> F[i]]
      BY <2>1 DEF F
  <2> QED
      BY <2>1, <2>2, <2>3
<1> HIDE DEF F
<1> QED
    BY <1>2, <1>3, RunAlike DEF F

(* A process that ends leaves its tools' answers as they are, or as answered.*)
LEMMA RunCutOff == RunInv /\ harness # "opencode" => RunOK(Runner!CutOff, agent, harness)
<1> SUFFICES ASSUME RunOK(events, agent, harness) PROVE RunOK(Runner!CutOff, agent, harness)
    BY DEF RunInv
<1>1. RunOK([i \in DOMAIN events |-> IF i \in DOMAIN events THEN [events[i] EXCEPT !.pending = "no"] ELSE events[i]],
            agent, harness)
    BY RunAnswers
<1>2. [i \in DOMAIN events |-> IF i \in DOMAIN events THEN [events[i] EXCEPT !.pending = "no"] ELSE events[i]]
      = [i \in DOMAIN events |-> [events[i] EXCEPT !.pending = "no"]]
    OBVIOUS
<1> QED
    BY <1>1, <1>2 DEF Runner!CutOff

(* A result of an error, or of nothing.                                      *)
LEMMA RunEnding ==
    ASSUME NEW E, NEW g, NEW h, RunOK(E, g, h), NEW words,
           words = Runner!ErrorWords \/ Runner!FinalEv(E, words, "final") = Append(E, Runner!Plain("final", <<>>))
    PROVE  RunOK(Runner!FinalEv(E, words, "final"), g, h)
<1>1. \E u \in {<<>>, Runner!ErrorWords} : Runner!FinalEv(E, words, "final") = Append(E, Runner!Plain("final", u))
    BY DEF Runner!FinalEv
<1>2. PICK u \in {<<>>, Runner!ErrorWords} : Runner!FinalEv(E, words, "final") = Append(E, Runner!Plain("final", u))
    BY <1>1
<1>3. u \in Seq(RunWord) /\ \A j \in DOMAIN u : u[j] = <<0, 0>>
  <2>1. CASE u = <<>>
      BY <2>1
  <2>2. CASE u = <<<<0, 0>>>>
    <3>1. <<0, 0>> \in RunWord
        BY DEF RunWord
    <3> QED
        BY <2>2, <3>1
  <2> QED
      BY <2>1, <2>2 DEF Runner!ErrorWords
<1>4. Runner!Plain("final", u) \in RunEvent /\ Runner!Plain("final", u).t = "final"
      /\ Runner!Plain("final", u).partial = "no" /\ Runner!Plain("final", u).words = u
    BY <1>3 DEF Runner!Plain, Runner!Event, RunEvent
<1> QED
    BY <1>2, <1>3, <1>4, RunAside

-----------------------------------------------------------------------------
(* The harness prints a line.                                                *)

LEMMA RunDelta == RunInv /\ Runner!Delta => RunInv'
<1> SUFFICES ASSUME RunInv, Runner!Delta PROVE RunOK(events', agent', harness')
    BY DEF RunInv
<1>1. /\ harness = "claude" /\ harness' = "claude" /\ RunOK(events, agent, "claude")
      /\ agent.said < Len(Blocks) /\ agent.streamed < Pieces
      /\ agent' = [agent EXCEPT !.streamed = agent.streamed + 1]
      /\ events' = Runner!PushDelta(events, Blocks[agent.said + 1], <<agent.said + 1, agent.streamed + 1>>)
    BY DEF RunInv, Runner!Delta, Runner!Prints, Runner!Saying, Runner!Next1, Runner!Pumps
<1> QED
    BY <1>1, RunStreams

LEMMA RunMessage == RunInv /\ Runner!Message => RunInv'
<1> SUFFICES ASSUME RunInv, Runner!Message, harness' # "opencode" PROVE RunOK(events', agent', harness')
    BY DEF RunInv
<1>1. /\ harness' = harness /\ RunOK(events, agent, harness) /\ agent.said < Len(Blocks)
      /\ agent' = [agent EXCEPT !.said = agent.said + 1, !.streamed = 0, !.broken = "no"]
      /\ events' = Runner!Whole(events, Blocks[agent.said + 1], Runner!Block(agent.said + 1))
    BY DEF RunInv, Runner!Message, Runner!Prints, Runner!Saying, Runner!Next1, Runner!Pumps
<1> QED
    BY <1>1, RunWhole

LEMMA RunUnsaidNext == RunInv /\ Runner!Unsaid => RunInv'
<1> SUFFICES ASSUME RunInv, Runner!Unsaid, harness' # "opencode" PROVE RunOK(events', agent', harness')
    BY DEF RunInv
<1>1. /\ harness' = harness /\ RunOK(events, agent, harness) /\ agent.said < Len(Blocks) /\ events' = events
      /\ harness # "claude" /\ Blocks[agent.said + 1] # "text"
      /\ agent' = [agent EXCEPT !.said = agent.said + 1]
    BY DEF RunInv, Runner!Unsaid, Runner!Prints, Runner!Saying, Runner!Next1, Runner!Text
<1>2. agent' \in RunAgent /\ agent'.said = agent.said + 1
  <2>1. agent \in RunAgent /\ agent.said + 1 \in 0..Len(Blocks)
      BY <1>1, BlocksAssumption DEF RunOK, RunAgent
  <2> QED
      BY <1>1, <2>1 DEF RunAgent
<1> QED
    BY <1>1, <1>2, RunUnsaid

LEMMA RunRestart == RunInv /\ Runner!Restart => RunInv'
<1> SUFFICES ASSUME RunInv, Runner!Restart, harness' # "opencode" PROVE RunOK(events', agent', harness')
    BY DEF RunInv
<1>1. /\ harness' = harness /\ RunOK(events, agent, harness) /\ events' = events
      /\ agent' = [agent EXCEPT !.streamed = 0, !.broken = "yes", !.faults = agent.faults + 1]
    BY DEF RunInv, Runner!Restart, Runner!Prints
<1>2. agent' \in RunAgent /\ agent'.said = agent.said /\ agent'.broken = "yes"
  <2>1. agent \in RunAgent /\ 0 \in 0..Pieces /\ "yes" \in {"no", "yes"}
      BY <1>1, BlocksAssumption DEF RunOK
  <2>2. agent.faults + 1 \in Nat
      BY <2>1 DEF RunAgent
  <2>3. /\ agent' \in RunAgent
        /\ agent'.said = agent.said
        /\ agent'.broken = "yes"
      BY <1>1, <2>1, <2>2 DEF RunAgent
  <2> QED
      BY <2>3
<1> QED
    BY <1>1, <1>2, RunCounts

LEMMA RunErrorSaid == RunInv /\ Runner!ErrorSaid => RunInv'
<1> SUFFICES ASSUME RunInv, Runner!ErrorSaid, harness' # "opencode" PROVE RunOK(events', agent', harness')
    BY DEF RunInv
<1> DEFINE ev == Runner!Plain("error", Runner!ErrorWords)
<1>1. /\ harness' = harness /\ RunOK(events, agent, harness)
      /\ events' = Runner!Push(events, ev) /\ agent' = [agent EXCEPT !.faults = agent.faults + 1]
    BY DEF RunInv, Runner!ErrorSaid, Runner!Prints, Runner!Pumps
<1>2. ev \in RunEvent /\ ev.t = "error" /\ ev.partial = "no" /\ ev.words = <<<<0, 0>>>>
    BY DEF Runner!Plain, Runner!Event, Runner!ErrorWords, RunEvent, RunWord
<1> HIDE DEF ev
<1>3. events' = events \/ events' = Append(events, ev)
    BY <1>1, <1>2 DEF Runner!Push
<1>4. RunOK(events', agent, harness)
  <2>1. \A j \in DOMAIN ev.words : ev.words[j] = <<0, 0>>
      BY <1>2
  <2>2. RunOK(Append(events, ev), agent, harness)
      BY <1>1, <1>2, <2>1, RunAside
  <2> QED
      BY <1>1, <1>3, <2>2
<1>5. agent' \in RunAgent /\ agent'.said = agent.said /\ agent'.streamed = agent.streamed /\ agent'.broken = agent.broken
    BY <1>1 DEF RunOK, RunAgent
<1> QED
    BY <1>1, <1>4, <1>5, RunCounts

LEMMA RunTool == ASSUME RunInv, NEW c \in Calls, Runner!ToolUse(c) \/ Runner!ToolResult(c) PROVE RunInv'
<1> SUFFICES ASSUME harness' # "opencode" PROVE RunOK(events', agent', harness')
    BY DEF RunInv
<1>1. harness' = harness /\ harness # "opencode" /\ RunOK(events, agent, harness) /\ agent' = agent
    BY DEF RunInv, Runner!ToolUse, Runner!ToolResult, Runner!Prints
<1>2. CASE Runner!ToolUse(c)
  <2> DEFINE ev == Runner!Event("tool", <<>>, "no", c, "yes")
  <2>1. ev \in RunEvent /\ ev.t = "tool" /\ ev.partial = "no" /\ ev.words = <<>>
      BY DEF Runner!Event, RunEvent
  <2>2. events' = Runner!Push(events, ev)
      BY <1>1, <1>2 DEF Runner!ToolUse, Runner!Pumps, Runner!AddTool
  <2> HIDE DEF ev
  <2>3. events' = Append(events, ev)
      BY <2>1, <2>2 DEF Runner!Push
  <2>4. \A j \in DOMAIN ev.words : ev.words[j] = <<0, 0>>
      BY <2>1
  <2> QED
      BY <1>1, <2>1, <2>3, <2>4, RunAside
<1>3. CASE Runner!ToolResult(c)
  <2> DEFINE K == {i \in DOMAIN events : events[i].t = "tool" /\ events[i].id = c}
  <2>1. events' = [i \in DOMAIN events |-> IF i \in K THEN [events[i] EXCEPT !.pending = "no"] ELSE events[i]]
      BY <1>3 DEF Runner!ToolResult, Runner!Pumps, Runner!SetResult
  <2> QED
      BY <1>1, <2>1, RunAnswers
<1> QED
    BY <1>2, <1>3

(* The turn ends on a whole last message: what streamed became its block.    *)
LEMMA RunResult == RunInv /\ Runner!Result => RunInv'
<1> SUFFICES ASSUME RunInv, Runner!Result, harness' # "opencode" PROVE RunOK(events', agent', harness')
    BY DEF RunInv
<1> DEFINE E == Runner!CutOff
           words == IF Runner!Answer # <<>> THEN Runner!Answer ELSE Runner!ErrorWords
<1>1. /\ harness' = harness /\ harness # "opencode" /\ agent' = agent /\ agent.streamed = 0 /\ agent.broken = "no"
      /\ events' = Runner!FinalEv(E, words, "final")
    BY DEF Runner!Result, Runner!Ends
<1>2. RunOK(E, agent, harness)
    BY <1>1, RunCutOff
<1>3. E \in Seq(RunEvent) /\ DOMAIN E = 1..Len(E) /\ Len(E) \in Nat /\ agent.said \in Nat
    BY <1>2 DEF RunOK, RunAgent
<1> HIDE DEF E
<1>4. \A k \in DOMAIN E : E[k].partial = "no"
  <2>1. \A k \in DOMAIN E : E[k] \in RunEvent /\ RunWordsOK(E[k], agent, harness)
      BY <1>2, <1>3 DEF RunOK
  <2> QED
      BY <1>1, <2>1 DEF RunWordsOK, RunEvent
<1>5. CASE Runner!Answer = <<>>
    BY <1>1, <1>2, <1>5, RunEnding
<1>6. CASE Runner!Answer # <<>>
  <2> DEFINE T == Runner!TextsSaid
             b == Runner!Max(T)
  <2>1. words = Runner!LastText /\ T # {} /\ Runner!LastText = Runner!Block(b)
      BY <1>1, <1>6 DEF Runner!Answer, Runner!LastText
  <2>2. b \in T /\ \A c \in T : c <= b
    <3>1. T \in SUBSET (1..agent.said)
        BY DEF Runner!TextsSaid
    <3> QED
        BY <1>3, <2>1, <3>1, RunMax
  <2>3. b \in 1..agent.said /\ RunIsLast(b, agent)
      BY <2>2 DEF Runner!TextsSaid, Runner!Text, RunIsLast
  <2> HIDE DEF b
  <2>4. PICK k \in DOMAIN E : RunShows(E, k, b)
      BY <1>2, <2>3 DEF RunOK, RunEnds
  <2> DEFINE S == {i \in DOMAIN E : E[i].t = "text"}
             last == Runner!LastOf(E, LAMBDA e : e.t = "text")
  <2>5. last = IF S = {} THEN 0 ELSE Runner!Max(S)
      BY DEF Runner!LastOf
  <2>6. k \in S /\ \A l \in S : l <= k
    <3>1. \A l \in DOMAIN E : E[l].t = "text" => ~(l > k)
        BY <1>4, <2>4 DEF RunShows
    <3> QED
        BY <1>3, <2>4, <3>1 DEF RunShows
  <2>7. Runner!Max(S) \in S /\ \A i \in S : i <= Runner!Max(S)
      BY <1>3, <2>6, RunMax, S \in SUBSET (1..Len(E))
  <2>8. last = k
    <3>1. Runner!Max(S) \in Nat /\ k \in Nat
        BY <1>3, <2>4, <2>7
    <3>2. Runner!Max(S) <= k /\ k <= Runner!Max(S) /\ S # {}
        BY <2>6, <2>7
    <3> HIDE DEF last, S
    <3> QED
        BY <2>5, <3>1, <3>2
  <2>9. last # 0 /\ E[last].words = words
      BY <1>3, <2>1, <2>4, <2>8 DEF RunShows, b
  <2> HIDE DEF words
  <2>10. Runner!FinalEv(E, words, "final") = Append(E, Runner!Plain("final", <<>>))
      BY <2>9 DEF Runner!FinalEv
  <2> QED
      BY <1>1, <1>2, <2>10, RunEnding
<1> QED
    BY <1>5, <1>6

(* The process ends without a result, in the middle of a block perhaps.      *)
LEMMA RunDies == RunInv /\ Runner!Dies => RunInv'
<1> SUFFICES ASSUME RunInv, Runner!Dies, harness' # "opencode" PROVE RunOK(events', agent', harness')
    BY DEF RunInv
<1>1. /\ harness' = harness /\ agent' = agent
      /\ events' = Runner!CutOff \/ events' = Runner!FinalEv(Runner!CutOff, Runner!ErrorWords, "final")
    BY DEF Runner!Dies, Runner!Ends
<1>2. RunOK(Runner!CutOff, agent, harness)
    BY <1>1, RunCutOff
<1> QED
    BY <1>1, <1>2, RunEnding

(* Nothing was said yet.                                                     *)
LEMMA RunEmpty ==
    ASSUME NEW g \in RunAgent, g.said = 0, NEW h PROVE RunOK(<<>>, g, h)
<1>1. <<>> \in Seq(RunEvent) /\ DOMAIN <<>> = {} /\ 1..0 = {}
    OBVIOUS
<1> QED
    BY <1>1 DEF RunOK, RunLatest, RunOnce, RunAll, RunEnds

(* A wrap-up turn begins a log of its own; the rest is said above.           *)
LEMMA RunNext == RunInv /\ [Runner!NextJob]_(Runner!jvars) => RunInv'
<1>1. ASSUME RunInv, Runner!WrapUpTurn PROVE RunInv'
  <2> SUFFICES ASSUME harness' # "opencode" PROVE RunOK(events', agent', harness')
      BY DEF RunInv
  <2>1. /\ harness' = harness /\ events' = <<>> /\ RunOK(events, agent, harness)
        /\ agent' = [agent EXCEPT !.said = 0, !.streamed = 0, !.broken = "no"]
      BY <1>1 DEF RunInv, Runner!WrapUpTurn
  <2>2. agent \in RunAgent /\ 0 \in 0..Pieces /\ 0 \in 0..Len(Blocks) /\ "no" \in {"no", "yes"}
      BY <2>1, BlocksAssumption DEF RunOK
  <2>3. agent' \in RunAgent /\ agent'.said = 0
      BY <2>1, <2>2 DEF RunAgent
  <2> QED
      BY <2>1, <2>3, RunEmpty
<1>2. RunInv /\ UNCHANGED Runner!jvars => RunInv'
    BY DEF Runner!jvars, RunInv
<1> QED
    BY <1>1, <1>2, RunDelta, RunRestart, RunMessage, RunUnsaidNext, RunErrorSaid, RunTool, RunResult, RunDies
    DEF Runner!NextJob

(* What an agent said stands in its transcript once: every piece of a block  *)
(* that is complete has exactly one place, whether it streamed, streamed     *)
(* again, was merged with its neighbour or is also the result.               *)
THEOREM EachPieceOnce == Runner!Spec => []SaidOnce
<1>1. Runner!InitJob => RunInv
  <2> SUFFICES ASSUME Runner!InitJob PROVE RunOK(events, agent, harness)
      BY DEF RunInv
  <2>1. /\ events = <<>> /\ agent = [said |-> 0, streamed |-> 0, broken |-> "no", faults |-> 0]
        /\ 0 \in 0..Pieces /\ 0 \in 0..Len(Blocks)
      BY BlocksAssumption DEF Runner!InitJob
  <2>2. agent \in RunAgent /\ agent.said = 0
      BY <2>1 DEF RunAgent
  <2> QED
      BY <2>1, <2>2, RunEmpty
<1>2. RunInv => SaidOnce
  <2> SUFFICES ASSUME RunOK(events, agent, harness), NEW b \in 1..agent.said, harness = "claude" \/ Blocks[b] = "text"
               PROVE  Cardinality(Runner!Shown(b)) = Pieces
      BY RunCardinality DEF RunInv, SaidOnce, Runner!SaidOnce, Runner!Text
  <2> DEFINE P == Runner!Shown(b)
             Word(p) == events[p[1]].words[p[2]]
             place == [i \in 1..Pieces |-> CHOOSE p \in P : Word(p) = <<b, i>>]
  <2>1. /\ events \in Seq(RunEvent) /\ agent.said \in Nat /\ b \in Nat \ {0} /\ Pieces \in Nat
        /\ \A k \in DOMAIN events : events[k].words \in Seq(RunWord)
    <3>1. events \in Seq(RunEvent) /\ agent.said \in Nat
        BY DEF RunOK, RunAgent
    <3>2. \A e \in RunEvent : e.words \in Seq(RunWord)
        BY DEF RunEvent
    <3> QED
        BY <3>1, <3>2, BlocksAssumption
  <2>2. \A p \in P : p[1] \in DOMAIN events /\ p[2] \in DOMAIN events[p[1]].words /\ p = <<p[1], p[2]>> /\ Word(p)[1] = b
      BY DEF Runner!Shown
  <2>3. \A k \in DOMAIN events : \A j \in DOMAIN events[k].words : events[k].words[j][1] = b => <<k, j>> \in P
      BY DEF Runner!Shown
  <2> HIDE DEF P
  <2>4. \A p \in P : Word(p)[2] \in 1..Pieces /\ Word(p) = <<b, Word(p)[2]>>
    <3> SUFFICES ASSUME NEW p \in P PROVE Word(p)[2] \in 1..Pieces /\ Word(p) = <<b, Word(p)[2]>>
        OBVIOUS
    <3>1. Word(p) \in RunWord /\ Word(p)[1] # 0
        BY <2>1, <2>2
    <3> QED
        BY <2>2, <3>1 DEF RunWord
  <2>5. \A p, q \in P : Word(p) = Word(q) => p = q
    <3> SUFFICES ASSUME NEW p \in P, NEW q \in P, Word(p) = Word(q) PROVE p = q
        OBVIOUS
    <3>1. p[1] = q[1] /\ p[2] = q[2]
        BY <2>2 DEF RunOK, RunOnce
    <3> QED
        BY <2>2, <3>1
  <2>6. \A i \in 1..Pieces : place[i] \in P /\ Word(place[i]) = <<b, i>>
    <3> SUFFICES ASSUME NEW i \in 1..Pieces PROVE \E p \in P : Word(p) = <<b, i>>
        OBVIOUS
    <3>1. PICK k \in DOMAIN events : \E j \in DOMAIN events[k].words : events[k].words[j] = <<b, i>>
        BY DEF RunOK, RunAll, RunThere
    <3>2. PICK j \in DOMAIN events[k].words : events[k].words[j] = <<b, i>>
        BY <3>1
    <3>3. <<k, j>> \in P /\ Word(<<k, j>>) = <<b, i>>
        BY <2>3, <3>2
    <3> QED
        BY <3>3
  <2>7. place \in [1..Pieces -> P]
      BY <2>6
  <2> HIDE DEF place, Word
  <2>8. \A i, j \in 1..Pieces : place[i] = place[j] => i = j
    <3>1. \A i, j \in 1..Pieces : <<b, i>> = <<b, j>> => i = j
        OBVIOUS
    <3> QED
        BY <2>6, <3>1
  <2>9. \A p \in P : \E i \in 1..Pieces : place[i] = p
    <3> SUFFICES ASSUME NEW p \in P PROVE place[Word(p)[2]] = p
        BY <2>4
    <3> QED
        BY <2>4, <2>5, <2>6
  <2>10. place \in Bijection(1..Pieces, P)
      BY <2>7, <2>8, <2>9 DEF Bijection, Injection, Surjection, IsInjective
  <2>11. ExistsBijection(1..Pieces, P)
      BY <2>10 DEF ExistsBijection
  <2> QED
      BY <2>1, <2>11, FS_CountingElements DEF P
<1> QED
    BY <1>1, <1>2, RunNext, PTL DEF Runner!Spec
================================================================================
