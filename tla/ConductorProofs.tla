---------------------------- MODULE ConductorProofs ----------------------------
(* Proofs about Conductor: its types, the order of the turns and the session a
   turn resumes, for any number of handlers, agents, messages and faults. *)
EXTENDS Conductor, TLAPS

Started == {"running", "done", "failed", "stopped"}
Waiting == {"queued", "running"}

(* No message before the n-th waits or runs. *)
Alone(n) == \A m \in 1..(n - 1) : msgs[m].state \notin Waiting

(* What a handler relies on between two steps: the turn it starts is taken and
   nothing before it is open, the document it applies is one of a job, and the
   job it binds is at Run. *)
Starts == {"choose", "submit", "refused", "bind"}
Relies(p) ==
    /\ h[p].pc \in Starts => h[p].n \in Turns /\ msgs[h[p].n].state \in Started /\ Alone(h[p].n)
    /\ h[p].pc = "apply" => h[p].n \in Turns /\ h[p].state \in RunStates
    /\ h[p].pc = "bind" => jobs[h[p].n].state # "none"
HandlerOK == \A p \in Handlers : Relies(p)

(* The row's job is one that was submitted. *)
JobOK == row.job # 0 => jobs[row.job].state # "none"

IInv == TypeOK /\ TurnsInOrder /\ HandlerOK /\ JobOK

(* A step after which no message is open that was not, but for one written after
   all others, and none is back from having started. *)
Calm ==
    \A n \in Turns :
        /\ msgs'[n].state \in Waiting => msgs[n].state \in Waiting \/ \A m \in n..MaxTurns : msgs[m].state = "none"
        /\ msgs[n].state \in Started => msgs'[n].state \in Started

(* A step in which no turn starts. *)
NoneStarts ==
    \A n \in Turns : msgs'[n].state \in {"running", "done", "failed"} => msgs[n].state \in {"running", "done", "failed"}

(* Jobs stay at Run. *)
Kept == \A n \in Turns : jobs[n].state # "none" => jobs'[n].state # "none"

(* What a handler knows about the messages before a turn that started survives
   a calm step. *)
LEMMA CalmAlone == ASSUME NEW n \in Turns, Alone(n), Calm, msgs[n].state \in Started
                   PROVE  \A m \in 1..(n - 1) : msgs'[m].state \notin Waiting
<1> SUFFICES ASSUME NEW m \in 1..(n - 1) PROVE msgs'[m].state \notin Waiting
  OBVIOUS
<1>1. m \in Turns /\ n \in m..MaxTurns BY ConductorAssumption DEF Turns
<1>2. msgs[m].state \notin Waiting BY DEF Alone
<1>3. msgs[n].state # "none" BY DEF Started
<1> QED BY <1>1, <1>2, <1>3 DEF Calm

(* ... and so does the order of the turns, when none starts. *)
LEMMA CalmOrder == ASSUME TurnsInOrder, Calm, NoneStarts PROVE TurnsInOrder'
<1> SUFFICES ASSUME NEW n \in Turns, msgs'[n].state \in {"running", "done", "failed"}, NEW m \in 1..(n - 1)
             PROVE  msgs'[m].state \notin {"queued", "running"}
  BY DEF TurnsInOrder
<1>1. msgs[n].state \in {"running", "done", "failed"} BY DEF NoneStarts
<1>2. Alone(n) BY <1>1 DEF TurnsInOrder, Alone, Waiting
<1>3. msgs'[m].state \notin Waiting BY <1>1, <1>2, CalmAlone DEF Started
<1> QED BY <1>3 DEF Waiting

(* A step that leaves the messages alone is calm. *)
LEMMA SameIsCalm == ASSUME UNCHANGED msgs PROVE Calm /\ NoneStarts
  BY DEF Calm, NoneStarts, Waiting, Started

(* A handler that does not move can still rely on what it did, after a calm step. *)
LEMMA StillRelies ==
  ASSUME NEW q \in Handlers, Relies(q), Calm, Kept, h'[q] = h[q]
  PROVE  Relies(q)'
<1>1. h[q].pc \in Starts => h[q].n \in Turns /\ msgs[h[q].n].state \in Started /\ Alone(h[q].n)
  BY DEF Relies
<1>2. h[q].pc \in Starts => msgs'[h[q].n].state \in Started
  BY <1>1 DEF Calm
<1>3. h[q].pc \in Starts => \A m \in 1..(h[q].n - 1) : msgs'[m].state \notin Waiting
  BY <1>1, CalmAlone
<1>4. h[q].pc = "bind" => jobs'[h[q].n].state # "none"
  BY <1>1 DEF Relies, Kept, Starts
<1> QED BY <1>1, <1>2, <1>3, <1>4 DEF Relies, Alone

(* A calm step of handler p alone: what p relies on next is left to show. *)
LEMMA OthersRely ==
  ASSUME TypeOK, HandlerOK, Calm, Kept, NEW p \in Handlers, NEW to, Go(p, to), Relies(p)'
  PROVE  HandlerOK'
<1> SUFFICES ASSUME NEW q \in Handlers, q # p PROVE Relies(q)'
  BY DEF HandlerOK
<1>1. h'[q] = h[q] BY DEF TypeOK, Go
<1> QED BY <1>1, StillRelies DEF HandlerOK

(* Facts about the constants and about the places of a handler. *)
LEMMA IdleType == Idle \in Handler /\ Idle.pc = "idle"
  BY DEF Idle, Handler, Maybe, Steps

(* A handler that goes where nothing is relied on relies on nothing. *)
LEMMA ReliesNot ==
  ASSUME NEW p \in Handlers, NEW to, TypeOK, Go(p, to), to.pc \notin Starts \cup {"apply"}
  PROVE  Relies(p)'
<1>1. h'[p] = to BY DEF TypeOK, Go
<1> QED BY <1>1 DEF Relies, Starts

(* The initial state. *)
LEMMA InitInv == Init => IInv
<1> SUFFICES ASSUME Init PROVE IInv
  OBVIOUS
<1> USE ConductorAssumption
<1>1. TypeOK
  <2>1. row \in Row BY DEF Init, Row, Maybe
  <2>2. att \in Attempt BY DEF Init, Attempt, Maybe
  <2>3. msgs \in [Turns -> Message]
    <3>1. NoMessage \in Message BY DEF NoMessage, Message, Maybe
    <3> QED BY <3>1 DEF Init
  <2>4. jobs \in [Turns -> Job]
    <3>1. NoJob \in Job BY DEF NoJob, Job, Maybe
    <3> QED BY <3>1 DEF Init
  <2>5. h \in [Handlers -> Handler] BY IdleType DEF Init
  <2> QED BY <2>1, <2>2, <2>3, <2>4, <2>5 DEF TypeOK, Init
<1>2. TurnsInOrder BY DEF Init, TurnsInOrder, NoMessage
<1>3. HandlerOK BY DEF Init, HandlerOK, Relies, Idle, Starts
<1>4. JobOK BY DEF Init, JobOK
<1> QED BY <1>1, <1>2, <1>3, <1>4 DEF IInv

(* A calm step that keeps the row's job and leaves handler p where it relies on
   nothing: only the types are left to show. *)
LEMMA QuietStep ==
  ASSUME IInv, TypeOK', Calm, NoneStarts, Kept, row'.job = row.job, NEW p \in Handlers, NEW to, Go(p, to),
         to.pc \notin Starts \cup {"apply"}
  PROVE  IInv'
<1>1. Relies(p)' BY ReliesNot DEF IInv
<1>2. HandlerOK' BY <1>1, OthersRely DEF IInv
<1>3. TurnsInOrder' BY CalmOrder DEF IInv
<1>4. JobOK' BY DEF IInv, JobOK, Kept, TypeOK, Row, Maybe
<1> QED BY <1>2, <1>3, <1>4 DEF IInv

(* The types of the handlers after p went to a handler's place. *)
LEMMA GoType == ASSUME TypeOK, NEW p \in Handlers, NEW to \in Handler, Go(p, to)
                PROVE  h' \in [Handlers -> Handler]
  BY DEF TypeOK, Go

(* create. *)
LEMMA CreateInv == ASSUME IInv, NEW p \in Handlers, Create(p) PROVE IInv'
<1> DEFINE to == [Idle EXCEPT !.pc = "attempt"]
<1>1. to \in Handler /\ to.pc = "attempt" BY IdleType DEF Handler, Steps
<1>2. Go(p, to) BY DEF Create
<1> HIDE DEF to
<1>3. TypeOK BY DEF IInv
<1>4. row' \in Row /\ row'.job = row.job BY <1>3 DEF Create, TypeOK, Row, RunStates
<1>5. h' \in [Handlers -> Handler] BY <1>1, <1>2, <1>3, GoType
<1>6. TypeOK' BY <1>3, <1>4, <1>5 DEF Create, TypeOK
<1>7. Calm /\ NoneStarts /\ Kept BY SameIsCalm DEF Create, Kept
<1> QED BY <1>1, <1>2, <1>4, <1>6, <1>7, QuietStep DEF Starts

(* create: the attempt. *)
LEMMA CreateAttemptInv == ASSUME IInv, NEW p \in Handlers, CreateAttempt(p) PROVE IInv'
<1> DEFINE to == [Idle EXCEPT !.pc = "write"]
<1>1. to \in Handler /\ to.pc = "write" BY IdleType DEF Handler, Steps
<1>2. Go(p, to) BY DEF CreateAttempt
<1> HIDE DEF to
<1>3. TypeOK BY DEF IInv
<1>4. att' \in Attempt BY <1>3 DEF CreateAttempt, TypeOK, Attempt
<1>5. h' \in [Handlers -> Handler] BY <1>1, <1>2, <1>3, GoType
<1>6. TypeOK' BY <1>3, <1>4, <1>5 DEF CreateAttempt, TypeOK
<1>7. Calm /\ NoneStarts /\ Kept BY SameIsCalm DEF CreateAttempt, Kept
<1> QED BY <1>1, <1>2, <1>6, <1>7, QuietStep DEF Starts, CreateAttempt

(* message. *)
LEMMA WriteInv == ASSUME IInv, NEW p \in Handlers, Write(p) PROVE IInv'
<1> DEFINE to == [Idle EXCEPT !.pc = "write"]
<1>1. to \in Handler /\ to.pc = "write" BY IdleType DEF Handler, Steps
<1>2. Go(p, to) BY DEF Write
<1> HIDE DEF to
<1>3. TypeOK BY DEF IInv
<1>4. row' \in Row /\ row'.job = row.job BY <1>3 DEF Write, TypeOK, Row
<1>5. h' \in [Handlers -> Handler] BY <1>1, <1>2, <1>3, GoType
<1>6. TypeOK' BY <1>3, <1>4, <1>5 DEF Write, TypeOK
<1>7. Calm /\ NoneStarts /\ Kept BY SameIsCalm DEF Write, Kept
<1> QED BY <1>1, <1>2, <1>4, <1>6, <1>7, QuietStep DEF Starts
(* enqueue. *)
LEMMA EnqueueInv == ASSUME IInv, NEW p \in Handlers, Enqueue(p) PROVE IInv'
<1>0. TypeOK BY DEF IInv
<1>1. CASE row.outcome = "stopped"
  <2>1. Go(p, Idle) /\ UNCHANGED msgs BY <1>1 DEF Enqueue, Done
  <2>2. h' \in [Handlers -> Handler] BY <1>0, <2>1, IdleType, GoType
  <2>3. TypeOK' BY <1>0, <2>1, <2>2 DEF Enqueue, TypeOK
  <2>4. Calm /\ NoneStarts /\ Kept BY <2>1, SameIsCalm DEF Enqueue, Kept
  <2> QED BY <2>1, <2>3, <2>4, IdleType, QuietStep DEF Starts, Enqueue
<1>2. CASE row.outcome # "stopped"
  <2> DEFINE to == [Idle EXCEPT !.pc = "take"]
  <2>1. to \in Handler /\ to.pc = "take" BY IdleType DEF Handler, Steps
  <2>2. Go(p, to) BY <1>2 DEF Enqueue
  <2> HIDE DEF to
  <2>3. PICK n \in Turns : /\ \A m \in Turns : msgs[m].state = "none" <=> m >= n
                           /\ msgs' = [msgs EXCEPT ![n] = [NoMessage EXCEPT !.state = "queued"]]
    BY <1>2 DEF Enqueue
  <2>4. [NoMessage EXCEPT !.state = "queued"] \in Message /\ [NoMessage EXCEPT !.state = "queued"].state = "queued"
    BY DEF NoMessage, Message, Maybe
  <2>5. msgs' \in [Turns -> Message] /\ msgs'[n].state = "queued" /\ \A m \in Turns \ {n} : msgs'[m] = msgs[m]
    BY <1>0, <2>3, <2>4 DEF TypeOK
  <2>6. h' \in [Handlers -> Handler] BY <1>0, <2>1, <2>2, GoType
  <2>7. TypeOK' BY <1>0, <2>5, <2>6 DEF Enqueue, TypeOK
  <2>8. \A m \in n..MaxTurns : msgs[m].state = "none" BY <2>3, ConductorAssumption DEF Turns
  <2>9. msgs[n].state = "none" BY <2>8, ConductorAssumption DEF Turns
  <2>10. Calm BY <2>5, <2>8, <2>9 DEF Calm, Waiting, Started
  <2>11. NoneStarts BY <2>5 DEF NoneStarts
  <2>12. Kept BY DEF Kept, Enqueue
  <2> QED BY <2>1, <2>2, <2>7, <2>10, <2>11, <2>12, QuietStep DEF Starts, Enqueue
<1> QED BY <1>1, <1>2

(* startNext takes a message: all before it are closed, so it may run. *)
LEMMA TakeInv == ASSUME IInv, NEW p \in Handlers, Take(p) PROVE IInv'
<1>0. TypeOK BY DEF IInv
<1>1. CASE \A n \in Turns : ~NextTurn(n)
  <2>1. Go(p, Idle) /\ UNCHANGED <<row, msgs>> BY <1>1 DEF Take, Done
  <2>2. h' \in [Handlers -> Handler] BY <1>0, <2>1, IdleType, GoType
  <2>3. TypeOK' BY <1>0, <2>1, <2>2 DEF Take, TypeOK
  <2>4. Calm /\ NoneStarts /\ Kept BY <2>1, SameIsCalm DEF Take, Kept
  <2> QED BY <2>1, <2>3, <2>4, IdleType, QuietStep DEF Starts
<1>2. CASE \E n \in Turns : NextTurn(n)
  <2>1. PICK n \in Turns :
          /\ NextTurn(n)
          /\ msgs' = [msgs EXCEPT ![n].state = "running"]
          /\ row' = [row EXCEPT !.state = "queued", !.outcome = "none"]
          /\ Go(p, [Idle EXCEPT !.pc = "choose", !.n = n, !.agent = row.agent, !.resume = att.session])
    BY <1>2 DEF Take
  <2> DEFINE to == [Idle EXCEPT !.pc = "choose", !.n = n, !.agent = row.agent, !.resume = att.session]
  <2>2. row.agent \in Agents /\ att.session \in Maybe(Turns) BY <1>0 DEF TypeOK, Row, Attempt
  <2>3. to \in Handler /\ to.pc = "choose" /\ to.n = n BY <2>2 DEF Idle, Handler, Steps, Maybe
  <2>4. Go(p, to) BY <2>1
  <2> HIDE DEF to
  <2>5. msgs[n] \in Message BY <1>0 DEF TypeOK
  <2>6. [msgs[n] EXCEPT !.state = "running"] \in Message /\ [msgs[n] EXCEPT !.state = "running"].state = "running"
    BY <2>5 DEF Message
  <2>7. msgs' \in [Turns -> Message] /\ msgs'[n].state = "running" /\ \A m \in Turns \ {n} : msgs'[m] = msgs[m]
    BY <1>0, <2>1, <2>6 DEF TypeOK
  <2>8. row' \in Row /\ row'.job = row.job BY <1>0, <2>1 DEF TypeOK, Row, RunStates
  <2>9. h' \in [Handlers -> Handler] BY <1>0, <2>3, <2>4, GoType
  <2>10. TypeOK' BY <1>0, <2>7, <2>8, <2>9 DEF Take, TypeOK
  <2>11. msgs[n].state = "queued" /\ \A m \in 1..(n - 1) : msgs[m].state # "queued" BY <2>1 DEF NextTurn
  <2>12. \A m \in Turns : msgs[m].state # "running" BY <2>1 DEF NextTurn
  <2>13. Calm BY <2>7, <2>11 DEF Calm, Waiting, Started
  <2>14. Kept BY DEF Kept, Take
  <2>15. \A m \in 1..(n - 1) : msgs'[m].state \notin Waiting
    <3> SUFFICES ASSUME NEW m \in 1..(n - 1) PROVE msgs'[m].state \notin Waiting
      OBVIOUS
    <3>1. m \in Turns \ {n} BY ConductorAssumption DEF Turns
    <3> QED BY <3>1, <2>7, <2>11, <2>12 DEF Waiting
  <2>16. TurnsInOrder'
    <3> SUFFICES ASSUME NEW k \in Turns, msgs'[k].state \in {"running", "done", "failed"}
                 PROVE  \A m \in 1..(k - 1) : msgs'[m].state \notin Waiting
      BY DEF TurnsInOrder, Waiting
    <3>1. CASE k = n BY <3>1, <2>15
    <3>2. CASE k # n
      <4>1. msgs[k].state \in {"running", "done", "failed"} BY <3>2, <2>7
      <4>2. Alone(k) BY <4>1 DEF IInv, TurnsInOrder, Alone, Waiting
      <4> QED BY <4>1, <4>2, <2>13, CalmAlone DEF Started
    <3> QED BY <3>1, <3>2
  <2>17. Relies(p)'
    <3>1. h'[p] = to BY <1>0, <2>4 DEF TypeOK, Go
    <3>2. Alone(n)' BY <2>15 DEF Alone
    <3> QED BY <3>1, <3>2, <2>3, <2>7 DEF Relies, Alone, Started
  <2>18. HandlerOK' BY <1>0, <2>4, <2>13, <2>14, <2>17, OthersRely DEF IInv
  <2>19. JobOK' BY <2>8, <2>10, <2>14 DEF IInv, JobOK, Kept, TypeOK, Row, Maybe, Take
  <2> QED BY <2>10, <2>16, <2>18, <2>19 DEF IInv
<1> QED BY <1>1, <1>2
(* A step that changes only what one message carries, not its state, is calm. *)
LEMMA SameStateIsCalm ==
  ASSUME \A n \in Turns : msgs'[n].state = msgs[n].state
  PROVE  Calm /\ NoneStarts
  BY DEF Calm, NoneStarts, Waiting, Started

(* startNext goes on with the turn it took: handler p keeps its turn. *)
LEMMA TurnStep ==
  ASSUME IInv, TypeOK', Calm, NoneStarts, Kept, row'.job = row.job, NEW p \in Handlers, NEW to, Go(p, to),
         h[p].pc \in Starts, to.pc \in Starts, to.n = h[p].n,
         to.pc = "bind" => jobs'[to.n].state # "none"
  PROVE  IInv'
<1>1. h'[p] = to BY DEF IInv, TypeOK, Go
<1>2. h[p].n \in Turns /\ msgs[h[p].n].state \in Started /\ Alone(h[p].n) BY DEF IInv, HandlerOK, Relies
<1>3. msgs'[h[p].n].state \in Started BY <1>2 DEF Calm
<1>4. \A m \in 1..(h[p].n - 1) : msgs'[m].state \notin Waiting BY <1>2, CalmAlone
<1>5. to.pc # "apply" BY DEF Starts
<1>6. Relies(p)' BY <1>1, <1>2, <1>3, <1>4, <1>5 DEF Relies, Alone
<1>7. HandlerOK' BY <1>6, OthersRely DEF IInv
<1>8. TurnsInOrder' BY CalmOrder DEF IInv
<1>9. JobOK' BY DEF IInv, JobOK, Kept, TypeOK, Row, Maybe
<1> QED BY <1>7, <1>8, <1>9 DEF IInv

(* startNext: the failover. *)
LEMMA ChooseInv == ASSUME IInv, NEW p \in Handlers, Choose(p) PROVE IInv'
<1>0. TypeOK /\ h[p] \in Handler /\ h[p].pc = "choose" BY DEF IInv, TypeOK, Choose
<1>1. h[p].n \in Turns BY <1>0 DEF IInv, HandlerOK, Relies, Starts
<1>2. ASSUME NEW a \in Agents, NEW s \in Maybe(Turns),
             msgs' = [msgs EXCEPT ![h[p].n].agent = a],
             Go(p, [h[p] EXCEPT !.pc = "submit", !.agent = a, !.resume = s]), UNCHANGED faults
      PROVE  IInv'
  <2> DEFINE to == [h[p] EXCEPT !.pc = "submit", !.agent = a, !.resume = s]
  <2>1. to \in Handler /\ to.pc = "submit" /\ to.n = h[p].n BY <1>0 DEF Handler, Steps
  <2>2. Go(p, to) BY <1>2
  <2> HIDE DEF to
  <2>3. msgs[h[p].n] \in Message BY <1>0, <1>1 DEF TypeOK
  <2>4. [msgs[h[p].n] EXCEPT !.agent = a] \in Message
        /\ [msgs[h[p].n] EXCEPT !.agent = a].state = msgs[h[p].n].state
    BY <2>3 DEF Message
  <2>5. msgs' \in [Turns -> Message] /\ \A n \in Turns : msgs'[n].state = msgs[n].state
    BY <1>0, <1>1, <1>2, <2>4 DEF TypeOK
  <2>6. h' \in [Handlers -> Handler] BY <1>0, <2>1, <2>2, GoType
  <2>7. TypeOK' BY <1>0, <1>2, <2>5, <2>6 DEF Choose, TypeOK
  <2>8. Calm /\ NoneStarts /\ Kept BY <2>5, SameStateIsCalm DEF Choose, Kept
  <2> QED BY <1>0, <2>1, <2>2, <2>7, <2>8, TurnStep DEF Starts, Choose
<1>3. ASSUME Fault("choose"), Go(p, [h[p] EXCEPT !.pc = "submit"]), UNCHANGED msgs
      PROVE  IInv'
  <2> DEFINE to == [h[p] EXCEPT !.pc = "submit"]
  <2>1. to \in Handler /\ to.pc = "submit" /\ to.n = h[p].n BY <1>0 DEF Handler, Steps
  <2>2. Go(p, to) BY <1>3
  <2> HIDE DEF to
  <2>3. h' \in [Handlers -> Handler] BY <1>0, <2>1, <2>2, GoType
  <2>4. faults' \in Nat BY <1>0, <1>3 DEF Fault, TypeOK
  <2>5. TypeOK' BY <1>0, <1>3, <2>3, <2>4 DEF Choose, TypeOK
  <2>6. Calm /\ NoneStarts /\ Kept BY <1>3, SameIsCalm DEF Choose, Kept
  <2> QED BY <1>0, <2>1, <2>2, <2>5, <2>6, TurnStep DEF Starts, Choose
<1> QED BY <1>2, <1>3 DEF Choose

(* startNext: run.submit. *)
LEMMA SubmitInv == ASSUME IInv, NEW p \in Handlers, Submit(p) PROVE IInv'
<1> DEFINE n == h[p].n
           job == [NoJob EXCEPT !.state = "queued", !.agent = h[p].agent, !.resume = h[p].resume]
<1>0. TypeOK /\ h[p] \in Handler /\ h[p].pc = "submit" BY DEF IInv, TypeOK, Submit
<1>1. n \in Turns BY <1>0 DEF IInv, HandlerOK, Relies, Starts
<1>2. job \in Job /\ job.state = "queued" BY <1>0 DEF Handler, Job, NoJob, RunStates, Maybe
<1>3. PICK pc \in {"bind", "refused"} :
        /\ Go(p, [h[p] EXCEPT !.pc = pc])
        /\ jobs' = [jobs EXCEPT ![n] = job] \/ (pc = "refused" /\ UNCHANGED jobs)
        /\ faults' \in Nat
  BY <1>0 DEF Submit, Fault, TypeOK
<1> HIDE DEF job
<1> DEFINE to == [h[p] EXCEPT !.pc = pc]
<1>4. to \in Handler /\ to.pc = pc /\ to.n = n BY <1>0 DEF Handler, Steps
<1>5. Go(p, to) BY <1>3
<1> HIDE DEF to
<1>6. jobs' \in [Turns -> Job] /\ Kept /\ (pc = "bind" => jobs'[n].state # "none")
  BY <1>0, <1>1, <1>2, <1>3 DEF TypeOK, Kept
<1>7. h' \in [Handlers -> Handler] BY <1>0, <1>4, <1>5, GoType
<1>8. TypeOK' BY <1>0, <1>3, <1>6, <1>7 DEF Submit, TypeOK
<1>9. Calm /\ NoneStarts BY SameIsCalm DEF Submit
<1> QED BY <1>0, <1>4, <1>5, <1>6, <1>8, <1>9, TurnStep DEF Starts, Submit

(* startNext: the turn could not start. *)
LEMMA RefusedInv == ASSUME IInv, NEW p \in Handlers, Refused(p) PROVE IInv'
<1>0. TypeOK /\ h[p].pc = "refused" BY DEF IInv, Refused
<1>1. h[p].n \in Turns /\ msgs[h[p].n].state \in Started /\ Alone(h[p].n)
  BY <1>0 DEF IInv, HandlerOK, Relies, Starts
<1>2. msgs[h[p].n] \in Message BY <1>0, <1>1 DEF TypeOK
<1>3. [msgs[h[p].n] EXCEPT !.state = "failed"] \in Message /\ [msgs[h[p].n] EXCEPT !.state = "failed"].state = "failed"
  BY <1>2 DEF Message
<1>4. msgs' \in [Turns -> Message] /\ msgs'[h[p].n].state = "failed"
      /\ \A m \in Turns \ {h[p].n} : msgs'[m] = msgs[m]
  BY <1>0, <1>1, <1>3 DEF TypeOK, Refused
<1>5. row' \in Row /\ row'.job = row.job BY <1>0 DEF Refused, TypeOK, Row, RunStates, Terminal
<1>6. Go(p, Idle) BY DEF Refused, Done
<1>7. h' \in [Handlers -> Handler] BY <1>0, <1>6, IdleType, GoType
<1>8. TypeOK' BY <1>0, <1>4, <1>5, <1>7 DEF Refused, TypeOK
<1>9. Calm BY <1>4 DEF Calm, Waiting, Started
<1>10. Kept BY DEF Kept, Refused
<1>11. TurnsInOrder'
  <2> SUFFICES ASSUME NEW k \in Turns, msgs'[k].state \in {"running", "done", "failed"}
               PROVE  \A m \in 1..(k - 1) : msgs'[m].state \notin Waiting
    BY DEF TurnsInOrder, Waiting
  <2>1. CASE k = h[p].n BY <2>1, <1>1, <1>9, CalmAlone
  <2>2. CASE k # h[p].n
    <3>1. msgs[k].state \in {"running", "done", "failed"} BY <2>2, <1>4
    <3>2. Alone(k) BY <3>1 DEF IInv, TurnsInOrder, Alone, Waiting
    <3> QED BY <3>1, <3>2, <1>9, CalmAlone DEF Started
  <2> QED BY <2>1, <2>2
<1>12. Relies(p)' BY <1>0, <1>6, IdleType, ReliesNot DEF Starts
<1>13. HandlerOK' BY <1>0, <1>6, <1>9, <1>10, <1>12, OthersRely DEF IInv
<1>14. JobOK' BY <1>5, <1>8, <1>10 DEF IInv, JobOK, Kept, TypeOK, Row, Maybe, Refused
<1> QED BY <1>8, <1>11, <1>13, <1>14 DEF IInv

(* startNext: the job is bound; it is the one handler p submitted. *)
LEMMA BindInv == ASSUME IInv, NEW p \in Handlers, Bind(p) PROVE IInv'
<1>0. TypeOK /\ h[p].pc = "bind" BY DEF IInv, Bind
<1>1. h[p].n \in Turns /\ jobs[h[p].n].state # "none" BY <1>0 DEF IInv, HandlerOK, Relies, Starts
<1>2. msgs[h[p].n] \in Message BY <1>0, <1>1 DEF TypeOK
<1>3. [msgs[h[p].n] EXCEPT !.job = h[p].n] \in Message
      /\ [msgs[h[p].n] EXCEPT !.job = h[p].n].state = msgs[h[p].n].state
  BY <1>1, <1>2 DEF Message, Maybe
<1>4. msgs' \in [Turns -> Message] /\ \A m \in Turns : msgs'[m].state = msgs[m].state
  BY <1>0, <1>1, <1>3 DEF TypeOK, Bind
<1>5. row' \in Row /\ row'.job = h[p].n BY <1>0, <1>1 DEF Bind, TypeOK, Row, RunStates, Maybe
<1>6. att' \in Attempt BY <1>0 DEF Bind, TypeOK, Attempt
<1>7. Go(p, Idle) BY DEF Bind, Done
<1>8. h' \in [Handlers -> Handler] BY <1>0, <1>7, IdleType, GoType
<1>9. TypeOK' BY <1>0, <1>4, <1>5, <1>6, <1>8 DEF Bind, TypeOK
<1>10. Calm /\ NoneStarts /\ Kept BY <1>4, SameStateIsCalm DEF Kept, Bind
<1>11. TurnsInOrder' BY <1>10, CalmOrder DEF IInv
<1>12. Relies(p)' BY <1>0, <1>7, IdleType, ReliesNot DEF Starts
<1>13. HandlerOK' BY <1>0, <1>7, <1>10, <1>12, OthersRely DEF IInv
<1>14. JobOK' BY <1>1, <1>5 DEF JobOK, Bind
<1> QED BY <1>9, <1>11, <1>13, <1>14 DEF IInv
(* A step after which handler p has a document or an event to apply. *)
LEMMA ReadStep ==
  ASSUME IInv, TypeOK', UNCHANGED <<row, msgs, jobs>>, NEW p \in Handlers, NEW to, Go(p, to),
         to.pc = "apply", to.n \in Turns, to.state \in RunStates
  PROVE  IInv'
<1>1. Calm /\ NoneStarts /\ Kept BY SameIsCalm DEF Kept
<1>2. h'[p] = to BY DEF IInv, TypeOK, Go
<1>3. Relies(p)' BY <1>2 DEF Relies, Starts
<1>4. HandlerOK' BY <1>1, <1>3, OthersRely DEF IInv
<1>5. TurnsInOrder' BY <1>1, CalmOrder DEF IInv
<1>6. JobOK' BY DEF IInv, JobOK
<1> QED BY <1>4, <1>5, <1>6 DEF IInv

(* A step that moves no handler and keeps the messages and the row. *)
LEMMA OutsideStep ==
  ASSUME IInv, TypeOK', UNCHANGED <<row, msgs, h>>, Kept
  PROVE  IInv'
<1>1. Calm /\ NoneStarts BY SameIsCalm
<1>2. HandlerOK' BY <1>1, StillRelies DEF IInv, HandlerOK
<1>3. TurnsInOrder' BY <1>1, CalmOrder DEF IInv
<1>4. JobOK' BY DEF IInv, JobOK, Kept, TypeOK, Row, Maybe
<1> QED BY <1>2, <1>3, <1>4 DEF IInv

(* A run.job.* delivery. *)
LEMMA DeliverInv == ASSUME IInv, NEW p \in Handlers, NEW e \in Events, Deliver(p, e) PROVE IInv'
<1>0. TypeOK BY DEF IInv
<1>1. e[1] \in Turns /\ e[2] \in RunStates BY DEF Events
<1>2. CASE row.job # e[1]
  <2>1. UNCHANGED h /\ inbox' \subseteq Events BY <1>0, <1>2 DEF Deliver, TypeOK
  <2>2. TypeOK' BY <1>0, <2>1 DEF Deliver, TypeOK
  <2>3. Kept BY DEF Kept, Deliver
  <2> QED BY <2>1, <2>2, <2>3, OutsideStep DEF Deliver
<1>3. CASE row.job = e[1]
  <2> DEFINE result == IF e[2] \in Terminal THEN jobs[e[1]].result ELSE 0
             to == [Idle EXCEPT !.pc = "apply", !.n = e[1], !.state = e[2], !.event = "yes", !.result = result]
  <2>1. result \in Maybe(Turns) BY <1>0, <1>1 DEF TypeOK, Job, Maybe
  <2>2. Go(p, to) /\ UNCHANGED inbox BY <1>3 DEF Deliver
  <2> HIDE DEF result
  <2>3. to \in Handler /\ to.pc = "apply" /\ to.n \in Turns /\ to.state = e[2] BY <1>1, <2>1 DEF Idle, Handler, Steps, Maybe
  <2> HIDE DEF to
  <2>4. h' \in [Handlers -> Handler] BY <1>0, <2>2, <2>3, GoType
  <2>5. TypeOK' BY <1>0, <2>2, <2>4 DEF Deliver, TypeOK
  <2> QED BY <1>1, <2>2, <2>3, <2>5, ReadStep DEF Deliver
<1> QED BY <1>2, <1>3

(* refresh: the row's job is at Run, so what is read has a state. *)
LEMMA RefreshInv == ASSUME IInv, NEW p \in Handlers, Refresh(p) PROVE IInv'
<1>0. TypeOK /\ row.job # 0 BY DEF IInv, Refresh
<1>1. CASE row.state \in Terminal
  <2> DEFINE to == [Idle EXCEPT !.pc = "ended"]
  <2>1. to \in Handler /\ to.pc = "ended" BY IdleType DEF Handler, Steps
  <2>2. Go(p, to) BY <1>1 DEF Refresh
  <2> HIDE DEF to
  <2>3. h' \in [Handlers -> Handler] BY <1>0, <2>1, <2>2, GoType
  <2>4. TypeOK' BY <1>0, <2>3 DEF Refresh, TypeOK
  <2>5. Calm /\ NoneStarts /\ Kept BY SameIsCalm DEF Refresh, Kept
  <2> QED BY <2>1, <2>2, <2>4, <2>5, QuietStep DEF Starts, Refresh
<1>2. CASE row.state \notin Terminal
  <2> DEFINE to == [Idle EXCEPT !.pc = "apply", !.n = row.job, !.state = jobs[row.job].state,
                                !.result = jobs[row.job].result]
  <2>1. row.job \in Turns BY <1>0 DEF TypeOK, Row, Maybe
  <2>2. jobs[row.job] \in Job BY <1>0, <2>1 DEF TypeOK
  <2>3. jobs[row.job].state \in RunStates BY <1>0, <2>2 DEF IInv, JobOK, Job
  <2>4. jobs[row.job].result \in Maybe(Turns) BY <2>2 DEF Job
  <2>5. to \in Handler /\ to.pc = "apply" /\ to.n \in Turns /\ to.state \in RunStates
    BY <2>1, <2>3, <2>4 DEF Idle, Handler, Steps, Maybe
  <2>6. Go(p, to) BY <1>2 DEF Refresh
  <2> HIDE DEF to
  <2>7. h' \in [Handlers -> Handler] BY <1>0, <2>5, <2>6, GoType
  <2>8. TypeOK' BY <1>0, <2>7 DEF Refresh, TypeOK
  <2> QED BY <2>5, <2>6, <2>8, ReadStep DEF Refresh
<1> QED BY <1>1, <1>2

(* pump: the job has ended, so what is read has a state. *)
LEMMA PumpInv == ASSUME IInv, NEW p \in Handlers, NEW n \in Turns, Pump(p, n) PROVE IInv'
<1>0. TypeOK /\ jobs[n].state \in Terminal /\ pumped' \subseteq Turns BY DEF IInv, Pump, TypeOK
<1>1. CASE row.state \in Terminal
  <2>1. UNCHANGED h BY <1>1 DEF Pump
  <2>2. TypeOK' BY <1>0, <2>1 DEF Pump, TypeOK
  <2>3. Kept BY DEF Kept, Pump
  <2> QED BY <2>1, <2>2, <2>3, OutsideStep DEF Pump
<1>2. CASE row.state \notin Terminal
  <2> DEFINE to == [Idle EXCEPT !.pc = "apply", !.n = n, !.state = jobs[n].state, !.result = jobs[n].result]
  <2>1. jobs[n] \in Job BY <1>0 DEF TypeOK
  <2>2. jobs[n].result \in Maybe(Turns) BY <2>1 DEF Job
  <2>3. to \in Handler /\ to.pc = "apply" /\ to.n \in Turns /\ to.state \in RunStates
    BY <1>0, <2>2 DEF Idle, Handler, Steps, Maybe, RunStates
  <2>4. Go(p, to) BY <1>2 DEF Pump
  <2> HIDE DEF to
  <2>5. h' \in [Handlers -> Handler] BY <1>0, <2>3, <2>4, GoType
  <2>6. TypeOK' BY <1>0, <2>5 DEF Pump, TypeOK
  <2> QED BY <2>3, <2>4, <2>6, ReadStep DEF Pump
<1> QED BY <1>1, <1>2

(* recordState, the conductor's branch. *)
LEMMA ApplyInv == ASSUME IInv, NEW p \in Handlers, Apply(p) PROVE IInv'
<1> DEFINE to == [Idle EXCEPT !.pc = "ended"]
           e == <<h[p].n, h[p].state>>
           result == Coalesce(h[p].result)
<1>0. TypeOK /\ h[p] \in Handler /\ h[p].pc = "apply" BY DEF IInv, TypeOK, Apply
<1>1. h[p].n \in Turns /\ h[p].state \in RunStates BY <1>0 DEF IInv, HandlerOK, Relies
<1>2. to \in Handler /\ to.pc = "ended" BY IdleType DEF Handler, Steps
<1>3. Calm /\ NoneStarts /\ Kept BY SameIsCalm DEF Apply, Kept
<1>4. CASE h[p].event = "yes" /\ e \in inbox
  <2>1. Go(p, Idle) /\ UNCHANGED <<row, att, inbox>> BY <1>4 DEF Apply, Done
  <2>2. h' \in [Handlers -> Handler] BY <1>0, <2>1, IdleType, GoType
  <2>3. TypeOK' BY <1>0, <2>1, <2>2 DEF Apply, TypeOK
  <2> QED BY <1>3, <2>1, <2>3, IdleType, QuietStep DEF Starts
<1>5. CASE ~(h[p].event = "yes" /\ e \in inbox)
  <2>1. Go(p, to) BY <1>5 DEF Apply
  <2>2. h' \in [Handlers -> Handler] BY <1>0, <1>2, <2>1, GoType
  <2>3. result \in Maybe(Turns) BY <1>0 DEF Coalesce, TypeOK, Row, Handler
  <2>4. row' \in Row /\ row'.job = row.job
    <3>1. CASE Ignored(h[p].state) BY <1>0, <1>5, <3>1 DEF Apply, TypeOK
    <3>2. CASE ~Ignored(h[p].state)
      <4>1. row' = [row EXCEPT !.state = h[p].state, !.result = result] BY <1>5, <3>2 DEF Apply
      <4> HIDE DEF result
      <4> QED BY <1>0, <1>1, <2>3, <4>1 DEF TypeOK, Row
    <3> QED BY <3>1, <3>2
  <2>5. att' \in Attempt
    <3>1. att \in Attempt BY <1>0 DEF TypeOK
    <3>2. att' \in {att, [state |-> "waiting", session |-> IF result # 0 THEN result ELSE att.session],
                     [att EXCEPT !.state = "running"]}
      BY <1>5 DEF Apply
    <3>3. [state |-> "waiting", session |-> IF result # 0 THEN result ELSE att.session] \in Attempt
      <4> HIDE DEF result
      <4> QED BY <2>3, <3>1 DEF Attempt
    <3>4. [att EXCEPT !.state = "running"] \in Attempt BY <3>1 DEF Attempt
    <3> QED BY <3>1, <3>2, <3>3, <3>4
  <2>6. inbox' \subseteq Events
    <3>1. h[p].event = "yes" => inbox' = inbox \cup {e} BY <1>5 DEF Apply
    <3>2. h[p].event # "yes" => inbox' = inbox BY <1>5 DEF Apply
    <3>3. inbox \subseteq Events BY <1>0 DEF TypeOK
    <3>4. h[p].event = "yes" => e \in Events BY <1>0, <1>1 DEF Events
    <3> QED BY <3>1, <3>2, <3>3, <3>4
  <2>7. TypeOK' BY <1>0, <2>2, <2>4, <2>5, <2>6 DEF Apply, TypeOK
  <2> HIDE DEF to
  <2> QED BY <1>2, <1>3, <2>1, <2>4, <2>7, QuietStep DEF Starts
<1> QED BY <1>4, <1>5
(* afterEnd. *)
LEMMA ReadEndedInv == ASSUME IInv, NEW p \in Handlers, ReadEnded(p) PROVE IInv'
<1>0. TypeOK BY DEF IInv
<1>1. PICK to \in Handler : Go(p, to) /\ to.pc \in {"idle", "land"}
  <2> DEFINE next == [Idle EXCEPT !.pc = "land", !.n = row.job]
  <2>1. row.job \in Maybe(Turns) BY <1>0 DEF TypeOK, Row
  <2>2. next \in Handler /\ next.pc = "land" BY <2>1, IdleType DEF Handler, Steps
  <2>3. Go(p, Idle) \/ Go(p, next) BY DEF ReadEnded, Done
  <2> HIDE DEF next
  <2> QED BY <2>2, <2>3, IdleType
<1>2. h' \in [Handlers -> Handler] BY <1>0, <1>1, GoType
<1>3. TypeOK' BY <1>0, <1>2 DEF ReadEnded, TypeOK
<1>4. Calm /\ NoneStarts /\ Kept BY SameIsCalm DEF ReadEnded, Kept
<1> QED BY <1>1, <1>3, <1>4, QuietStep DEF Starts, ReadEnded

(* Stopping the messages that wait or run opens none and starts none. *)
LEMMA HaltIsCalm ==
  ASSUME TypeOK, msgs' = [n \in Turns |-> Halted(msgs[n])]
  PROVE  msgs' \in [Turns -> Message] /\ Calm /\ NoneStarts
<1>1. \A n \in Turns : Halted(msgs[n]) \in Message
                      /\ ((Halted(msgs[n]) = msgs[n] /\ msgs[n].state \notin Waiting)
                          \/ Halted(msgs[n]).state = "stopped")
  <2> SUFFICES ASSUME NEW n \in Turns
               PROVE  Halted(msgs[n]) \in Message
                      /\ ((Halted(msgs[n]) = msgs[n] /\ msgs[n].state \notin Waiting)
                          \/ Halted(msgs[n]).state = "stopped")
    OBVIOUS
  <2>1. msgs[n] \in Message BY DEF TypeOK
  <2> QED BY <2>1 DEF Halted, Message, Waiting
<1>2. \A n \in Turns : msgs'[n] = Halted(msgs[n]) BY DEF TypeOK
<1>3. msgs' \in [Turns -> Message] BY <1>1
<1>4. Calm BY <1>1, <1>2 DEF Calm, Waiting, Started
<1>5. NoneStarts BY <1>1, <1>2 DEF NoneStarts
<1> QED BY <1>3, <1>4, <1>5

(* A landed message is a message that ended. *)
LEMMA LandedType ==
  ASSUME TypeOK, NEW n \in Turns
  PROVE  Landed(n) \in Message /\ Landed(n).state \in {"done", "failed"}
<1>1. msgs[n] \in Message /\ row \in Row /\ att \in Attempt BY DEF TypeOK
<1>2. DoneOrFailed \in {"done", "failed"} BY DEF DoneOrFailed
<1>3. row.result # 0 => jobs[row.result].agent \in Agents \cup {"none"}
  BY <1>1 DEF TypeOK, Row, Maybe, Job
<1> DEFINE agent == IF row.result # 0 THEN jobs[row.result].agent
                    ELSE IF msgs[n].agent # "none" THEN msgs[n].agent ELSE row.agent
           session == IF row.result # 0 THEN row.result
                      ELSE IF msgs[n].agent = "none" THEN att.session ELSE 0
           state == DoneOrFailed
<1>4. agent \in Agents \cup {"none"} BY <1>1, <1>3 DEF Message, Row
<1>5. session \in Maybe(Turns) BY <1>1 DEF Row, Attempt, Maybe
<1>6. row.result \in Maybe(Turns) BY <1>1 DEF Row
<1>7. Landed(n) = [msgs[n] EXCEPT !.state = state, !.result = row.result, !.agent = agent, !.session = session]
  BY <1>1 DEF Landed, Message
<1>8. state \in {"done", "failed"} BY <1>2
<1> HIDE DEF agent, session, state
<1> QED BY <1>1, <1>4, <1>5, <1>6, <1>7, <1>8 DEF Message

(* onTurnEnd: only the turn that runs is landed. *)
LEMMA OnTurnEndInv == ASSUME IInv, NEW p \in Handlers, OnTurnEnd(p) PROVE IInv'
<1>0. TypeOK BY DEF IInv
<1>1. PICK to \in Handler : Go(p, to) /\ to.pc \in {"idle", "take"}
  <2> DEFINE next == [Idle EXCEPT !.pc = "take"]
  <2>1. next \in Handler /\ next.pc = "take" BY IdleType DEF Handler, Steps
  <2>2. Go(p, Idle) \/ Go(p, next) BY DEF OnTurnEnd, Done
  <2> HIDE DEF next
  <2> QED BY <2>1, <2>2, IdleType
<1>2. row' \in Row /\ row'.job = row.job
  <2>1. row' \in {row, [row EXCEPT !.outcome = "unfinished"]} BY DEF OnTurnEnd
  <2> QED BY <1>0, <2>1 DEF TypeOK, Row
<1>3. msgs' \in [Turns -> Message] /\ Calm /\ NoneStarts
  <2>1. CASE msgs' = [n \in Turns |-> Halted(msgs[n])] BY <1>0, <2>1, HaltIsCalm
  <2>2. CASE UNCHANGED msgs BY <1>0, <2>2, SameIsCalm DEF TypeOK
  <2>3. ASSUME NEW n \in Maybe(Turns), Lands(n), msgs' = [msgs EXCEPT ![n] = Landed(n)]
        PROVE  msgs' \in [Turns -> Message] /\ Calm /\ NoneStarts
    <3>1. n \in Turns /\ msgs[n].state = "running" BY <2>3 DEF Lands, Maybe
    <3>2. Landed(n) \in Message /\ Landed(n).state \in {"done", "failed"} BY <1>0, <3>1, LandedType
    <3>3. msgs' \in [Turns -> Message] /\ msgs'[n].state \in {"done", "failed"}
          /\ \A m \in Turns \ {n} : msgs'[m] = msgs[m]
      BY <1>0, <2>3, <3>1, <3>2 DEF TypeOK
    <3>4. Calm BY <3>1, <3>3 DEF Calm, Waiting, Started
    <3>5. NoneStarts BY <3>1, <3>3 DEF NoneStarts
    <3> QED BY <3>3, <3>4, <3>5
  <2> DEFINE ended == IF h[p].n # 0 THEN h[p].n ELSE row.job
  <2>4. ended \in Maybe(Turns) BY <1>0 DEF TypeOK, Handler, Row
  <2>5. \/ msgs' = [n \in Turns |-> Halted(msgs[n])]
        \/ UNCHANGED msgs
        \/ Lands(ended) /\ msgs' = [msgs EXCEPT ![ended] = Landed(ended)]
    BY DEF OnTurnEnd
  <2> HIDE DEF ended
  <2> QED BY <2>1, <2>2, <2>3, <2>4, <2>5
<1>4. h' \in [Handlers -> Handler] BY <1>0, <1>1, GoType
<1>5. TypeOK' BY <1>0, <1>2, <1>3, <1>4 DEF OnTurnEnd, TypeOK
<1>6. Kept BY DEF Kept, OnTurnEnd
<1> QED BY <1>1, <1>2, <1>3, <1>5, <1>6, QuietStep DEF Starts
(* stopTask: the cancel is asked. *)
LEMMA StopInv == ASSUME IInv, NEW p \in Handlers, Stop(p) PROVE IInv'
<1>0. TypeOK BY DEF IInv
<1>1. PICK to \in Handler : Go(p, to) /\ to.pc = "stop"
  <2>1. PICK event \in {"yes", "no"} : Go(p, [Idle EXCEPT !.pc = "stop", !.event = event]) BY DEF Stop
  <2>2. [Idle EXCEPT !.pc = "stop", !.event = event] \in Handler
        /\ [Idle EXCEPT !.pc = "stop", !.event = event].pc = "stop"
    BY IdleType DEF Handler, Steps
  <2> QED BY <2>1, <2>2
<1>2. att' \in Attempt
  <2>1. att \in Attempt /\ row \in Row /\ row.state # "none" BY <1>0 DEF TypeOK, Stop
  <2>2. row.state \in RunStates BY <2>1 DEF Row
  <2> DEFINE st == CASE row.state = "succeeded" -> "done" [] row.state = "cancelled" -> "stopped" [] OTHER -> row.state
  <2>3. st \in {"queued", "running", "done", "failed", "stopped"} BY <2>2 DEF RunStates, Terminal
  <2>4. att' \in {att, [att EXCEPT !.state = st]} BY DEF Stop, Listed
  <2> HIDE DEF st
  <2> QED BY <2>1, <2>3, <2>4 DEF Attempt
<1>3. jobs' \in [Turns -> Job] /\ Kept
  <2>1. CASE UNCHANGED jobs BY <1>0, <2>1 DEF TypeOK, Kept
  <2>2. CASE row.job # 0 /\ jobs' = [jobs EXCEPT ![row.job].cancel = "yes"]
    <3>1. row.job \in Turns BY <1>0, <2>2 DEF TypeOK, Row, Maybe
    <3>2. jobs[row.job] \in Job BY <1>0, <3>1 DEF TypeOK
    <3>3. [jobs[row.job] EXCEPT !.cancel = "yes"] \in Job
          /\ [jobs[row.job] EXCEPT !.cancel = "yes"].state = jobs[row.job].state
      BY <3>2 DEF Job
    <3> QED BY <1>0, <2>2, <3>1, <3>3 DEF TypeOK, Kept
  <2> QED BY <2>1, <2>2 DEF Stop
<1>4. h' \in [Handlers -> Handler] BY <1>0, <1>1, GoType
<1>5. TypeOK' BY <1>0, <1>2, <1>3, <1>4 DEF Stop, TypeOK
<1>6. Calm /\ NoneStarts BY SameIsCalm DEF Stop
<1> QED BY <1>1, <1>3, <1>5, <1>6, QuietStep DEF Starts, Stop

(* stopTask: the row. *)
LEMMA StopRowInv == ASSUME IInv, NEW p \in Handlers, StopRow(p) PROVE IInv'
<1>0. TypeOK /\ h[p] \in Handler BY DEF IInv, TypeOK
<1>1. PICK to \in Handler : Go(p, to) /\ to.pc \in {"idle", "stop attempt"}
  <2> DEFINE next == [h[p] EXCEPT !.pc = "stop attempt"]
  <2>1. next \in Handler /\ next.pc = "stop attempt" BY <1>0 DEF Handler, Steps
  <2>2. Go(p, Idle) \/ Go(p, next) BY DEF StopRow, Done
  <2> HIDE DEF next
  <2> QED BY <2>1, <2>2, IdleType
<1>2. row' \in Row /\ row'.job = row.job BY <1>0 DEF StopRow, TypeOK, Row, RunStates, Terminal
<1>3. h' \in [Handlers -> Handler] BY <1>0, <1>1, GoType
<1>4. TypeOK' BY <1>0, <1>2, <1>3 DEF StopRow, TypeOK
<1>5. Calm /\ NoneStarts /\ Kept BY SameIsCalm DEF StopRow, Kept
<1> QED BY <1>1, <1>2, <1>4, <1>5, QuietStep DEF Starts

(* stopTask: the attempt. *)
LEMMA StopAttemptInv == ASSUME IInv, NEW p \in Handlers, StopAttempt(p) PROVE IInv'
<1> DEFINE to == [Idle EXCEPT !.pc = "stop messages"]
<1>0. TypeOK BY DEF IInv
<1>1. to \in Handler /\ to.pc = "stop messages" BY IdleType DEF Handler, Steps
<1>2. Go(p, to) BY DEF StopAttempt
<1> HIDE DEF to
<1>3. att' \in Attempt BY <1>0 DEF StopAttempt, TypeOK, Attempt
<1>4. h' \in [Handlers -> Handler] BY <1>0, <1>1, <1>2, GoType
<1>5. TypeOK' BY <1>0, <1>3, <1>4 DEF StopAttempt, TypeOK
<1>6. Calm /\ NoneStarts /\ Kept BY SameIsCalm DEF StopAttempt, Kept
<1> QED BY <1>1, <1>2, <1>5, <1>6, QuietStep DEF Starts, StopAttempt

(* stop: the messages. *)
LEMMA StopMessagesInv == ASSUME IInv, NEW p \in Handlers, StopMessages(p) PROVE IInv'
<1>0. TypeOK BY DEF IInv
<1>1. Go(p, Idle) BY DEF StopMessages, Done
<1>2. msgs' \in [Turns -> Message] /\ Calm /\ NoneStarts BY <1>0, HaltIsCalm DEF StopMessages
<1>3. h' \in [Handlers -> Handler] BY <1>0, <1>1, IdleType, GoType
<1>4. TypeOK' BY <1>0, <1>2, <1>3 DEF StopMessages, TypeOK
<1>5. Kept BY DEF Kept, StopMessages
<1> QED BY <1>1, <1>2, <1>4, <1>5, IdleType, QuietStep DEF Starts, StopMessages

(* A handler is dropped. *)
LEMMA CrashInv == ASSUME IInv, NEW p \in Handlers, Crash(p) PROVE IInv'
<1>0. TypeOK BY DEF IInv
<1>1. Go(p, Idle) BY DEF Crash, Done
<1>2. h' \in [Handlers -> Handler] /\ faults' \in Nat BY <1>0, <1>1, IdleType, GoType DEF Crash, Fault, TypeOK
<1>3. TypeOK' BY <1>0, <1>2 DEF Crash, TypeOK
<1>4. Calm /\ NoneStarts /\ Kept BY SameIsCalm DEF Crash, Kept
<1> QED BY <1>1, <1>3, <1>4, IdleType, QuietStep DEF Starts, Crash

(* OpenVibe.Run's own steps. *)
LEMMA RunInv == ASSUME IInv, NEW n \in Turns, RunStarts(n) \/ RunEnds(n) PROVE IInv'
<1>0. TypeOK /\ jobs[n] \in Job BY DEF IInv, TypeOK
<1>1. jobs' \in [Turns -> Job] /\ Kept
  <2>1. CASE RunStarts(n)
    <3>1. [jobs[n] EXCEPT !.state = "running"] \in Job /\ [jobs[n] EXCEPT !.state = "running"].state = "running"
      BY <1>0 DEF Job, RunStates
    <3>2. jobs' = [jobs EXCEPT ![n] = [jobs[n] EXCEPT !.state = "running"]] BY <1>0, <2>1 DEF RunStarts, TypeOK
    <3> QED BY <1>0, <3>1, <3>2 DEF TypeOK, Kept
  <2>2. CASE RunEnds(n)
    <3>1. PICK end \in JobEnds \cup {[state |-> "cancelled", result |-> "no"]} :
            jobs' = [jobs EXCEPT ![n].state = end.state, ![n].result = IF end.result = "yes" THEN n ELSE 0]
      BY <2>2 DEF RunEnds
    <3> DEFINE r == IF end.result = "yes" THEN n ELSE 0
               job == [jobs[n] EXCEPT !.state = end.state, !.result = r]
    <3>2. end.state \in Terminal BY ConductorAssumption DEF Terminal
    <3>3. jobs' = [jobs EXCEPT ![n] = job] BY <1>0, <3>1 DEF TypeOK
    <3>4. r \in Maybe(Turns) BY DEF Maybe
    <3> HIDE DEF r
    <3>5. job \in Job /\ job.state = end.state BY <1>0, <3>2, <3>4 DEF Job, RunStates
    <3> HIDE DEF job
    <3>6. end.state # "none" BY <3>2 DEF Terminal
    <3> QED BY <1>0, <3>3, <3>5, <3>6 DEF TypeOK, Kept
  <2> QED BY <2>1, <2>2
<1>2. UNCHANGED <<row, att, msgs, inbox, pumped, h, faults, stopped>> BY DEF RunStarts, RunEnds
<1>3. TypeOK' BY <1>0, <1>1, <1>2 DEF TypeOK
<1> QED BY <1>1, <1>2, <1>3, OutsideStep

(* Every step keeps the invariant. *)
LEMMA NextInv == IInv /\ [Next]_vars => IInv'
<1> SUFFICES ASSUME IInv, [Next]_vars PROVE IInv'
  OBVIOUS
<1>1. ASSUME NEW p \in Handlers,
             Create(p) \/ Write(p) \/ Stop(p) \/ Refresh(p) \/ GoesOn(p) \/ Crash(p)
      PROVE  IInv'
  BY <1>1, CreateInv, WriteInv, StopInv, RefreshInv, CrashInv, CreateAttemptInv, EnqueueInv, TakeInv, ChooseInv,
     SubmitInv, RefusedInv, BindInv, ApplyInv, ReadEndedInv, OnTurnEndInv, StopRowInv, StopAttemptInv,
     StopMessagesInv DEF GoesOn, StartNext
<1>2. ASSUME NEW p \in Handlers, \/ \E e \in Events : Deliver(p, e)
                                \/ \E n \in Turns : Pump(p, n)
      PROVE  IInv'
  BY <1>2, DeliverInv, PumpInv
<1>3. ASSUME NEW n \in Turns, RunStarts(n) \/ RunEnds(n) PROVE IInv' BY <1>3, RunInv
<1>4. CASE UNCHANGED vars
  BY <1>4 DEF vars, IInv, TypeOK, TurnsInOrder, HandlerOK, Relies, Alone, JobOK
<1> QED BY <1>1, <1>2, <1>3, <1>4 DEF Next

(* The inductive invariant holds. *)
THEOREM ConductorInvariance == Spec => []IInv
<1> QED BY InitInv, NextInv, PTL DEF Spec

(* The conductor's tables, handlers and jobs keep their types. *)
THEOREM ConductorTypes == Spec => []TypeOK
<1>1. IInv => TypeOK BY DEF IInv
<1> QED BY <1>1, ConductorInvariance, PTL

(* Whatever is in flight, whatever fails or crashes: the conversation runs one
   turn at a time, in the order it was written (startNext). *)
THEOREM OneTurnAtATime == Spec => []TurnsInOrder
<1>1. IInv => TurnsInOrder BY DEF IInv
<1> QED BY <1>1, ConductorInvariance, PTL
-------------------------------------------------------------------------------
(* Which session a turn resumes. A job was submitted, for good, when Run has it. *)
Submitted(n) == jobs[n].state # "none"

(* A job is of a turn that was taken and named its agent, in order. A message
   that names a job names its own; one that names a session is of the agent that
   left it. *)
MessagesOK ==
    \A n \in Turns :
        /\ Submitted(n) => msgs[n].state \in Started /\ Alone(n) /\ msgs[n].agent # "none"
        /\ msgs[n].job # 0 => Submitted(n)
        /\ msgs[n].session # 0 =>
              Submitted(n) /\ Submitted(msgs[n].session) /\ msgs[n].agent = jobs[msgs[n].session].agent

(* A job's result is its own, and what it resumes was left by a job of its agent. *)
JobsOK ==
    \A n \in Turns :
        /\ Submitted(n) => jobs[n].agent # "none"
        /\ jobs[n].result # 0 => jobs[n].result = n /\ Submitted(n)
        /\ jobs[n].resume # 0 => Submitted(jobs[n].resume) /\ jobs[jobs[n].resume].agent = jobs[n].agent

(* What the row and the attempt keep is of a job that was submitted. *)
KeptOK ==
    /\ att.session # 0 => Submitted(att.session)
    /\ row.result # 0 => Submitted(row.result)

(* What a handler that starts a turn keeps between the take and the submit. *)
Picks(p) ==
    /\ h[p].pc \in {"choose", "submit"} => ~Submitted(h[p].n)
    /\ h[p].pc = "choose" /\ h[p].resume # 0 => Submitted(h[p].resume) /\ h[p].resume < h[p].n
    /\ h[p].pc = "submit" =>
          /\ h[p].agent # "none" /\ msgs[h[p].n].agent = h[p].agent
          /\ h[p].resume # 0 => Submitted(h[p].resume) /\ jobs[h[p].resume].agent = h[p].agent
    /\ h[p].pc = "apply" /\ h[p].result # 0 => Submitted(h[p].result)

(* No two handlers start the same turn. *)
OneStarter ==
    \A p, q \in Handlers : h[p].pc \in Starts /\ h[q].pc \in Starts /\ h[p].n = h[q].n => p = q

RInv == IInv /\ MessagesOK /\ JobsOK /\ KeptOK /\ OneStarter /\ \A p \in Handlers : Picks(p)

(* A step after which the jobs are submitted, asked for and resume what they did
   before; their states may move, a result is a job's own. *)
JobsStill ==
    \A n \in Turns :
        /\ jobs'[n].agent = jobs[n].agent /\ jobs'[n].resume = jobs[n].resume
        /\ jobs'[n].state # "none" <=> jobs[n].state # "none"
        /\ jobs'[n].result = jobs[n].result \/ (Submitted(n) /\ jobs'[n].result \in {0, n})

(* A step after which every message still names what it may name. *)
NamesStill ==
    \A n \in Turns :
        /\ Submitted(n) => msgs'[n].agent # "none"
        /\ msgs'[n].job # 0 => Submitted(n)
        /\ msgs'[n].session # 0 =>
              Submitted(n) /\ Submitted(msgs'[n].session) /\ msgs'[n].agent = jobs[msgs'[n].session].agent

(* A step of p names no agent for a turn that another handler may be starting. *)
AgentsStill(p) ==
    \A n \in Turns : msgs'[n].agent = msgs[n].agent \/ Submitted(n) \/ msgs[n].state \notin Started
                     \/ (h[p].pc \in Starts /\ n = h[p].n)

LEMMA SameNames ==
    ASSUME MessagesOK, TypeOK,
           \A n \in Turns : msgs'[n].agent = msgs[n].agent /\ msgs'[n].job = msgs[n].job
                            /\ msgs'[n].session = msgs[n].session
    PROVE  NamesStill
  BY DEF MessagesOK, NamesStill

LEMMA JobsStillOK ==
    ASSUME TypeOK, JobsOK, JobsStill PROVE JobsOK'
<1>1. \A n \in Turns : jobs[n].resume \in Maybe(Turns) BY DEF TypeOK, Job
<1>2. \A n \in Turns : jobs[n].resume # 0 => jobs[n].resume \in Turns BY <1>1 DEF Maybe
<1> QED BY <1>2 DEF JobsOK, JobsStill, Submitted

LEMMA NamesStillOK ==
    ASSUME TypeOK', MessagesOK, Calm, JobsStill, NamesStill PROVE MessagesOK'
<1> SUFFICES ASSUME NEW n \in Turns
             PROVE  /\ Submitted(n)' => msgs'[n].state \in Started /\ Alone(n)' /\ msgs'[n].agent # "none"
                    /\ msgs'[n].job # 0 => Submitted(n)'
                    /\ msgs'[n].session # 0 =>
                          /\ Submitted(n)' /\ jobs'[msgs'[n].session].state # "none"
                          /\ msgs'[n].agent = jobs'[msgs'[n].session].agent
  BY DEF MessagesOK, Submitted
<1>1. Submitted(n)' <=> Submitted(n) BY DEF JobsStill, Submitted
<1>2. Submitted(n) => msgs[n].state \in Started /\ Alone(n) BY DEF MessagesOK
<1>3. Submitted(n) => msgs'[n].state \in Started BY <1>2 DEF Calm
<1>4. Submitted(n) => \A m \in 1..(n - 1) : msgs'[m].state \notin Waiting BY <1>2, CalmAlone
<1>5. msgs'[n].session # 0 => msgs'[n].session \in Turns
  <2>1. msgs'[n] \in Message BY DEF TypeOK
  <2> QED BY <2>1 DEF Message, Maybe
<1>6. msgs'[n].session # 0 => /\ Submitted(n) /\ jobs'[msgs'[n].session].state # "none"
                              /\ msgs'[n].agent = jobs'[msgs'[n].session].agent
  BY <1>5 DEF NamesStill, JobsStill, Submitted
<1> QED BY <1>1, <1>3, <1>4, <1>6 DEF Alone, NamesStill

LEMMA KeptStillOK ==
    ASSUME TypeOK, KeptOK, JobsStill, att'.session = att.session, row'.result = row.result PROVE KeptOK'
<1>1. att.session \in Maybe(Turns) /\ row.result \in Maybe(Turns) BY DEF TypeOK, Attempt, Row
<1> QED BY <1>1 DEF KeptOK, JobsStill, Submitted, Maybe

(* A handler that does not move keeps what it picked. *)
LEMMA StillPicks ==
    ASSUME TypeOK, NEW q \in Handlers, Relies(q), Picks(q), JobsStill, h'[q] = h[q],
           h[q].pc \in Starts => msgs'[h[q].n].agent = msgs[h[q].n].agent \/ Submitted(h[q].n)
    PROVE  Picks(q)'
<1>1. h[q].pc \in Starts => h[q].n \in Turns BY DEF Relies
<1>2. h[q].resume \in Maybe(Turns) /\ h[q].result \in Maybe(Turns) BY DEF TypeOK, Handler
<1>3. /\ h[q].resume # 0 => h[q].resume \in Turns
      /\ h[q].result # 0 => h[q].result \in Turns
  BY <1>2 DEF Maybe
<1>4. h[q].pc \in {"choose", "submit"} => h[q].n \in Turns /\ ~Submitted(h[q].n)
      /\ msgs'[h[q].n].agent = msgs[h[q].n].agent
  BY <1>1 DEF Picks, Starts
<1> QED BY <1>3, <1>4 DEF Picks, JobsStill, Submitted

(* A step of p that submits nothing. *)
LEMMA StillStep ==
    ASSUME RInv, IInv', Calm, JobsStill, NamesStill, KeptOK', NEW p \in Handlers, NEW to, Go(p, to),
           Picks(p)', AgentsStill(p),
           to.pc \in Starts => \A q \in Handlers \ {p} : h[q].pc \in Starts => h[q].n # to.n
    PROVE  RInv'
<1>0. TypeOK /\ TypeOK' /\ HandlerOK BY DEF RInv, IInv
<1>1. h'[p] = to /\ \A q \in Handlers \ {p} : h'[q] = h[q] BY <1>0 DEF TypeOK, Go
<1>2. JobsOK' /\ MessagesOK' BY <1>0, JobsStillOK, NamesStillOK DEF RInv
<1>3. OneStarter' BY <1>1 DEF RInv, OneStarter
<1>4. ASSUME NEW q \in Handlers \ {p} PROVE Picks(q)'
  <2>1. Relies(q) /\ Picks(q) BY <1>0 DEF HandlerOK, RInv
  <2>2. h[q].pc \in Starts => h[q].n \in Turns /\ msgs[h[q].n].state \in Started BY <2>1 DEF Relies
  <2>3. h[q].pc \in Starts /\ h[p].pc \in Starts => h[q].n # h[p].n BY DEF RInv, OneStarter
  <2>4. h[q].pc \in Starts => msgs'[h[q].n].agent = msgs[h[q].n].agent \/ Submitted(h[q].n)
    BY <2>2, <2>3 DEF AgentsStill
  <2> QED BY <1>0, <1>1, <2>1, <2>4, StillPicks
<1> QED BY <1>2, <1>3, <1>4 DEF RInv

(* ... after which p starts no turn and applies nothing. *)
LEMMA RestStep ==
    ASSUME RInv, IInv', Calm, JobsStill, NamesStill, KeptOK', NEW p \in Handlers, NEW to, Go(p, to),
           to.pc \notin Starts \cup {"apply"}, AgentsStill(p)
    PROVE  RInv'
<1>1. h'[p] = to BY DEF RInv, IInv, TypeOK, Go
<1>2. Picks(p)' BY <1>1 DEF Picks, Starts
<1> QED BY <1>2, StillStep DEF Starts

(* ... and that leaves the messages and the jobs as they are. *)
LEMMA PlainStep ==
    ASSUME RInv, IInv', UNCHANGED <<msgs, jobs>>, KeptOK', NEW p \in Handlers, NEW to, Go(p, to),
           to.pc \notin Starts \cup {"apply"}
    PROVE  RInv'
<1>1. Calm /\ AgentsStill(p) BY SameIsCalm DEF AgentsStill
<1>2. JobsStill BY DEF JobsStill
<1>3. NamesStill BY SameNames DEF RInv, IInv
<1> QED BY <1>1, <1>2, <1>3, RestStep

LEMMA SameKept ==
    ASSUME RInv, UNCHANGED jobs, att'.session = att.session, row'.result = row.result PROVE KeptOK'
<1>1. JobsStill BY DEF JobsStill
<1> QED BY <1>1, KeptStillOK DEF RInv, IInv

(* A step that moves no handler. *)
LEMMA StandStep ==
    ASSUME RInv, IInv', UNCHANGED <<row, att, msgs, h>>, JobsStill
    PROVE  RInv'
<1>0. TypeOK /\ TypeOK' /\ HandlerOK BY DEF RInv, IInv
<1>1. Calm BY SameIsCalm
<1>2. NamesStill BY <1>0, SameNames DEF RInv
<1>3. JobsOK' /\ MessagesOK' /\ KeptOK' BY <1>0, <1>1, <1>2, JobsStillOK, NamesStillOK, KeptStillOK DEF RInv
<1>4. OneStarter' BY DEF RInv, OneStarter
<1>5. \A q \in Handlers : Picks(q)' BY <1>0, StillPicks DEF RInv, HandlerOK
<1> QED BY <1>3, <1>4, <1>5 DEF RInv

(* A step after which p has a result of a job to apply. *)
LEMMA ReadsStep ==
    ASSUME RInv, IInv', UNCHANGED <<row, att, msgs, jobs>>, NEW p \in Handlers, NEW to, Go(p, to),
           to.pc = "apply", to.result # 0 => Submitted(to.result)
    PROVE  RInv'
<1>1. Calm /\ AgentsStill(p) BY SameIsCalm DEF AgentsStill
<1>2. JobsStill BY DEF JobsStill
<1>3. NamesStill BY SameNames DEF RInv, IInv
<1>4. KeptOK' BY SameKept
<1>5. h'[p] = to BY DEF RInv, IInv, TypeOK, Go
<1>6. Picks(p)' BY <1>5 DEF Picks, Submitted
<1> QED BY <1>1, <1>2, <1>3, <1>4, <1>6, StillStep DEF Starts

-------------------------------------------------------------------------------
LEMMA CreateRes == ASSUME RInv, IInv', NEW p \in Handlers, Create(p) PROVE RInv'
<1>1. Go(p, [Idle EXCEPT !.pc = "attempt"]) /\ UNCHANGED <<att, msgs, jobs>> BY DEF Create
<1>2. row'.result = row.result BY DEF Create, RInv, IInv, TypeOK, Row
<1> QED BY <1>1, <1>2, SameKept, PlainStep DEF Idle, Starts

LEMMA CreateAttemptRes == ASSUME RInv, IInv', NEW p \in Handlers, CreateAttempt(p) PROVE RInv'
<1>1. Go(p, [Idle EXCEPT !.pc = "write"]) /\ UNCHANGED <<row, msgs, jobs>> BY DEF CreateAttempt
<1>2. att'.session = att.session BY DEF CreateAttempt, RInv, IInv, TypeOK, Attempt
<1> QED BY <1>1, <1>2, SameKept, PlainStep DEF Idle, Starts

LEMMA WriteRes == ASSUME RInv, IInv', NEW p \in Handlers, Write(p) PROVE RInv'
<1>1. Go(p, [Idle EXCEPT !.pc = "write"]) /\ UNCHANGED <<att, msgs, jobs>> BY DEF Write
<1>2. row'.result = row.result BY DEF Write, RInv, IInv, TypeOK, Row
<1> QED BY <1>1, <1>2, SameKept, PlainStep DEF Idle, Starts

LEMMA EnqueueRes == ASSUME RInv, IInv', NEW p \in Handlers, Enqueue(p) PROVE RInv'
<1>0. TypeOK BY DEF RInv, IInv
<1>1. KeptOK' BY SameKept DEF Enqueue
<1>2. CASE row.outcome = "stopped"
  <2>1. Go(p, Idle) /\ UNCHANGED <<msgs, jobs>> BY <1>2 DEF Enqueue, Done
  <2> QED BY <1>1, <2>1, PlainStep DEF Idle, Starts
<1>3. CASE row.outcome # "stopped"
  <2>1. Go(p, [Idle EXCEPT !.pc = "take"]) /\ UNCHANGED jobs BY <1>3 DEF Enqueue
  <2>2. PICK n \in Turns : /\ \A m \in Turns : msgs[m].state = "none" <=> m >= n
                           /\ msgs' = [msgs EXCEPT ![n] = [NoMessage EXCEPT !.state = "queued"]]
    BY <1>3 DEF Enqueue
  <2>3. /\ msgs'[n].state = "queued" /\ msgs'[n].agent = "none" /\ msgs'[n].job = 0 /\ msgs'[n].session = 0
        /\ \A m \in Turns \ {n} : msgs'[m] = msgs[m]
    BY <1>0, <2>2 DEF TypeOK, NoMessage
  <2>4. \A m \in n..MaxTurns : msgs[m].state = "none" BY <2>2, ConductorAssumption DEF Turns
  <2>5. msgs[n].state = "none" BY <2>4, ConductorAssumption DEF Turns
  <2>6. Calm BY <2>3, <2>4, <2>5 DEF Calm, Waiting, Started
  <2>7. msgs[n].state \notin Started /\ ~Submitted(n) BY <2>5 DEF Started, RInv, MessagesOK
  <2>8. NamesStill BY <2>3, <2>7 DEF NamesStill, RInv, MessagesOK
  <2>9. AgentsStill(p) BY <2>3, <2>7 DEF AgentsStill
  <2>10. JobsStill BY <2>1 DEF JobsStill
  <2> QED BY <1>1, <2>1, <2>6, <2>8, <2>9, <2>10, RestStep DEF Idle, Starts
<1> QED BY <1>2, <1>3

(* startNext keeps the session as read: it was left by an earlier turn, for a
   turn whose job was submitted leaves nothing waiting before it. *)
LEMMA TakeRes == ASSUME RInv, IInv', NEW p \in Handlers, Take(p) PROVE RInv'
<1>0. TypeOK BY DEF RInv, IInv
<1>1. CASE \A n \in Turns : ~NextTurn(n)
  <2>1. Go(p, Idle) /\ UNCHANGED <<row, att, msgs, jobs>> BY <1>1 DEF Take, Done
  <2> QED BY <2>1, SameKept, PlainStep DEF Idle, Starts
<1>2. CASE \E n \in Turns : NextTurn(n)
  <2>1. PICK n \in Turns :
          /\ NextTurn(n)
          /\ msgs' = [msgs EXCEPT ![n].state = "running"]
          /\ row' = [row EXCEPT !.state = "queued", !.outcome = "none"]
          /\ Go(p, [Idle EXCEPT !.pc = "choose", !.n = n, !.agent = row.agent, !.resume = att.session])
    BY <1>2 DEF Take
  <2> DEFINE to == [Idle EXCEPT !.pc = "choose", !.n = n, !.agent = row.agent, !.resume = att.session]
  <2>2. to.pc = "choose" /\ to.n = n /\ to.resume = att.session BY DEF Idle
  <2>3. Go(p, to) BY <2>1
  <2> HIDE DEF to
  <2>4. msgs[n].state = "queued" /\ msgs[n] \in Message BY <1>0, <2>1 DEF NextTurn, TypeOK
  <2>5. /\ msgs'[n].state = "running" /\ msgs'[n].agent = msgs[n].agent /\ msgs'[n].job = msgs[n].job
        /\ msgs'[n].session = msgs[n].session /\ \A m \in Turns \ {n} : msgs'[m] = msgs[m]
    BY <1>0, <2>1, <2>4 DEF TypeOK, Message
  <2>6. Calm BY <2>4, <2>5 DEF Calm, Waiting, Started
  <2>7. NamesStill BY <1>0, <2>5, SameNames DEF RInv
  <2>8. AgentsStill(p) BY <2>5 DEF AgentsStill
  <2>9. JobsStill /\ UNCHANGED jobs BY DEF JobsStill, Take
  <2>10. KeptOK' BY <1>0, <2>1, SameKept DEF Take, TypeOK, Row
  <2>11. ~Submitted(n) /\ msgs[n].state \notin Started BY <2>4 DEF Started, RInv, MessagesOK
  <2>12. \A q \in Handlers \ {p} : h[q].pc \in Starts => h[q].n # n
    BY <2>11 DEF RInv, IInv, HandlerOK, Relies
  <2>13. att.session # 0 => Submitted(att.session) /\ att.session < n
    <3> SUFFICES ASSUME att.session # 0 PROVE Submitted(att.session) /\ att.session < n
      OBVIOUS
    <3>1. att.session \in Turns /\ Submitted(att.session) BY <1>0 DEF TypeOK, Attempt, Maybe, RInv, KeptOK
    <3>2. Alone(att.session) BY <3>1 DEF RInv, MessagesOK
    <3>3. att.session # n BY <2>11, <3>1
    <3>4. ~(n < att.session)
      <4>1. n < att.session => n \in 1..(att.session - 1) BY <3>1, ConductorAssumption DEF Turns
      <4> QED BY <2>4, <3>2, <4>1 DEF Alone, Waiting
    <3> QED BY <3>1, <3>3, <3>4, ConductorAssumption DEF Turns
  <2>14. Picks(p)'
    <3>1. h'[p] = to BY <1>0, <2>3 DEF TypeOK, Go
    <3> QED BY <3>1, <2>2, <2>9, <2>11, <2>13 DEF Picks, Submitted
  <2> QED BY <2>2, <2>3, <2>6, <2>7, <2>8, <2>9, <2>10, <2>12, <2>14, StillStep
<1> QED BY <1>1, <1>2

(* What a turn resumes, when its agent was picked, was left by that agent. *)
LEMMA ResumeIsOwn ==
    ASSUME RInv, NEW n \in Turns, NEW a \in Agents, NEW lead, NEW session \in Maybe(Turns), NEW s \in Maybe(Turns),
           session # 0 => Submitted(session) /\ session < n,
           Resume(n, a, lead, session, s), s # 0
    PROVE  Submitted(s) /\ jobs[s].agent = a
<1>1. CASE \A m \in 1..(n - 1) : msgs[m].agent = "none"
  <2>1. session = 0
    <3> SUFFICES ASSUME session # 0 PROVE FALSE OBVIOUS
    <3>1. session \in 1..(n - 1) /\ session \in Turns BY ConductorAssumption DEF Maybe, Turns
    <3>2. msgs[session].agent # "none" BY <3>1 DEF RInv, MessagesOK
    <3> QED BY <1>1, <3>1, <3>2
  <2>2. \A m \in 1..(n - 1) : m \in Turns BY ConductorAssumption DEF Turns
  <2>3. \A m \in 1..(n - 1) : msgs[m].session = 0
    <3> SUFFICES ASSUME NEW m \in 1..(n - 1), msgs[m].session # 0 PROVE FALSE OBVIOUS
    <3>1. m \in Turns BY <2>2
    <3>2. Submitted(m) BY <3>1 DEF RInv, MessagesOK
    <3>3. msgs[m].agent # "none" BY <3>1, <3>2 DEF RInv, MessagesOK
    <3> QED BY <1>1, <3>3
  <2> QED BY <2>1, <2>3 DEF Resume, LastOwn
<1>2. CASE \E m \in 1..(n - 1) : msgs[m].agent # "none"
  <2>1. LastOwn(n, a, s) BY <1>2 DEF Resume
  <2>2. PICK m \in 1..(n - 1) : /\ msgs[m].session # 0 /\ s = msgs[m].session
                                /\ (IF msgs[m].agent = "none" THEN Primary ELSE msgs[m].agent) = a
    BY <2>1 DEF LastOwn
  <2>3. m \in Turns BY ConductorAssumption DEF Turns
  <2>4. Submitted(m) /\ Submitted(s) /\ msgs[m].agent = jobs[s].agent BY <2>2, <2>3 DEF RInv, MessagesOK
  <2>5. msgs[m].agent # "none" BY <2>3, <2>4 DEF RInv, MessagesOK
  <2> QED BY <2>2, <2>4, <2>5
<1> QED BY <1>1, <1>2

LEMMA ChooseRes ==
    ASSUME "choose" \notin Faults, RInv, IInv', NEW p \in Handlers, Choose(p) PROVE RInv'
<1>0. TypeOK /\ h[p] \in Handler /\ h[p].pc = "choose" BY DEF RInv, IInv, TypeOK, Choose
<1>1. h[p].n \in Turns /\ ~Submitted(h[p].n) /\ h[p].resume \in Maybe(Turns)
      /\ (h[p].resume # 0 => Submitted(h[p].resume) /\ h[p].resume < h[p].n)
  BY <1>0 DEF RInv, IInv, HandlerOK, Relies, Starts, Picks, Handler
<1>2. PICK a \in Agents, s \in Maybe(Turns) :
        /\ Resume(h[p].n, a, h[p].agent, h[p].resume, s)
        /\ msgs' = [msgs EXCEPT ![h[p].n].agent = a]
        /\ Go(p, [h[p] EXCEPT !.pc = "submit", !.agent = a, !.resume = s])
  BY DEF Choose, Fault
<1>3. s # 0 => Submitted(s) /\ jobs[s].agent = a BY <1>1, <1>2, ResumeIsOwn DEF RInv
<1> DEFINE to == [h[p] EXCEPT !.pc = "submit", !.agent = a, !.resume = s]
<1>4. to.pc = "submit" /\ to.n = h[p].n /\ to.agent = a /\ to.resume = s BY <1>0 DEF Handler
<1>5. Go(p, to) BY <1>2
<1> HIDE DEF to
<1>6. msgs[h[p].n] \in Message BY <1>0, <1>1 DEF TypeOK
<1>7. /\ msgs'[h[p].n].agent = a /\ msgs'[h[p].n].state = msgs[h[p].n].state
      /\ msgs'[h[p].n].job = msgs[h[p].n].job /\ msgs'[h[p].n].session = msgs[h[p].n].session
      /\ \A m \in Turns \ {h[p].n} : msgs'[m] = msgs[m]
  BY <1>0, <1>1, <1>2, <1>6 DEF TypeOK, Message
<1>8. Calm BY <1>7, SameStateIsCalm
<1>9. NamesStill BY <1>1, <1>7 DEF NamesStill, RInv, MessagesOK
<1>10. AgentsStill(p) BY <1>0, <1>7 DEF AgentsStill, Starts
<1>11. JobsStill /\ UNCHANGED jobs BY DEF JobsStill, Choose
<1>12. KeptOK' BY <1>11, SameKept DEF Choose
<1>13. \A q \in Handlers \ {p} : h[q].pc \in Starts => h[q].n # h[p].n
  BY <1>0 DEF RInv, OneStarter, Starts
<1>14. Picks(p)'
  <2>1. h'[p] = to BY <1>0, <1>5 DEF TypeOK, Go
  <2> QED BY <2>1, <1>1, <1>3, <1>4, <1>7, <1>11, ConductorAssumption DEF Picks, Submitted
<1> QED BY <1>4, <1>5, <1>8, <1>9, <1>10, <1>11, <1>12, <1>13, <1>14, StillStep

(* run.submit: the job is new, so nothing names it yet. *)
LEMMA SubmitRes == ASSUME RInv, IInv', NEW p \in Handlers, Submit(p) PROVE RInv'
<1> DEFINE n == h[p].n
           job == [NoJob EXCEPT !.state = "queued", !.agent = h[p].agent, !.resume = h[p].resume]
<1>0. TypeOK /\ TypeOK' /\ HandlerOK /\ h[p] \in Handler /\ h[p].pc = "submit" BY DEF RInv, IInv, TypeOK, Submit
<1>1. /\ n \in Turns /\ ~Submitted(n) /\ msgs[n].state \in Started /\ Alone(n)
      /\ h[p].agent # "none" /\ msgs[n].agent = h[p].agent
      /\ h[p].resume # 0 => Submitted(h[p].resume) /\ jobs[h[p].resume].agent = h[p].agent
  BY <1>0 DEF RInv, HandlerOK, Relies, Starts, Picks
<1>2. job.state = "queued" /\ job.agent = h[p].agent /\ job.resume = h[p].resume /\ job.result = 0
  BY DEF NoJob
<1>3. PICK pc \in {"bind", "refused"} :
        /\ Go(p, [h[p] EXCEPT !.pc = pc])
        /\ jobs' = [jobs EXCEPT ![n] = job] \/ UNCHANGED jobs
        /\ UNCHANGED <<row, att, msgs>>
  BY DEF Submit
<1> HIDE DEF job
<1> DEFINE to == [h[p] EXCEPT !.pc = pc]
<1>4. to.pc = pc /\ to.n = n BY <1>0 DEF Handler
<1>5. Go(p, to) BY <1>3
<1> HIDE DEF to
<1>6. h'[p] = to /\ \A q \in Handlers \ {p} : h'[q] = h[q] BY <1>0, <1>5 DEF TypeOK, Go
<1>7. OneStarter'
  <2> SUFFICES ASSUME NEW x \in Handlers, NEW y \in Handlers, h'[x].pc \in Starts, h'[y].pc \in Starts,
                      h'[x].n = h'[y].n
               PROVE  x = y
    BY DEF OneStarter
  <2>1. \A q \in Handlers : h'[q].pc \in Starts => h[q].pc \in Starts /\ h'[q].n = h[q].n
    BY <1>0, <1>4, <1>6 DEF Starts
  <2> QED BY <2>1 DEF RInv, OneStarter
<1>8. Picks(p)' BY <1>4, <1>6 DEF Picks
<1>9. CASE UNCHANGED jobs
  <2>1. Calm BY <1>3, SameIsCalm
  <2>2. AgentsStill(p) BY <1>3 DEF AgentsStill
  <2>3. NamesStill BY <1>0, <1>3, SameNames DEF RInv
  <2>4. JobsStill BY <1>9 DEF JobsStill
  <2>5. KeptOK' BY <1>3, <1>9, SameKept
  <2>6. \A q \in Handlers \ {p} : h[q].pc \in Starts => h[q].n # n
    BY <1>0 DEF RInv, OneStarter, Starts
  <2> QED BY <1>4, <1>5, <1>8, <2>1, <2>2, <2>3, <2>4, <2>5, <2>6, StillStep
<1>10. CASE jobs' = [jobs EXCEPT ![n] = job]
  <2>1. jobs'[n] = job /\ \A m \in Turns \ {n} : jobs'[m] = jobs[m] BY <1>0, <1>1, <1>10 DEF TypeOK
  <2>2. \A m \in Turns : Submitted(m) => m # n /\ jobs'[m] = jobs[m] BY <1>1, <2>1
  <2>3. \A m \in Turns : jobs'[m].state # "none" <=> (Submitted(m) \/ m = n) BY <1>2, <2>1, <2>2 DEF Submitted
  <2>4. MessagesOK'
    <3>1. \A m \in Turns : msgs[m].session \in Maybe(Turns)
      <4>1. \A m \in Turns : msgs[m] \in Message BY <1>0 DEF TypeOK
      <4> QED BY <4>1 DEF Message
    <3>2. \A m \in Turns : msgs[m].session # 0 => msgs[m].session \in Turns BY <3>1 DEF Maybe
    <3> SUFFICES ASSUME NEW m \in Turns
                 PROVE  /\ jobs'[m].state # "none" => msgs[m].state \in Started /\ Alone(m) /\ msgs[m].agent # "none"
                        /\ msgs[m].job # 0 => jobs'[m].state # "none"
                        /\ msgs[m].session # 0 =>
                              /\ jobs'[m].state # "none" /\ jobs'[msgs[m].session].state # "none"
                              /\ msgs[m].agent = jobs'[msgs[m].session].agent
      BY <1>3 DEF MessagesOK, Submitted, Alone
    <3> QED BY <1>1, <2>2, <2>3, <3>2 DEF RInv, MessagesOK
  <2>5. JobsOK'
    <3>1. \A m \in Turns : jobs[m].resume \in Maybe(Turns) BY <1>0 DEF TypeOK, Job
    <3>2. h[p].resume \in Maybe(Turns) BY <1>0 DEF Handler
    <3> SUFFICES ASSUME NEW m \in Turns
                 PROVE  /\ jobs'[m].state # "none" => jobs'[m].agent # "none"
                        /\ jobs'[m].result # 0 => jobs'[m].result = m /\ jobs'[m].state # "none"
                        /\ jobs'[m].resume # 0 => /\ jobs'[jobs'[m].resume].state # "none"
                                                  /\ jobs'[jobs'[m].resume].agent = jobs'[m].agent
      BY DEF JobsOK, Submitted
    <3>3. CASE m = n BY <3>3, <3>2, <1>1, <1>2, <2>1, <2>2, <2>3 DEF Maybe
    <3>4. CASE m # n
      <4>1. jobs'[m] = jobs[m] BY <3>4, <2>1
      <4>2. jobs[m].resume # 0 => jobs[m].resume \in Turns BY <3>1 DEF Maybe
      <4> QED BY <4>1, <4>2, <2>2, <2>3 DEF RInv, JobsOK, Submitted
    <3> QED BY <3>3, <3>4
  <2>6. KeptOK'
    <3>1. att.session \in Maybe(Turns) /\ row.result \in Maybe(Turns) BY <1>0 DEF TypeOK, Attempt, Row
    <3> QED BY <1>3, <2>3, <3>1 DEF RInv, KeptOK, Submitted, Maybe
  <2>7. ASSUME NEW q \in Handlers \ {p} PROVE Picks(q)'
    <3>1. Relies(q) /\ Picks(q) /\ h'[q] = h[q] BY <1>0, <1>6 DEF HandlerOK, RInv
    <3>2. h[q].pc \in Starts => h[q].n \in Turns /\ h[q].n # n
      BY <1>0, <3>1 DEF Relies, RInv, OneStarter, Starts
    <3>3. h[q].resume \in Maybe(Turns) /\ h[q].result \in Maybe(Turns) BY <1>0 DEF TypeOK, Handler
    <3>4. /\ h[q].resume # 0 => h[q].resume \in Turns
          /\ h[q].result # 0 => h[q].result \in Turns
      BY <3>3 DEF Maybe
    <3>5. h[q].pc \in {"choose", "submit"} => jobs'[h[q].n].state = "none"
      BY <2>3, <3>1, <3>2 DEF Picks, Starts
    <3> QED BY <1>3, <2>2, <2>3, <3>1, <3>4, <3>5 DEF Picks, Submitted
  <2> QED BY <1>7, <1>8, <2>4, <2>5, <2>6, <2>7 DEF RInv
<1> QED BY <1>3, <1>9, <1>10

LEMMA RefusedRes == ASSUME RInv, IInv', NEW p \in Handlers, Refused(p) PROVE RInv'
<1> DEFINE n == h[p].n
<1>0. TypeOK /\ h[p].pc = "refused" /\ Go(p, Idle) /\ UNCHANGED jobs BY DEF RInv, IInv, Refused, Done
<1>1. n \in Turns /\ msgs[n] \in Message /\ msgs[n].state \in Started
  BY <1>0 DEF RInv, IInv, HandlerOK, Relies, Starts, TypeOK
<1>2. msgs' = [msgs EXCEPT ![n].state = "failed"] BY DEF Refused
<1>3. /\ msgs'[n].state = "failed" /\ msgs'[n].agent = msgs[n].agent /\ msgs'[n].job = msgs[n].job
      /\ msgs'[n].session = msgs[n].session /\ \A m \in Turns \ {n} : msgs'[m] = msgs[m]
  BY <1>0, <1>1, <1>2 DEF TypeOK, Message
<1>4. Calm BY <1>3 DEF Calm, Waiting, Started
<1>5. NamesStill BY <1>0, <1>3, SameNames DEF RInv
<1>6. AgentsStill(p) BY <1>3 DEF AgentsStill
<1>7. JobsStill BY <1>0 DEF JobsStill
<1>8. KeptOK' BY <1>0, SameKept DEF Refused, TypeOK, Row
<1> QED BY <1>0, <1>4, <1>5, <1>6, <1>7, <1>8, RestStep DEF Idle, Starts

LEMMA BindRes == ASSUME RInv, IInv', NEW p \in Handlers, Bind(p) PROVE RInv'
<1> DEFINE n == h[p].n
<1>0. TypeOK /\ h[p].pc = "bind" /\ Go(p, Idle) /\ UNCHANGED jobs BY DEF RInv, IInv, Bind, Done
<1>1. n \in Turns /\ msgs[n] \in Message /\ Submitted(n)
  BY <1>0 DEF RInv, IInv, HandlerOK, Relies, Starts, TypeOK, Submitted
<1>2. msgs' = [msgs EXCEPT ![n].job = n] BY DEF Bind
<1>3. /\ msgs'[n].state = msgs[n].state /\ msgs'[n].agent = msgs[n].agent
      /\ msgs'[n].session = msgs[n].session /\ \A m \in Turns \ {n} : msgs'[m] = msgs[m]
  BY <1>0, <1>1, <1>2 DEF TypeOK, Message
<1>4. Calm BY <1>3, SameStateIsCalm
<1>5. NamesStill BY <1>1, <1>3 DEF RInv, MessagesOK, NamesStill
<1>6. AgentsStill(p) BY <1>3 DEF AgentsStill
<1>7. JobsStill BY <1>0 DEF JobsStill
<1>8. KeptOK' BY <1>0, SameKept DEF Bind, TypeOK, Row, Attempt
<1> QED BY <1>0, <1>4, <1>5, <1>6, <1>7, <1>8, RestStep DEF Idle, Starts

LEMMA DeliverRes == ASSUME RInv, IInv', NEW p \in Handlers, NEW e \in Events, Deliver(p, e) PROVE RInv'
<1>1. e[1] \in Turns /\ UNCHANGED <<row, att, msgs, jobs>> BY DEF Events, Deliver
<1>2. CASE row.job # e[1]
  <2>1. UNCHANGED h BY <1>2 DEF Deliver
  <2>2. JobsStill BY <1>1 DEF JobsStill
  <2> QED BY <1>1, <2>1, <2>2, StandStep
<1>3. CASE row.job = e[1]
  <2> DEFINE result == IF e[2] \in Terminal THEN jobs[e[1]].result ELSE 0
             to == [Idle EXCEPT !.pc = "apply", !.n = e[1], !.state = e[2], !.event = "yes", !.result = result]
  <2>1. Go(p, to) BY <1>3 DEF Deliver
  <2>2. result # 0 => Submitted(result) BY <1>1 DEF RInv, JobsOK
  <2> HIDE DEF result
  <2>3. to.pc = "apply" /\ to.result = result BY DEF Idle
  <2> HIDE DEF to
  <2> QED BY <1>1, <2>1, <2>2, <2>3, ReadsStep
<1> QED BY <1>2, <1>3

LEMMA RefreshRes == ASSUME RInv, IInv', NEW p \in Handlers, Refresh(p) PROVE RInv'
<1>1. UNCHANGED <<row, att, msgs, jobs>> /\ row.job # 0 BY DEF Refresh
<1>2. CASE row.state \in Terminal
  <2>1. Go(p, [Idle EXCEPT !.pc = "ended"]) BY <1>2 DEF Refresh
  <2> QED BY <1>1, <2>1, SameKept, PlainStep DEF Idle, Starts
<1>3. CASE row.state \notin Terminal
  <2> DEFINE to == [Idle EXCEPT !.pc = "apply", !.n = row.job, !.state = jobs[row.job].state,
                                !.result = jobs[row.job].result]
  <2>1. Go(p, to) BY <1>3 DEF Refresh
  <2>2. row.job \in Turns BY <1>1 DEF RInv, IInv, TypeOK, Row, Maybe
  <2>3. to.pc = "apply" /\ to.result = jobs[row.job].result BY DEF Idle
  <2> HIDE DEF to
  <2>4. to.result # 0 => Submitted(to.result) BY <2>2, <2>3 DEF RInv, JobsOK
  <2> QED BY <1>1, <2>1, <2>3, <2>4, ReadsStep
<1> QED BY <1>2, <1>3

LEMMA PumpRes == ASSUME RInv, IInv', NEW p \in Handlers, NEW n \in Turns, Pump(p, n) PROVE RInv'
<1>1. UNCHANGED <<row, att, msgs, jobs>> BY DEF Pump
<1>2. CASE row.state \in Terminal
  <2>1. UNCHANGED h BY <1>2 DEF Pump
  <2>2. JobsStill BY <1>1 DEF JobsStill
  <2> QED BY <1>1, <2>1, <2>2, StandStep
<1>3. CASE row.state \notin Terminal
  <2> DEFINE to == [Idle EXCEPT !.pc = "apply", !.n = n, !.state = jobs[n].state, !.result = jobs[n].result]
  <2>1. Go(p, to) BY <1>3 DEF Pump
  <2>2. to.pc = "apply" /\ to.result = jobs[n].result BY DEF Idle
  <2> HIDE DEF to
  <2>3. to.result # 0 => Submitted(to.result) BY <2>2 DEF RInv, JobsOK
  <2> QED BY <1>1, <2>1, <2>2, <2>3, ReadsStep
<1> QED BY <1>2, <1>3

(* recordState: the result the attempt and the row keep is the one applied or
   the one the row had. *)
LEMMA ApplyRes == ASSUME RInv, IInv', NEW p \in Handlers, Apply(p) PROVE RInv'
<1> DEFINE result == Coalesce(h[p].result)
<1>0. TypeOK /\ h[p].pc = "apply" /\ UNCHANGED <<msgs, jobs>> BY DEF RInv, IInv, Apply
<1>1. PICK to \in {Idle, [Idle EXCEPT !.pc = "ended"]} : Go(p, to) BY DEF Apply, Done
<1>2. to.pc \notin Starts \cup {"apply"} BY DEF Idle, Starts
<1>3. h[p].result # 0 => Submitted(h[p].result) BY <1>0 DEF RInv, Picks
<1>4. result # 0 => Submitted(result) BY <1>3 DEF Coalesce, RInv, KeptOK
<1>5. row'.result \in {row.result, result} /\ att'.session \in {att.session, result}
  <2>1. row' = row \/ row' = [row EXCEPT !.state = h[p].state, !.result = result] BY DEF Apply
  <2> DEFINE session == IF result # 0 THEN result ELSE att.session
  <2>2. att' \in {att, [state |-> "waiting", session |-> session], [att EXCEPT !.state = "running"]}
    BY DEF Apply
  <2>3. session \in {result, att.session} OBVIOUS
  <2> HIDE DEF result, session
  <2>4. row'.result \in {row.result, result} BY <1>0, <2>1 DEF TypeOK, Row
  <2>5. att'.session \in {att.session, session} BY <1>0, <2>2 DEF TypeOK, Attempt
  <2> QED BY <2>3, <2>4, <2>5
<1> HIDE DEF result
<1>6. KeptOK' BY <1>0, <1>4, <1>5 DEF RInv, KeptOK, Submitted
<1> QED BY <1>0, <1>1, <1>2, <1>6, PlainStep

LEMMA ReadEndedRes == ASSUME RInv, IInv', NEW p \in Handlers, ReadEnded(p) PROVE RInv'
<1> DEFINE next == [Idle EXCEPT !.pc = "land", !.n = row.job]
<1>1. UNCHANGED <<row, att, msgs, jobs>> BY DEF ReadEnded
<1>2. Go(p, Idle) \/ Go(p, next) BY DEF ReadEnded, Done
<1>3. Idle.pc = "idle" /\ next.pc = "land" BY DEF Idle
<1> HIDE DEF next
<1> QED BY <1>1, <1>2, <1>3, SameKept, PlainStep DEF Starts

(* A stopped message keeps what it names. *)
LEMMA HaltNames ==
    ASSUME RInv, msgs' = [n \in Turns |-> Halted(msgs[n])], UNCHANGED jobs, NEW p \in Handlers
    PROVE  Calm /\ NamesStill /\ AgentsStill(p) /\ JobsStill
<1>0. TypeOK BY DEF RInv, IInv
<1>1. \A n \in Turns : msgs'[n].agent = msgs[n].agent /\ msgs'[n].job = msgs[n].job
                       /\ msgs'[n].session = msgs[n].session
  <2> TAKE n \in Turns
  <2>1. msgs[n] \in Message /\ msgs'[n] = Halted(msgs[n]) BY <1>0 DEF TypeOK
  <2> QED BY <2>1 DEF Halted, Message
<1>2. Calm BY <1>0, HaltIsCalm
<1>3. NamesStill BY <1>0, <1>1, SameNames DEF RInv
<1>4. AgentsStill(p) BY <1>1 DEF AgentsStill
<1> QED BY <1>2, <1>3, <1>4 DEF JobsStill

(* onTurnEnd: a landed message names the agent that left the result on the row. *)
LEMMA OnTurnEndRes == ASSUME RInv, IInv', NEW p \in Handlers, OnTurnEnd(p) PROVE RInv'
<1> DEFINE n == IF h[p].n # 0 THEN h[p].n ELSE row.job
<1>0. TypeOK /\ UNCHANGED <<att, jobs>> BY DEF RInv, IInv, OnTurnEnd
<1>1. PICK to \in {Idle, [Idle EXCEPT !.pc = "take"]} : Go(p, to) BY DEF OnTurnEnd, Done
<1>2. to.pc \notin Starts \cup {"apply"} BY DEF Idle, Starts
<1>3. KeptOK'
  <2>1. row' \in {row, [row EXCEPT !.outcome = "unfinished"]} BY DEF OnTurnEnd
  <2>2. row'.result = row.result BY <1>0, <2>1 DEF TypeOK, Row
  <2> QED BY <1>0, <2>2, SameKept
<1>4. \/ msgs' = [m \in Turns |-> Halted(msgs[m])]
      \/ UNCHANGED msgs
      \/ Lands(n) /\ msgs' = [msgs EXCEPT ![n] = Landed(n)]
  BY DEF OnTurnEnd
<1>5. CASE msgs' = [m \in Turns |-> Halted(msgs[m])]
  BY <1>0, <1>1, <1>2, <1>3, <1>5, HaltNames, RestStep
<1>6. CASE UNCHANGED msgs BY <1>0, <1>1, <1>2, <1>3, <1>6, PlainStep
<1>7. CASE Lands(n) /\ msgs' = [msgs EXCEPT ![n] = Landed(n)]
  <2>1. n \in Turns /\ msgs[n].job # 0 /\ msgs[n].state = "running"
    <3>1. n \in Maybe(Turns) BY <1>0 DEF TypeOK, Handler, Row
    <3> HIDE DEF n
    <3> QED BY <1>7, <3>1 DEF Lands, Maybe
  <2> HIDE DEF n
  <2>2. Submitted(n) /\ msgs[n].agent # "none" /\ msgs[n] \in Message
    BY <1>0, <2>1 DEF RInv, MessagesOK, TypeOK
  <2> DEFINE agent == IF row.result # 0 THEN jobs[row.result].agent
                      ELSE IF msgs[n].agent # "none" THEN msgs[n].agent ELSE row.agent
             session == IF row.result # 0 THEN row.result
                        ELSE IF msgs[n].agent = "none" THEN att.session ELSE 0
             state == DoneOrFailed
  <2>3. Landed(n) = [msgs[n] EXCEPT !.state = state, !.result = row.result, !.agent = agent, !.session = session]
    BY <2>2 DEF Landed, Message
  <2>4. row.result # 0 => row.result \in Turns /\ Submitted(row.result) /\ jobs[row.result].agent # "none"
    BY <1>0 DEF TypeOK, Row, Maybe, RInv, KeptOK, JobsOK
  <2>5. /\ agent # "none" /\ state \in {"done", "failed"}
        /\ session # 0 => Submitted(session) /\ agent = jobs[session].agent
    BY <2>2, <2>4 DEF DoneOrFailed
  <2> HIDE DEF agent, session, state
  <2>6. /\ msgs'[n].state \in {"done", "failed"} /\ msgs'[n].agent = agent /\ msgs'[n].session = session
        /\ msgs'[n].job = msgs[n].job /\ \A m \in Turns \ {n} : msgs'[m] = msgs[m]
    BY <1>0, <1>7, <2>1, <2>2, <2>3, <2>5 DEF TypeOK, Message
  <2>7. Calm BY <2>1, <2>6 DEF Calm, Waiting, Started
  <2>8. NamesStill BY <2>2, <2>5, <2>6 DEF NamesStill, RInv, MessagesOK
  <2>9. AgentsStill(p) BY <2>2, <2>6 DEF AgentsStill
  <2>10. JobsStill BY <1>0 DEF JobsStill
  <2> QED BY <1>1, <1>2, <1>3, <2>7, <2>8, <2>9, <2>10, RestStep
<1> QED BY <1>4, <1>5, <1>6, <1>7

LEMMA StopRes == ASSUME RInv, IInv', NEW p \in Handlers, Stop(p) PROVE RInv'
<1>0. TypeOK /\ UNCHANGED <<row, msgs>> BY DEF RInv, IInv, Stop
<1>1. PICK event \in {"yes", "no"} : Go(p, [Idle EXCEPT !.pc = "stop", !.event = event]) BY DEF Stop
<1>2. [Idle EXCEPT !.pc = "stop", !.event = event].pc \notin Starts \cup {"apply"} BY DEF Idle, Starts
<1>3. att'.session = att.session BY <1>0 DEF Stop, Listed, TypeOK, Attempt
<1>4. JobsStill
  <2>1. CASE UNCHANGED jobs BY <2>1 DEF JobsStill
  <2>2. CASE row.job # 0 /\ jobs' = [jobs EXCEPT ![row.job].cancel = "yes"]
    <3>1. row.job \in Turns BY <1>0, <2>2 DEF TypeOK, Row, Maybe
    <3>2. jobs[row.job] \in Job BY <1>0, <3>1 DEF TypeOK
    <3> QED BY <1>0, <2>2, <3>1, <3>2 DEF TypeOK, Job, JobsStill
  <2> QED BY <2>1, <2>2 DEF Stop
<1>5. KeptOK' BY <1>0, <1>3, <1>4, KeptStillOK DEF RInv
<1>6. Calm BY <1>0, SameIsCalm
<1>7. NamesStill BY <1>0, SameNames DEF RInv
<1>8. AgentsStill(p) BY <1>0 DEF AgentsStill
<1> QED BY <1>1, <1>2, <1>4, <1>5, <1>6, <1>7, <1>8, RestStep

LEMMA StopRowRes == ASSUME RInv, IInv', NEW p \in Handlers, StopRow(p) PROVE RInv'
<1> DEFINE next == [h[p] EXCEPT !.pc = "stop attempt"]
<1>0. TypeOK /\ h[p] \in Handler /\ UNCHANGED <<att, msgs, jobs>> BY DEF RInv, IInv, TypeOK, StopRow
<1>1. Go(p, Idle) \/ Go(p, next) BY DEF StopRow, Done
<1>2. Idle.pc = "idle" /\ next.pc = "stop attempt" BY <1>0, IdleType DEF Handler
<1> HIDE DEF next
<1>3. row'.result = row.result BY <1>0 DEF StopRow, TypeOK, Row
<1> QED BY <1>0, <1>1, <1>2, <1>3, SameKept, PlainStep DEF Starts

LEMMA StopAttemptRes == ASSUME RInv, IInv', NEW p \in Handlers, StopAttempt(p) PROVE RInv'
<1>1. Go(p, [Idle EXCEPT !.pc = "stop messages"]) /\ UNCHANGED <<row, msgs, jobs>> BY DEF StopAttempt
<1>2. att'.session = att.session BY DEF StopAttempt, RInv, IInv, TypeOK, Attempt
<1> QED BY <1>1, <1>2, SameKept, PlainStep DEF Idle, Starts

LEMMA StopMessagesRes == ASSUME RInv, IInv', NEW p \in Handlers, StopMessages(p) PROVE RInv'
<1>1. Go(p, Idle) /\ UNCHANGED <<row, att, jobs>> /\ msgs' = [n \in Turns |-> Halted(msgs[n])]
  BY DEF StopMessages, Done
<1>2. KeptOK' BY <1>1, SameKept
<1>3. Calm /\ NamesStill /\ AgentsStill(p) /\ JobsStill BY <1>1, HaltNames
<1> QED BY <1>1, <1>2, <1>3, RestStep DEF Idle, Starts

LEMMA CrashRes == ASSUME RInv, IInv', NEW p \in Handlers, Crash(p) PROVE RInv'
<1>1. Go(p, Idle) /\ UNCHANGED <<row, att, msgs, jobs>> BY DEF Crash, Done
<1> QED BY <1>1, SameKept, PlainStep DEF Idle, Starts

LEMMA RunRes == ASSUME RInv, IInv', NEW n \in Turns, RunStarts(n) \/ RunEnds(n) PROVE RInv'
<1>0. TypeOK /\ jobs[n] \in Job /\ UNCHANGED <<row, att, msgs, h>> BY DEF RInv, IInv, TypeOK, RunStarts, RunEnds
<1>1. JobsStill
  <2>1. CASE RunStarts(n)
    <3>1. jobs[n].state = "queued" /\ jobs' = [jobs EXCEPT ![n].state = "running"] BY <2>1 DEF RunStarts
    <3> QED BY <1>0, <3>1 DEF TypeOK, Job, JobsStill
  <2>2. CASE RunEnds(n)
    <3>1. PICK end \in JobEnds \cup {[state |-> "cancelled", result |-> "no"]} :
            jobs' = [jobs EXCEPT ![n].state = end.state, ![n].result = IF end.result = "yes" THEN n ELSE 0]
      BY <2>2 DEF RunEnds
    <3> DEFINE r == IF end.result = "yes" THEN n ELSE 0
               job == [jobs[n] EXCEPT !.state = end.state, !.result = r]
    <3>2. end.state # "none" BY ConductorAssumption DEF Terminal
    <3>3. jobs' = [jobs EXCEPT ![n] = job] BY <1>0, <3>1 DEF TypeOK
    <3>4. r \in {0, n} OBVIOUS
    <3> HIDE DEF r
    <3>5. job.state = end.state /\ job.result = r /\ job.agent = jobs[n].agent /\ job.resume = jobs[n].resume
      BY <1>0 DEF Job
    <3> HIDE DEF job
    <3>6. Submitted(n) BY <2>2 DEF RunEnds, Alive, Submitted
    <3>7. jobs'[n] = job /\ \A m \in Turns \ {n} : jobs'[m] = jobs[m] BY <1>0, <3>3 DEF TypeOK
    <3> QED BY <3>2, <3>4, <3>5, <3>6, <3>7 DEF JobsStill, Submitted
  <2> QED BY <2>1, <2>2
<1> QED BY <1>0, <1>1, StandStep

-------------------------------------------------------------------------------
LEMMA InitRes == Init => RInv
<1> SUFFICES ASSUME Init PROVE RInv OBVIOUS
<1>1. IInv BY InitInv
<1>2. \A n \in Turns : /\ jobs[n].state = "none" /\ jobs[n].result = 0 /\ jobs[n].resume = 0
                       /\ msgs[n].job = 0 /\ msgs[n].session = 0
  BY DEF Init, NoJob, NoMessage
<1>3. att.session = 0 /\ row.result = 0 /\ \A p \in Handlers : h[p].pc = "idle" BY DEF Init, Idle
<1> QED BY <1>1, <1>2, <1>3 DEF RInv, MessagesOK, JobsOK, KeptOK, Picks, OneStarter, Submitted, Starts

LEMMA NextRes == "choose" \notin Faults /\ RInv /\ [Next]_vars => RInv'
<1> SUFFICES ASSUME "choose" \notin Faults, RInv, [Next]_vars PROVE RInv'
  OBVIOUS
<1>0. IInv' BY NextInv DEF RInv
<1>1. ASSUME NEW p \in Handlers,
             Create(p) \/ Write(p) \/ Stop(p) \/ Refresh(p) \/ GoesOn(p) \/ Crash(p)
      PROVE  RInv'
  BY <1>0, <1>1, CreateRes, WriteRes, StopRes, RefreshRes, CrashRes, CreateAttemptRes, EnqueueRes, TakeRes,
     ChooseRes, SubmitRes, RefusedRes, BindRes, ApplyRes, ReadEndedRes, OnTurnEndRes, StopRowRes, StopAttemptRes,
     StopMessagesRes DEF GoesOn, StartNext
<1>2. ASSUME NEW p \in Handlers, \/ \E e \in Events : Deliver(p, e)
                                \/ \E n \in Turns : Pump(p, n)
      PROVE  RInv'
  BY <1>0, <1>2, DeliverRes, PumpRes
<1>3. ASSUME NEW n \in Turns, RunStarts(n) \/ RunEnds(n) PROVE RInv' BY <1>0, <1>3, RunRes
<1>4. CASE UNCHANGED vars
  <2>1. JobsStill BY <1>4 DEF vars, JobsStill
  <2> QED BY <1>0, <1>4, <2>1, StandStep DEF vars
<1> QED BY <1>1, <1>2, <1>3, <1>4 DEF Next

(* Where the failover's own statements do not fail, however many handlers race,
   stop, crash or lose Run's answer: a turn resumes only a session its own agent
   left behind (startNext). When they fail, the turn runs on the conductor's
   agent with the attempt's session, whichever agent left it (README). *)
THEOREM ResumesOwn == "choose" \notin Faults => (Spec => []ResumesOwnSession)
<1> SUFFICES ASSUME "choose" \notin Faults PROVE Spec => []ResumesOwnSession OBVIOUS
<1>1. RInv /\ [Next]_vars => RInv' BY NextRes
<1>2. RInv => ResumesOwnSession BY DEF RInv, JobsOK, ResumesOwnSession
<1> QED BY <1>1, <1>2, InitRes, PTL DEF Spec
===============================================================================
