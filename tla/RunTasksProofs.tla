---------------------------- MODULE RunTasksProofs ----------------------------
(***************************************************************************)
(* Proofs about RunTasks, for any number of handlers, any job ends and any *)
(* bounds.                                                                 *)
(***************************************************************************)
EXTENDS RunTasks, SequenceTheorems, TLAPS

(* What handler p may rely on at each of its steps. *)
Relies(p) ==
    /\ h[p].pc # "idle" => task.state # "none"
    /\ h[p].pc \in {"submit", "failAttempt", "bind", "setJob", "outcome", "follow", "stopAttempt"}
          => h[p].n \in DOMAIN att
    /\ h[p].pc = "setJob" => att[h[p].n].job = h[p].n
    /\ h[p].pc \in {"cancelJob", "read", "apply"} => h[p].doc.job \in AttemptIds
    /\ h[p].pc \in {"read", "apply"} /\ h[p].op = "event" => h[p].doc.state \in TaskStates
    /\ h[p].pc = "cancelJob" => h[p].op # "event"
    /\ h[p].pc = "follow" => h[p].kind \in Kinds
    /\ h[p].pc = "stopRow" \/ (h[p].pc = "cancelJob" /\ h[p].op = "stop")
          => att # <<>> /\ (h[p].n # 0 => h[p].n \in DOMAIN att)

HandlerOK == \A p \in Handlers : Relies(p)

(* The row and the attempts belong together. *)
RowOK ==
    /\ task.state = "none" => task.job = 0 /\ att = <<>>
    /\ task.outcome = "stopped" => att # <<>>

(* An event that was applied is in the inbox. *)
AppliedOK == \A e \in Event : applied[e] = 0 \/ (applied[e] = 1 /\ e \in inbox)

IInv ==
    /\ TypeOK /\ HandlerOK /\ RowOK
    /\ RowsJobIsAnAttempts /\ OneFollowUpPerEnding /\ AppliedOK

-------------------------------------------------------------------------------
(* The records the model starts from have their types. *)
LEMMA BaseTypes ==
    /\ NoResult \in Results \cup {NoResult}
    /\ NoRow \in Row /\ NoDoc \in Doc /\ NoJob \in Job /\ Idle \in Handler
    /\ 1 \in AttemptIds /\ AttemptIds \subseteq Nat /\ 0 \notin AttemptIds
  BY RunTasksAssumption
     DEF NoRow, Row, NoDoc, Doc, NoJob, Job, Idle, Handler, AttemptIds, TaskStates, Terminal, Steps, Ops,
         Errors, Reasons, Switchable

(* attempts.create writes an attempt of its kind. *)
LEMMA NewAttemptType ==
    ASSUME NEW kind \in Kinds, NEW parent \in {0} \cup AttemptIds
    PROVE  NewAttempt(kind, parent) \in Attempt
  BY DEF NewAttempt, Attempt, AttemptStates, Errors

LEMMA AttemptStateType ==
    ASSUME NEW state
    PROVE  AttemptState(state) \in AttemptStates
  BY DEF AttemptState, AttemptStates

LEMMA ReasonOfType ==
    ASSUME NEW state, NEW error \in Errors
    PROVE  ReasonOf(state, error) \in Errors
  BY DEF ReasonOf, Errors, Reasons, Switchable

LEMMA EndedAttemptType ==
    ASSUME NEW a \in Attempt, NEW state, NEW result \in Results \cup {NoResult}, NEW error \in Errors
    PROVE  EndedAttempt(a, state, result, error) \in Attempt
  <1>1. AttemptState(state) \in AttemptStates /\ ReasonOf(state, error) \in Errors
    BY AttemptStateType, ReasonOfType
  <1>2. "budget-stopped" \in AttemptStates /\ "budget" \in Errors
    BY DEF AttemptStates, Errors, Reasons
  <1>3. CASE result \in Results
    BY <1>1, <1>2, <1>3 DEF EndedAttempt, Attempt, Results
  <1>4. CASE result = NoResult
    BY <1>1, <1>2, <1>4 DEF EndedAttempt, Attempt, NoResult
  <1> QED
    BY <1>3, <1>4

(* attempts.list keeps the attempts of a task that has some. *)
LEMMA ListedType ==
    ASSUME TypeOK
    PROVE  /\ Listed \in Seq(Attempt) /\ Len(Listed) <= MaxAttempts /\ Len(att) <= Len(Listed)
           /\ task.state # "none" => Listed # <<>>
           /\ att # <<>> => Listed = att
           /\ Len(Listed) # Len(att) => Listed[1].parent = 0
  <1>1. task.job \in {0} \cup AttemptIds BY DEF TypeOK, Row
  <1>2. NewAttempt("first", 0) \in Attempt BY NewAttemptType DEF Kinds
  <1>3. [NewAttempt("first", 0) EXCEPT !.state = AttemptState(task.state), !.job = task.job] \in Attempt
    BY <1>1, <1>2, AttemptStateType DEF Attempt
  <1> QED
    BY <1>3, RunTasksAssumption DEF Listed, TypeOK, NewAttempt

(* The engine's plan is an outcome or a kind of attempt. *)
LEMMA DecisionType ==
    ASSUME NEW as
    PROVE  Decision(as).outcome \in Outcomes \cup {"none"} /\ Decision(as).kind \in Kinds \cup {"none"}
  BY DEF Decision, Decide, PlanFor, Plan, Outcomes, Kinds

-------------------------------------------------------------------------------
(* What no step does: an attempt is never removed, never changes the ending it
   follows, and gets no job but its own; a task never goes away. *)
Keeps ==
    /\ Len(att) <= Len(att')
    /\ \A i \in DOMAIN att : att'[i].parent = att[i].parent /\ att'[i].job \in {att[i].job, i}
    /\ task.state # "none" => task'.state # "none"

(* A step of p that keeps the attempts disturbs no other handler. *)
LEMMA OthersRely ==
    ASSUME TypeOK, TypeOK', HandlerOK, Keeps, NEW p \in Handlers, Relies(p)',
           \A q \in Handlers \ {p} : h'[q] = h[q]
    PROVE  HandlerOK'
  <1> SUFFICES ASSUME NEW q \in Handlers \ {p} PROVE Relies(q)'
    BY DEF HandlerOK
  <1>1. /\ DOMAIN att = 1..Len(att) /\ DOMAIN att' = 1..Len(att') /\ Len(att) \in Nat /\ Len(att') \in Nat
        /\ att # <<>> => att' # <<>>
    BY LenProperties, EmptySeq DEF TypeOK, Keeps
  <1>2. Relies(q) BY DEF HandlerOK
  <1> QED
    BY <1>1, <1>2 DEF Relies, Keeps

(* Nothing of the row, the attempts or the inbox changes. *)
LEMMA QuietStep ==
    ASSUME IInv, NEW p \in Handlers, TypeOK', Relies(p)', \A q \in Handlers \ {p} : h'[q] = h[q],
           UNCHANGED <<task, att, inbox, applied>>
    PROVE  IInv'
  <1>1. Keeps BY LenProperties DEF Keeps, IInv, TypeOK
  <1>2. HandlerOK' BY <1>1, OthersRely DEF IInv
  <1>3. RowOK' /\ RowsJobIsAnAttempts' /\ OneFollowUpPerEnding' /\ AppliedOK'
    BY DEF IInv, RowOK, RowsJobIsAnAttempts, OneFollowUpPerEnding, AppliedOK
  <1> QED BY <1>2, <1>3 DEF IInv

(* The row or the attempts change, the inbox does not. *)
LEMMA RowStep ==
    ASSUME IInv, NEW p \in Handlers, TypeOK', Relies(p)', \A q \in Handlers \ {p} : h'[q] = h[q],
           Keeps, RowOK', RowsJobIsAnAttempts', OneFollowUpPerEnding', UNCHANGED <<inbox, applied>>
    PROVE  IInv'
  <1>1. HandlerOK' BY OthersRely DEF IInv
  <1>2. AppliedOK' BY DEF IInv, AppliedOK
  <1> QED BY <1>1, <1>2 DEF IInv

(* The attempts change, the row does not. *)
LEMMA AttemptStep ==
    ASSUME IInv, NEW p \in Handlers, TypeOK', Relies(p)', \A q \in Handlers \ {p} : h'[q] = h[q],
           Keeps, OneFollowUpPerEnding', task.state # "none", UNCHANGED <<task, inbox, applied>>
    PROVE  IInv'
  <1>1. /\ DOMAIN att = 1..Len(att) /\ DOMAIN att' = 1..Len(att') /\ Len(att) \in Nat /\ Len(att') \in Nat
        /\ att # <<>> => att' # <<>>
    BY LenProperties, EmptySeq DEF IInv, TypeOK, Keeps
  <1>2. RowOK' BY <1>1 DEF IInv, RowOK
  <1>3. RowsJobIsAnAttempts' BY <1>1 DEF IInv, RowsJobIsAnAttempts, Keeps
  <1> QED BY <1>2, <1>3, RowStep DEF IInv

-------------------------------------------------------------------------------
LEMMA HandlerType ==
    ASSUME TypeOK, NEW p \in Handlers
    PROVE  h[p] \in Handler
  BY DEF TypeOK

(* What a handler keeps is replaced by a value of its type. *)
LEMMA HandlerEdits ==
    ASSUME NEW r \in Handler, NEW pc \in Steps
    PROVE  /\ [r EXCEPT !.pc = pc] \in Handler
           /\ \A n \in {0} \cup AttemptIds : [r EXCEPT !.pc = pc, !.n = n] \in Handler
           /\ \A row \in Row : [r EXCEPT !.pc = pc, !.row = row] \in Handler
           /\ \A doc \in Doc : [r EXCEPT !.pc = pc, !.doc = doc] \in Handler
           /\ \A op \in Ops, n \in {0} \cup AttemptIds : [r EXCEPT !.pc = pc, !.op = op, !.n = n] \in Handler
           /\ \A n \in {0} \cup AttemptIds, outcome \in Outcomes \cup {"none"} :
                 [r EXCEPT !.pc = pc, !.n = n, !.outcome = outcome] \in Handler
           /\ \A n \in {0} \cup AttemptIds, kind \in Kinds \cup {"none"} :
                 [r EXCEPT !.pc = pc, !.n = n, !.kind = kind] \in Handler
           /\ \A op \in Ops : [r EXCEPT !.op = op, !.pc = pc] \in Handler
           /\ \A op \in Ops, row \in Row : [r EXCEPT !.op = op, !.pc = pc, !.row = row] \in Handler
           /\ \A op \in Ops, doc \in Doc : [r EXCEPT !.op = op, !.pc = pc, !.doc = doc] \in Handler
           /\ \A op \in Ops, doc \in Doc, n \in {0} \cup AttemptIds :
                 [r EXCEPT !.op = op, !.pc = pc, !.doc = doc, !.n = n] \in Handler
           /\ \A op \in Ops, kind \in Kinds \cup {"none"} :
                 [r EXCEPT !.pc = pc, !.op = op, !.kind = kind] \in Handler
  BY DEF Handler

(* The fence holds while the attempts follow the endings they followed. *)
LEMMA SameParents ==
    ASSUME OneFollowUpPerEnding, DOMAIN att' = DOMAIN att, \A i \in DOMAIN att : att'[i].parent = att[i].parent
    PROVE  OneFollowUpPerEnding'
  BY DEF OneFollowUpPerEnding

(* The three ways a handler moves. *)
LEMMA GoStep ==
    ASSUME TypeOK, NEW p \in Handlers, NEW r \in Handler, Go(p, r)
    PROVE  h' \in [Handlers -> Handler] /\ h'[p] = r /\ \A q \in Handlers \ {p} : h'[q] = h[q]
  BY DEF Go, TypeOK

LEMMA GotoStep ==
    ASSUME TypeOK, NEW p \in Handlers, NEW step \in Steps, Goto(p, step)
    PROVE  /\ h' \in [Handlers -> Handler] /\ h'[p] = [h[p] EXCEPT !.pc = step]
           /\ \A q \in Handlers \ {p} : h'[q] = h[q]
  BY DEF Goto, TypeOK, Handler

LEMMA DoneStep ==
    ASSUME TypeOK, NEW p \in Handlers, Done(p)
    PROVE  /\ h' \in [Handlers -> Handler] /\ h'[p] = Idle /\ h'[p].pc = "idle" /\ Relies(p)'
           /\ \A q \in Handlers \ {p} : h'[q] = h[q]
  <1>1. h' \in [Handlers -> Handler] /\ h'[p] = Idle /\ \A q \in Handlers \ {p} : h'[q] = h[q]
    BY BaseTypes DEF Done, TypeOK
  <1>2. h'[p].pc = "idle" BY <1>1 DEF Idle
  <1> QED BY <1>1, <1>2 DEF Relies

LEMMA GroupOfType ==
    ASSUME NEW state \in TaskStates \cup {"none"}
    PROVE  GroupOf(state) \in Groups \cup {"none"}
  BY DEF GroupOf, Groups, TaskStates, Terminal

LEMMA EmitTaskType ==
    ASSUME TypeOK, NEW state \in TaskStates \cup {"none"}, NEW previous, EmitTask(state, previous)
    PROVE  said' \in Groups \cup {"none"}
  BY GroupOfType DEF EmitTask, TypeOK

(* An attempt is appended: the attempts before it stay. *)
LEMMA Appended ==
    ASSUME TypeOK, Len(att) < MaxAttempts, NEW a \in Attempt, att' = Append(att, a)
    PROVE  /\ att' \in Seq(Attempt) /\ Len(att') <= MaxAttempts /\ Len(att') = Len(att) + 1
           /\ Len(att) + 1 \in AttemptIds /\ DOMAIN att' = 1..(Len(att) + 1) /\ DOMAIN att = 1..Len(att)
           /\ att'[Len(att) + 1] = a /\ \A i \in DOMAIN att : att'[i] = att[i]
  BY AppendProperties, LenProperties, RunTasksAssumption DEF TypeOK, AttemptIds

(* An attempt is updated: its number, its place and the others stay. *)
LEMMA Updated1 ==
    ASSUME TypeOK, NEW n \in DOMAIN att, NEW a \in Attempt, att' = [att EXCEPT ![n] = a]
    PROVE  /\ att' \in Seq(Attempt) /\ Len(att') = Len(att) /\ DOMAIN att' = DOMAIN att
           /\ DOMAIN att = 1..Len(att)
           /\ att'[n] = a /\ \A i \in DOMAIN att \ {n} : att'[i] = att[i]
  BY ExceptSeq, LenProperties DEF TypeOK

-------------------------------------------------------------------------------
LEMMA StartTaskStep ==
    ASSUME IInv, NEW p \in Handlers, StartTask(p) PROVE IInv'
  <1> DEFINE r == [Idle EXCEPT !.pc = "create", !.op = "start", !.kind = "first"]
  <1>1. r \in Handler BY BaseTypes DEF Idle, Handler, Steps, Ops, Kinds
  <1>2. Go(p, r) BY DEF StartTask
  <1>3. /\ h' \in [Handlers -> Handler] /\ h'[p] = r
        /\ \A q \in Handlers \ {p} : h'[q] = h[q]
    BY <1>1, <1>2, GoStep DEF IInv
  <1>4. task' \in Row /\ task'.state = "queued" /\ task'.job = task.job /\ task'.outcome = task.outcome
    BY DEF StartTask, IInv, TypeOK, Row, TaskStates
  <1>5. said' \in Groups \cup {"none"}
    BY EmitTaskType DEF StartTask, IInv, TaskStates
  <1>6. TypeOK' BY <1>3, <1>4, <1>5 DEF StartTask, IInv, TypeOK
  <1>7. Relies(p)' BY <1>3, <1>4 DEF Relies, Idle
  <1>8. Keeps BY <1>4, LenProperties DEF Keeps, StartTask, IInv, TypeOK
  <1>9. RowOK' /\ RowsJobIsAnAttempts' /\ OneFollowUpPerEnding'
    BY <1>4 DEF StartTask, IInv, RowOK, RowsJobIsAnAttempts, OneFollowUpPerEnding
  <1> QED BY <1>3, <1>6, <1>7, <1>8, <1>9, RowStep DEF StartTask

LEMMA CreateFirstStep ==
    ASSUME IInv, NEW p \in Handlers, CreateFirst(p) PROVE IInv'
  <1> DEFINE r == [h[p] EXCEPT !.pc = "submit", !.n = Len(att) + 1]
  <1> USE DEF IInv
  <1>1. NewAttempt("first", 0) \in Attempt /\ NewAttempt("first", 0).parent = 0
    BY NewAttemptType DEF Kinds, NewAttempt
  <1>2. /\ att' \in Seq(Attempt) /\ Len(att') <= MaxAttempts /\ Len(att') = Len(att) + 1
        /\ Len(att) + 1 \in AttemptIds /\ DOMAIN att' = 1..(Len(att) + 1) /\ DOMAIN att = 1..Len(att)
        /\ att'[Len(att) + 1].parent = 0 /\ \A i \in DOMAIN att : att'[i] = att[i]
    BY <1>1, Appended DEF CreateFirst
  <1>3. r \in Handler
    <2>1. h[p] \in Handler /\ "submit" \in Steps /\ Len(att) + 1 \in {0} \cup AttemptIds
      BY <1>2, HandlerType DEF Steps
    <2> QED BY <2>1, HandlerEdits
  <1>4. /\ h' \in [Handlers -> Handler] /\ h'[p] = r
        /\ \A q \in Handlers \ {p} : h'[q] = h[q]
    BY <1>3, GoStep DEF CreateFirst
  <1>5. TypeOK' BY <1>2, <1>4 DEF CreateFirst, TypeOK
  <1>6. task.state # "none" BY DEF HandlerOK, Relies, CreateFirst
  <1>7. Relies(p)' BY <1>2, <1>4, <1>6 DEF Relies, CreateFirst, TypeOK, Handler
  <1>8. Keeps BY <1>2 DEF Keeps, CreateFirst, TypeOK
  <1>9. OneFollowUpPerEnding' BY <1>2 DEF OneFollowUpPerEnding, TypeOK
  <1> QED BY <1>4, <1>5, <1>6, <1>7, <1>8, <1>9, AttemptStep DEF CreateFirst

LEMMA SubmitStep ==
    ASSUME IInv, NEW p \in Handlers, Submit(p) PROVE IInv'
  <1> USE DEF IInv
  <1>1. PICK step \in {"bind", "failAttempt"} : Goto(p, step)
    BY DEF Submit
  <1>2. /\ h' \in [Handlers -> Handler] /\ h'[p] = [h[p] EXCEPT !.pc = step]
        /\ \A q \in Handlers \ {p} : h'[q] = h[q]
    BY <1>1, GotoStep DEF Steps
  <1>3. jobs' \in [AttemptIds -> Job] /\ faults' \in Nat
    <2>1. [NoJob EXCEPT !.state = "queued"] \in Job
      BY BaseTypes DEF NoJob, Job, TaskStates
    <2> QED BY <2>1 DEF Submit, TypeOK, Fault, NoFault
  <1>4. UNCHANGED <<task, att, proof, notices, learned, said, inbox, applied, sent, presses>>
    BY DEF Submit, db
  <1>5. TypeOK' BY <1>2, <1>3, <1>4 DEF TypeOK
  <1>6. Relies(p) /\ h[p].pc = "submit" /\ h[p] \in Handler BY HandlerType DEF HandlerOK, Submit
  <1>7. Relies(p)' BY <1>1, <1>2, <1>4, <1>6 DEF Relies, Handler
  <1> QED BY <1>2, <1>4, <1>5, <1>7, QuietStep

LEMMA FailAttemptStep ==
    ASSUME IInv, NEW p \in Handlers, FailAttempt(p) PROVE IInv'
  <1> DEFINE n == h[p].n
             a == [att[n] EXCEPT !.state = "failed", !.reason = "error"]
  <1> USE DEF IInv
  <1>1. Relies(p) /\ h[p].pc = "failAttempt" /\ h[p] \in Handler BY HandlerType DEF HandlerOK, FailAttempt
  <1>2. n \in DOMAIN att /\ task.state # "none" BY <1>1 DEF Relies
  <1>3. att[n] \in Attempt BY <1>2, LenProperties, ElementOfSeq DEF TypeOK
  <1>4. a \in Attempt /\ a.parent = att[n].parent /\ a.job = att[n].job
    BY <1>3 DEF Attempt, AttemptStates, Errors, Reasons
  <1>5. att' = [att EXCEPT ![n] = a] BY DEF FailAttempt
  <1>6. /\ att' \in Seq(Attempt) /\ Len(att') = Len(att) /\ DOMAIN att' = DOMAIN att
        /\ DOMAIN att = 1..Len(att) /\ att'[n] = a /\ \A i \in DOMAIN att \ {n} : att'[i] = att[i]
    BY <1>2, <1>4, <1>5, Updated1
  <1>7. /\ h' \in [Handlers -> Handler] /\ h'[p] = [h[p] EXCEPT !.pc = "failRow"]
        /\ \A q \in Handlers \ {p} : h'[q] = h[q]
    BY GotoStep DEF Steps, FailAttempt
  <1>8. TypeOK' BY <1>6, <1>7 DEF FailAttempt, TypeOK
  <1>9. Relies(p)'
    <2>1. h'[p].pc = "failRow" /\ task' = task BY <1>1, <1>7 DEF Handler, FailAttempt
    <2> QED BY <2>1, <1>2 DEF Relies
  <1>10. Keeps BY <1>4, <1>6 DEF Keeps, FailAttempt, TypeOK
  <1>11. OneFollowUpPerEnding' BY <1>6, <1>10, SameParents DEF Keeps
  <1> QED BY <1>2, <1>7, <1>8, <1>9, <1>10, <1>11, AttemptStep DEF FailAttempt

LEMMA FailRowStep ==
    ASSUME IInv, NEW p \in Handlers, FailRow(p) PROVE IInv'
  <1> USE DEF IInv
  <1>1. task.state # "none" BY DEF HandlerOK, Relies, FailRow
  <1>2. /\ task' \in Row /\ task'.state # "none" /\ task'.job = task.job /\ task'.outcome = "unfinished"
    BY <1>1 DEF FailRow, TypeOK, Row, TaskStates, Terminal, Errors, Reasons, Outcomes
  <1>3. [h[p] EXCEPT !.pc = "tell", !.row = task'] \in Handler BY <1>2, HandlerType, HandlerEdits DEF Steps
  <1>4. /\ h' \in [Handlers -> Handler] /\ h'[p] = [h[p] EXCEPT !.pc = "tell", !.row = task']
        /\ \A q \in Handlers \ {p} : h'[q] = h[q]
    BY <1>3, GoStep DEF FailRow
  <1>5. said' \in Groups \cup {"none"}
    <2>1. "failed" \in TaskStates \cup {"none"} BY DEF TaskStates, Terminal
    <2> QED BY <2>1, EmitTaskType DEF FailRow, TypeOK
  <1>6. TypeOK' BY <1>2, <1>4, <1>5 DEF FailRow, TypeOK
  <1>7. Relies(p)' BY <1>2, <1>4, HandlerType DEF Relies, Handler
  <1>8. Keeps BY <1>2, LenProperties DEF Keeps, FailRow, TypeOK
  <1>9. RowOK' /\ RowsJobIsAnAttempts' /\ OneFollowUpPerEnding'
    BY <1>2 DEF FailRow, RowOK, RowsJobIsAnAttempts, OneFollowUpPerEnding
  <1> QED BY <1>4, <1>6, <1>7, <1>8, <1>9, RowStep DEF FailRow

LEMMA BindStep ==
    ASSUME IInv, NEW p \in Handlers, Bind(p) PROVE IInv'
  <1> DEFINE n == h[p].n
             a == Bound(att[n], n)
  <1> USE DEF IInv
  <1>1. Relies(p) /\ h[p].pc = "bind" /\ h[p] \in Handler BY HandlerType DEF HandlerOK, Bind
  <1>2. n \in DOMAIN att /\ task.state # "none" /\ n \in {0} \cup AttemptIds BY <1>1 DEF Relies, Handler
  <1>3. att[n] \in Attempt BY <1>2, LenProperties, ElementOfSeq DEF TypeOK
  <1>4. a \in Attempt /\ a.parent = att[n].parent /\ a.job = n
    BY <1>2, <1>3 DEF Bound, Attempt, AttemptStates
  <1>5. att' = [att EXCEPT ![n] = a] BY DEF Bind
  <1>6. /\ att' \in Seq(Attempt) /\ Len(att') = Len(att) /\ DOMAIN att' = DOMAIN att
        /\ DOMAIN att = 1..Len(att) /\ att'[n] = a /\ \A i \in DOMAIN att \ {n} : att'[i] = att[i]
    BY <1>2, <1>4, <1>5, Updated1
  <1>7. /\ h' \in [Handlers -> Handler] /\ h'[p] = [h[p] EXCEPT !.pc = "setJob"]
        /\ \A q \in Handlers \ {p} : h'[q] = h[q]
    BY GotoStep DEF Steps, Bind
  <1>8. TypeOK' BY <1>6, <1>7 DEF Bind, TypeOK
  <1>9. Relies(p)' BY <1>1, <1>2, <1>4, <1>6, <1>7 DEF Relies, Bind, Handler
  <1>10. Keeps BY <1>4, <1>6 DEF Keeps, Bind, TypeOK
  <1>11. OneFollowUpPerEnding' BY <1>6, <1>10, SameParents DEF Keeps
  <1> QED BY <1>2, <1>7, <1>8, <1>9, <1>10, <1>11, AttemptStep DEF Bind

LEMMA SetJobStep ==
    ASSUME IInv, NEW p \in Handlers, SetJob(p) PROVE IInv'
  <1> DEFINE n == h[p].n
             doc == [NoDoc EXCEPT !.state = task'.state]
             r == [h[p] EXCEPT !.pc = "emit", !.doc = doc]
  <1> USE DEF IInv
  <1>1. Relies(p) /\ h[p].pc = "setJob" /\ h[p] \in Handler BY HandlerType DEF HandlerOK, SetJob
  <1>2. n \in DOMAIN att /\ att[n].job = n /\ task.state # "none" /\ n \in {0} \cup AttemptIds
    BY <1>1 DEF Relies, Handler
  <1>3. /\ task' \in Row /\ task'.state # "none" /\ task'.job = n /\ task'.outcome \in {task.outcome, "none"}
    BY <1>2 DEF SetJob, TypeOK, Row, TaskStates, Errors, Outcomes
  <1>4. doc \in Doc BY <1>3, BaseTypes DEF NoDoc, Doc, Row
  <1>5. r \in Handler BY <1>1, <1>4, HandlerEdits DEF Steps
  <1>6. /\ h' \in [Handlers -> Handler] /\ Relies(p)'
        /\ \A q \in Handlers \ {p} : h'[q] = h[q]
    <2>1. CASE Done(p) BY <2>1, DoneStep
    <2>2. CASE Go(p, r)
      <3>1. h' \in [Handlers -> Handler] /\ h'[p] = r /\ \A q \in Handlers \ {p} : h'[q] = h[q]
        BY <2>2, <1>5, GoStep
      <3>2. h'[p].pc = "emit" BY <3>1, <1>1 DEF Handler
      <3> QED BY <3>1, <3>2, <1>3 DEF Relies
    <2> QED BY <2>1, <2>2 DEF SetJob
  <1>7. TypeOK' BY <1>3, <1>6 DEF SetJob, TypeOK
  <1>8. Keeps BY <1>3, LenProperties DEF Keeps, SetJob, TypeOK
  <1>9. RowOK' /\ RowsJobIsAnAttempts' /\ OneFollowUpPerEnding'
    BY <1>2, <1>3 DEF SetJob, RowOK, RowsJobIsAnAttempts, OneFollowUpPerEnding
  <1> QED BY <1>6, <1>7, <1>8, <1>9, RowStep DEF SetJob

LEMMA EmitStep ==
    ASSUME IInv, NEW p \in Handlers, Emit(p) PROVE IInv'
  <1> USE DEF IInv
  <1>1. said' \in Groups \cup {"none"}
    <2>1. h[p].doc.state \in TaskStates \cup {"none"} BY HandlerType DEF Handler, Doc
    <2> QED BY <2>1, EmitTaskType DEF Emit
  <1>2. h' \in [Handlers -> Handler] /\ Relies(p)' /\ \A q \in Handlers \ {p} : h'[q] = h[q]
    BY DoneStep DEF Emit
  <1>3. TypeOK' BY <1>1, <1>2 DEF Emit, TypeOK
  <1> QED BY <1>2, <1>3, QuietStep DEF Emit

LEMMA DocOfType ==
    ASSUME NEW job \in {0} \cup AttemptIds
    PROVE  DocOf(job) \in Doc /\ DocOf(job).job = job
  BY BaseTypes DEF DocOf, NoDoc, Doc

LEMMA DeliverEventStep ==
    ASSUME IInv, NEW p \in Handlers, DeliverEvent(p) PROVE IInv'
  <1> USE DEF IInv
  <1>1. PICK e \in sent \ inbox :
           IF ~Ours(e) THEN inbox' = inbox \cup {e} /\ UNCHANGED h
           ELSE /\ Go(p, [Idle EXCEPT !.op = "event", !.pc = IF e.state \in Terminal THEN "read" ELSE "apply",
                                      !.doc = [NoDoc EXCEPT !.job = e.job, !.state = e.state]])
                /\ UNCHANGED inbox
    BY DEF DeliverEvent
  <1>2. e \in Event /\ e.job \in AttemptIds /\ e.state \in TaskStates BY DEF TypeOK, Event
  <1>3. UNCHANGED <<task, att, proof, notices, learned, said, applied, jobs, sent, faults, presses>>
    BY DEF DeliverEvent, db
  <1>4. CASE ~Ours(e)
    <2>1. inbox' = inbox \cup {e} /\ h' = h BY <1>1, <1>4
    <2>2. TypeOK' BY <1>2, <1>3, <2>1 DEF TypeOK
    <2>3. HandlerOK' BY <1>3, <2>1 DEF HandlerOK, Relies
    <2>4. RowOK' /\ RowsJobIsAnAttempts' /\ OneFollowUpPerEnding'
      BY <1>3 DEF RowOK, RowsJobIsAnAttempts, OneFollowUpPerEnding
    <2>5. AppliedOK' BY <1>3, <2>1 DEF AppliedOK
    <2> QED BY <2>2, <2>3, <2>4, <2>5
  <1>5. CASE Ours(e)
    <2> DEFINE pc == IF e.state \in Terminal THEN "read" ELSE "apply"
               doc == [NoDoc EXCEPT !.job = e.job, !.state = e.state]
               r == [Idle EXCEPT !.op = "event", !.pc = pc, !.doc = doc]
    <2>1. doc \in Doc /\ doc.job = e.job /\ doc.state = e.state BY <1>2, BaseTypes DEF NoDoc, Doc
    <2>2. r \in Handler /\ r.pc \in {"read", "apply"} /\ r.doc = doc
      <3>1. pc \in Steps /\ "event" \in Ops /\ Idle \in Handler BY BaseTypes DEF Steps, Ops
      <3>2. \A d \in Doc : [Idle EXCEPT !.op = "event", !.pc = pc, !.doc = d] \in Handler
        BY <3>1, HandlerEdits
      <3>3. r.pc = pc /\ r.doc = doc BY DEF Idle
      <3> QED BY <2>1, <3>2, <3>3
    <2>3. h' \in [Handlers -> Handler] /\ h'[p] = r /\ \A q \in Handlers \ {p} : h'[q] = h[q]
      BY <2>2, <1>1, <1>5, GoStep
    <2>4. inbox' = inbox BY <1>1, <1>5
    <2>5. TypeOK' BY <1>3, <2>3, <2>4 DEF TypeOK
    <2>6. task.state # "none" BY <1>2, <1>5, BaseTypes DEF Ours, RowOK
    <2>7. Relies(p)'
      <3>1. /\ h'[p].pc \in {"read", "apply"} /\ h'[p].doc.job \in AttemptIds /\ h'[p].doc.state \in TaskStates
            /\ task'.state # "none"
        BY <1>2, <1>3, <2>1, <2>2, <2>3, <2>6
      <3> QED BY <3>1 DEF Relies
    <2> QED BY <1>3, <2>3, <2>4, <2>5, <2>7, QuietStep
  <1> QED BY <1>4, <1>5

LEMMA RefreshStep ==
    ASSUME IInv, NEW p \in Handlers, Refresh(p) PROVE IInv'
  <1> DEFINE ended == [Idle EXCEPT !.op = "refresh", !.pc = "ended"]
             read == [Idle EXCEPT !.op = "refresh", !.pc = "read", !.doc = DocOf(task.job)]
  <1> USE DEF IInv
  <1>1. task.job \in AttemptIds /\ task.state # "none" BY DEF Refresh, TypeOK, Row, RowOK
  <1>2. ended \in Handler /\ ended.pc = "ended" BY BaseTypes, HandlerEdits DEF Steps, Ops, Idle
  <1>3. read \in Handler /\ read.pc = "read" /\ read.op = "refresh" /\ read.doc.job = task.job
    <2>1. DocOf(task.job) \in Doc /\ DocOf(task.job).job = task.job BY <1>1, DocOfType
    <2>2. read \in Handler BY <2>1, BaseTypes, HandlerEdits DEF Steps, Ops
    <2> QED BY <2>1, <2>2 DEF Idle
  <1>4. PICK r \in {ended, read} : Go(p, r) BY DEF Refresh
  <1>5. h' \in [Handlers -> Handler] /\ h'[p] = r /\ \A q \in Handlers \ {p} : h'[q] = h[q]
    BY <1>2, <1>3, <1>4, GoStep
  <1>6. UNCHANGED <<task, att, proof, notices, learned, said, inbox, applied, jobs, sent, faults, presses>>
    BY DEF Refresh, db
  <1>7. TypeOK' BY <1>5, <1>6 DEF TypeOK
  <1>8. Relies(p)' BY <1>1, <1>2, <1>3, <1>5, <1>6 DEF Relies
  <1> QED BY <1>5, <1>6, <1>7, <1>8, QuietStep

LEMMA ReadJobStep ==
    ASSUME IInv, NEW p \in Handlers, ReadJob(p) PROVE IInv'
  <1> DEFINE j == jobs[h[p].doc.job]
             state == IF h[p].op = "event" THEN h[p].doc.state ELSE j.state
             doc == [job |-> h[p].doc.job, state |-> state, error |-> j.error, result |-> j.result]
             r == [h[p] EXCEPT !.pc = "apply", !.doc = doc]
  <1> USE DEF IInv
  <1>1. Relies(p) /\ h[p].pc = "read" /\ h[p] \in Handler BY HandlerType DEF HandlerOK, ReadJob
  <1>2. /\ h[p].doc \in Doc /\ h[p].doc.job \in AttemptIds /\ task.state # "none"
        /\ h[p].op = "event" => h[p].doc.state \in TaskStates
    BY <1>1 DEF Relies, Handler
  <1>3. j \in Job BY <1>2 DEF TypeOK
  <1>4. doc \in Doc BY <1>2, <1>3 DEF Doc, Job
  <1>5. r \in Handler
    <2>1. \A d \in Doc : [h[p] EXCEPT !.pc = "apply", !.doc = d] \in Handler
      BY <1>1, HandlerEdits DEF Steps
    <2> QED BY <1>4, <2>1
  <1>6. /\ UNCHANGED <<task, att, proof, notices, learned, said, inbox, applied, jobs, sent, presses>>
        /\ faults' \in Nat
    BY DEF ReadJob, db, Fault, NoFault, TypeOK
  <1>7. CASE Done(p)
    <2>1. h' \in [Handlers -> Handler] /\ Relies(p)' /\ \A q \in Handlers \ {p} : h'[q] = h[q]
      BY <1>7, DoneStep
    <2>2. TypeOK' BY <1>6, <2>1 DEF TypeOK
    <2> QED BY <1>6, <2>1, <2>2, QuietStep
  <1>8. CASE Go(p, r)
    <2>1. h' \in [Handlers -> Handler] /\ h'[p] = r /\ \A q \in Handlers \ {p} : h'[q] = h[q]
      BY <1>5, <1>8, GoStep
    <2>2. TypeOK' BY <1>6, <2>1 DEF TypeOK
    <2>3. h'[p].pc = "apply" /\ h'[p].op = h[p].op /\ h'[p].doc = doc BY <1>1, <2>1 DEF Handler
    <2>4. Relies(p)' BY <1>2, <1>6, <2>3 DEF Relies
    <2> QED BY <1>6, <2>1, <2>2, <2>4, QuietStep
  <1>9. Done(p) \/ Go(p, r) BY DEF ReadJob
  <1> QED BY <1>7, <1>8, <1>9

(* recordState: the row keeps its job and its outcome, and every attempt its
   job and the ending it follows. *)
LEMMA RecordStateStep ==
    ASSUME TypeOK, NEW next \in Doc, RecordState(next)
    PROVE  /\ task' \in Row /\ said' \in Groups \cup {"none"}
           /\ task'.job = task.job /\ task'.outcome = task.outcome
           /\ task.state # "none" => task'.state # "none"
           /\ task.state = "none" => task'.state = "none"
           /\ att' \in Seq(Attempt) /\ Len(att') = Len(att) /\ DOMAIN att' = DOMAIN att
           /\ DOMAIN att = 1..Len(att)
           /\ \A i \in DOMAIN att : att'[i].parent = att[i].parent /\ att'[i].job = att[i].job
  <1>0. DOMAIN att = 1..Len(att) /\ Len(att) \in Nat /\ \A i \in DOMAIN att : att[i] \in Attempt
    BY LenProperties, ElementOfSeq DEF TypeOK
  <1>1. CASE Ignored(next)
    BY <1>0, <1>1 DEF RecordState, TypeOK
  <1>2. CASE ~Ignored(next)
    <2> DEFINE result == IF next.state \in Terminal /\ next.result # NoResult THEN next.result ELSE task.result
               error == IF next.state \in Terminal /\ next.error # "none" THEN next.error ELSE task.error
               ended(a) == EndedAttempt(a, next.state, result, error)
               bound(a) == [a EXCEPT !.state = AttemptState(next.state)]
               f(i) == IF task.job = 0 \/ att[i].job # task.job THEN att[i]
                       ELSE IF next.state \in Terminal THEN ended(att[i]) ELSE bound(att[i])
    <2>1. next.state \in TaskStates /\ task.state # "none" BY <1>2 DEF Ignored
    <2>2. result \in Results \cup {NoResult} /\ error \in Errors BY DEF TypeOK, Row, Doc
    <2>3. /\ task' = [task EXCEPT !.state = next.state, !.result = result, !.error = error]
          /\ EmitTask(next.state, task.state)
          /\ att' = [i \in DOMAIN att |-> f(i)]
      BY <1>2 DEF RecordState
    <2>4. task' \in Row /\ task'.job = task.job /\ task'.outcome = task.outcome /\ task'.state = next.state
      BY <2>1, <2>2, <2>3 DEF TypeOK, Row
    <2>5. task'.state # "none" BY <2>1, <2>4 DEF TaskStates, Terminal
    <2>6. said' \in Groups \cup {"none"} BY <2>1, <2>3, EmitTaskType
    <2>7. ASSUME NEW a \in Attempt
          PROVE  /\ ended(a) \in Attempt /\ ended(a).parent = a.parent /\ ended(a).job = a.job
                 /\ bound(a) \in Attempt /\ bound(a).parent = a.parent /\ bound(a).job = a.job
      <3>1. ended(a) \in Attempt BY <2>2, EndedAttemptType
      <3>2. ended(a).parent = a.parent /\ ended(a).job = a.job BY DEF EndedAttempt, Attempt
      <3>3. bound(a) \in Attempt /\ bound(a).parent = a.parent /\ bound(a).job = a.job
        BY AttemptStateType DEF Attempt
      <3> QED BY <3>1, <3>2, <3>3
    <2> HIDE DEF ended, bound
    <2>8. \A i \in DOMAIN att : f(i) \in Attempt /\ f(i).parent = att[i].parent /\ f(i).job = att[i].job
      BY <1>0, <2>7
    <2> HIDE DEF f
    <2>9. att' \in Seq(Attempt) /\ Len(att') = Len(att) /\ DOMAIN att' = DOMAIN att
      BY <1>0, <2>3, <2>8
    <2> QED BY <1>0, <2>1, <2>3, <2>4, <2>5, <2>6, <2>8, <2>9
  <1> QED BY <1>1, <1>2

LEMMA ApplyStep ==
    ASSUME IInv, NEW p \in Handlers, Apply(p) PROVE IInv'
  <1> DEFINE e == [job |-> h[p].doc.job, state |-> h[p].doc.state]
             r == [h[p] EXCEPT !.pc = "ended", !.doc = NoDoc]
  <1> USE DEF IInv
  <1>1. Relies(p) /\ h[p].pc = "apply" /\ h[p] \in Handler BY HandlerType DEF HandlerOK, Apply
  <1>2. /\ h[p].doc \in Doc /\ h[p].doc.job \in AttemptIds /\ task.state # "none"
        /\ h[p].op = "event" => e \in Event
    BY <1>1 DEF Relies, Handler, Event
  <1>3. UNCHANGED <<proof, notices, learned, jobs, sent, faults, presses>> BY DEF Apply
  <1>4. CASE h[p].op = "event" /\ Duplicate(e)
    <2>1. Done(p) /\ UNCHANGED <<task, att, said, inbox, applied>> BY <1>4 DEF Apply
    <2>2. h' \in [Handlers -> Handler] /\ Relies(p)' /\ \A q \in Handlers \ {p} : h'[q] = h[q]
      BY <2>1, DoneStep
    <2>3. TypeOK' BY <1>3, <2>1, <2>2 DEF TypeOK
    <2> QED BY <2>1, <2>2, <2>3, QuietStep
  <1>5. CASE ~(h[p].op = "event" /\ Duplicate(e))
    <2>1. /\ RecordState(h[p].doc) /\ Go(p, r)
          /\ IF h[p].op = "event"
             THEN inbox' = inbox \cup {e} /\ applied' = [applied EXCEPT ![e] = @ + 1]
             ELSE UNCHANGED <<inbox, applied>>
      BY <1>5 DEF Apply
    <2>2. r \in Handler BY <1>1, BaseTypes, HandlerEdits DEF Steps
    <2>3. h' \in [Handlers -> Handler] /\ h'[p] = r /\ \A q \in Handlers \ {p} : h'[q] = h[q]
      BY <2>1, <2>2, GoStep
    <2>4. h'[p].pc = "ended" BY <1>1, <2>3 DEF Handler
    <2>5. /\ task' \in Row /\ said' \in Groups \cup {"none"}
          /\ task'.job = task.job /\ task'.outcome = task.outcome /\ task'.state # "none"
          /\ att' \in Seq(Attempt) /\ Len(att') = Len(att) /\ DOMAIN att' = DOMAIN att
          /\ DOMAIN att = 1..Len(att)
          /\ \A i \in DOMAIN att : att'[i].parent = att[i].parent /\ att'[i].job = att[i].job
      BY <1>2, <2>1, RecordStateStep
    <2>6. inbox' \subseteq Event /\ applied' \in [Event -> Nat] /\ AppliedOK'
      <3>1. CASE h[p].op # "event" BY <2>1, <3>1 DEF TypeOK, AppliedOK
      <3>2. CASE h[p].op = "event"
        <4>1. e \in Event /\ e \notin inbox BY <1>2, <1>5, <3>2 DEF Duplicate
        <4>2. applied[e] = 0 BY <4>1 DEF AppliedOK
        <4>3. inbox' = inbox \cup {e} /\ applied' = [applied EXCEPT ![e] = @ + 1] BY <2>1, <3>2
        <4> HIDE DEF e
        <4> QED BY <4>1, <4>2, <4>3 DEF TypeOK, AppliedOK
      <3> QED BY <3>1, <3>2
    <2>7. TypeOK' BY <1>3, <2>3, <2>5, <2>6 DEF TypeOK
    <2>8. Relies(p)' BY <2>4, <2>5 DEF Relies
    <2>9. Keeps BY <2>5 DEF Keeps, TypeOK
    <2>10. HandlerOK' BY <2>3, <2>7, <2>8, <2>9, OthersRely
    <2>11. OneFollowUpPerEnding' BY <2>5, SameParents
    <2>12. att # <<>> => att' # <<>> BY <2>5, EmptySeq DEF TypeOK
    <2>13. RowOK' /\ RowsJobIsAnAttempts' BY <2>5, <2>12 DEF RowOK, RowsJobIsAnAttempts
    <2> QED BY <2>6, <2>7, <2>10, <2>11, <2>13
  <1> QED BY <1>4, <1>5

LEMMA ReadEndedStep ==
    ASSUME IInv, NEW p \in Handlers, ReadEnded(p) PROVE IInv'
  <1> DEFINE r == [h[p] EXCEPT !.pc = "decide", !.row = task]
  <1> USE DEF IInv
  <1>1. h[p] \in Handler /\ task.state # "none" BY HandlerType DEF HandlerOK, Relies, ReadEnded
  <1>2. UNCHANGED <<task, att, proof, notices, learned, said, inbox, applied, jobs, sent, faults, presses>>
    BY DEF ReadEnded, db
  <1>3. h' \in [Handlers -> Handler] /\ Relies(p)' /\ \A q \in Handlers \ {p} : h'[q] = h[q]
    <2>1. CASE Done(p) BY <2>1, DoneStep
    <2>2. CASE Go(p, r)
      <3>1. r \in Handler BY <1>1, HandlerEdits DEF Steps, TypeOK
      <3>2. h' \in [Handlers -> Handler] /\ h'[p] = r /\ \A q \in Handlers \ {p} : h'[q] = h[q]
        BY <2>2, <3>1, GoStep
      <3>3. h'[p].pc = "decide" BY <1>1, <3>2 DEF Handler
      <3> QED BY <1>1, <1>2, <3>2, <3>3 DEF Relies
    <2> QED BY <2>1, <2>2 DEF ReadEnded
  <1>4. TypeOK' BY <1>2, <1>3 DEF TypeOK
  <1> QED BY <1>2, <1>3, <1>4, QuietStep

(* attempts.list, as part of a step of p. *)
LEMMA ListedStep ==
    ASSUME IInv, task.state # "none", att' = Listed
    PROVE  /\ att' \in Seq(Attempt) /\ Len(att') <= MaxAttempts /\ att' # <<>>
           /\ DOMAIN att' = 1..Len(att') /\ Len(att') \in Nat \ {0}
           /\ task' = task => Keeps /\ OneFollowUpPerEnding'
  <1> USE DEF IInv
  <1>1. /\ Listed \in Seq(Attempt) /\ Len(Listed) <= MaxAttempts /\ Len(att) <= Len(Listed)
        /\ Listed # <<>> /\ (att # <<>> => Listed = att)
    BY ListedType
  <1>2. DOMAIN att' = 1..Len(att') /\ Len(att') \in Nat \ {0} /\ DOMAIN att = 1..Len(att) /\ Len(att) \in Nat
    BY <1>1, LenProperties, EmptySeq DEF TypeOK
  <1>3. CASE att # <<>> BY <1>1, <1>2, <1>3 DEF Keeps, OneFollowUpPerEnding
  <1>4. CASE att = <<>>
    <2>1. Len(att') = 1 /\ Len(att) = 0 BY <1>4 DEF Listed
    <2> QED BY <1>1, <1>2, <2>1 DEF Keeps, OneFollowUpPerEnding
  <1> QED BY <1>3, <1>4

LEMMA DecideEndedStep ==
    ASSUME IInv, NEW p \in Handlers, DecideEnded(p) PROVE IInv'
  <1> DEFINE n == Len(Listed)
             fresh == h[p].row.result.proof \in {"ok", "bad"} /\ proof[n] = "none"
             collected == IF fresh THEN h[p].row.result.proof ELSE "none"
             outcome == OutcomeOf(collected, Decision(Listed).outcome)
             kind == Decision(Listed).kind
             toOutcome == [h[p] EXCEPT !.pc = "outcome", !.n = n, !.outcome = outcome]
             toFollow == [h[p] EXCEPT !.pc = "follow", !.n = n, !.kind = kind]
  <1> USE DEF IInv
  <1>1. h[p] \in Handler /\ task.state # "none" BY HandlerType DEF HandlerOK, Relies, DecideEnded
  <1>2. UNCHANGED <<task, notices, learned, said, inbox, applied, jobs, sent, faults, presses>> /\ att' = Listed
    BY DEF DecideEnded
  <1>3. /\ att' \in Seq(Attempt) /\ Len(att') <= MaxAttempts /\ att' # <<>>
        /\ DOMAIN att' = 1..Len(att') /\ Len(att') \in Nat \ {0} /\ Keeps /\ OneFollowUpPerEnding'
    BY <1>1, <1>2, ListedStep
  <1>4. n \in AttemptIds /\ n \in DOMAIN att' BY <1>2, <1>3, RunTasksAssumption DEF AttemptIds
  <1>5. outcome \in Outcomes \cup {"none"} /\ kind \in Kinds \cup {"none"}
    BY DecisionType DEF OutcomeOf, Outcomes
  <1>6. proof' \in [AttemptIds -> {"none", "ok", "bad"}]
    BY DEF DecideEnded, TypeOK
  <1>7. Done(p) \/ Go(p, toOutcome) \/ (Go(p, toFollow) /\ kind # "none")
    BY DEF DecideEnded
  <1> HIDE DEF n, outcome, kind
  <1>8. toOutcome \in Handler /\ toFollow \in Handler
    BY <1>1, <1>4, <1>5, HandlerEdits DEF Steps
  <1>9. h' \in [Handlers -> Handler] /\ Relies(p)' /\ \A q \in Handlers \ {p} : h'[q] = h[q]
    <2>1. CASE Done(p) BY <2>1, DoneStep
    <2>2. ASSUME NEW r \in {toOutcome, toFollow}, Go(p, r), r = toFollow => kind # "none"
          PROVE  h' \in [Handlers -> Handler] /\ Relies(p)' /\ \A q \in Handlers \ {p} : h'[q] = h[q]
      <3>1. h' \in [Handlers -> Handler] /\ h'[p] = r /\ \A q \in Handlers \ {p} : h'[q] = h[q]
        BY <1>8, <2>2, GoStep
      <3>2. h'[p].pc \in {"outcome", "follow"} /\ h'[p].n = n BY <1>1, <3>1 DEF Handler
      <3>3. h'[p].pc = "follow" => h'[p].kind = kind /\ kind # "none"
        BY <1>1, <2>2, <3>1 DEF Handler
      <3> QED BY <1>1, <1>2, <1>4, <1>5, <3>1, <3>2, <3>3 DEF Relies
    <2>3. toOutcome # toFollow BY <1>1 DEF Handler
    <2> QED BY <1>7, <2>1, <2>2, <2>3
  <1>10. TypeOK' BY <1>2, <1>3, <1>6, <1>9 DEF TypeOK
  <1> QED BY <1>1, <1>2, <1>3, <1>9, <1>10, AttemptStep

LEMMA WriteOutcomeStep ==
    ASSUME IInv, NEW p \in Handlers, WriteOutcome(p) PROVE IInv'
  <1> DEFINE r == [h[p] EXCEPT !.pc = "tell", !.row = task']
  <1> USE DEF IInv
  <1>1. h[p] \in Handler /\ Relies(p) /\ h[p].pc = "outcome" BY HandlerType DEF HandlerOK, WriteOutcome
  <1>2. task.state # "none" /\ h[p].n \in DOMAIN att BY <1>1 DEF Relies
  <1>3. att # <<>> BY <1>2
  <1>4. task' \in Row /\ task'.state = task.state /\ task'.job = task.job
    BY <1>1 DEF WriteOutcome, TypeOK, Row, Handler
  <1>5. r \in Handler BY <1>1, <1>4, HandlerEdits DEF Steps
  <1>6. h' \in [Handlers -> Handler] /\ h'[p] = r /\ \A q \in Handlers \ {p} : h'[q] = h[q]
    BY <1>5, GoStep DEF WriteOutcome
  <1>7. h'[p].pc = "tell" BY <1>1, <1>6 DEF Handler
  <1>8. TypeOK' BY <1>4, <1>6 DEF WriteOutcome, TypeOK
  <1>9. Relies(p)' BY <1>2, <1>4, <1>7 DEF Relies
  <1>10. Keeps BY <1>4, LenProperties DEF Keeps, WriteOutcome, TypeOK
  <1>11. RowOK' /\ RowsJobIsAnAttempts' /\ OneFollowUpPerEnding'
    BY <1>2, <1>3, <1>4 DEF WriteOutcome, RowOK, RowsJobIsAnAttempts, OneFollowUpPerEnding
  <1> QED BY <1>6, <1>8, <1>9, <1>10, <1>11, RowStep DEF WriteOutcome

LEMMA TellStep ==
    ASSUME IInv, NEW p \in Handlers, Tell(p) PROVE IInv'
  <1> USE DEF IInv
  <1>1. h[p].row.outcome \in Outcomes \cup {"none"} BY HandlerType DEF Handler, Row
  <1>2. notices' \subseteq {"done", "needs"} BY DEF Tell, NoticeOf, TypeOK
  <1>3. learned' \in {"none", "skipped", "done", "unfinished"} BY <1>1 DEF Tell, Learn, TypeOK, Outcomes
  <1>4. h' \in [Handlers -> Handler] /\ Relies(p)' /\ \A q \in Handlers \ {p} : h'[q] = h[q]
    BY DoneStep DEF Tell
  <1>5. TypeOK' BY <1>2, <1>3, <1>4 DEF Tell, TypeOK
  <1> QED BY <1>4, <1>5, QuietStep DEF Tell

(* The budget is spent: the outcome is written, nothing starts. *)
LEMMA ExhaustedStep ==
    ASSUME IInv, NEW p \in Handlers, task.state # "none", Exhausted(p),
           UNCHANGED <<proof, notices, learned, said, inbox, applied, jobs, sent, faults, presses>>
    PROVE  IInv'
  <1> DEFINE r == [h[p] EXCEPT !.pc = "learn", !.row = task']
  <1> USE DEF IInv
  <1>1. /\ task' \in Row /\ task'.state = task.state /\ task'.job = task.job /\ task'.outcome = "unfinished"
        /\ att' = att
    BY DEF Exhausted, TypeOK, Row, Outcomes
  <1>2. h[p] \in Handler BY HandlerType
  <1>3. r \in Handler BY <1>1, <1>2, HandlerEdits DEF Steps
  <1>4. h' \in [Handlers -> Handler] /\ h'[p] = r /\ \A q \in Handlers \ {p} : h'[q] = h[q]
    BY <1>3, GoStep DEF Exhausted
  <1>5. h'[p].pc = "learn" BY <1>2, <1>4 DEF Handler
  <1>6. TypeOK' BY <1>1, <1>4 DEF TypeOK
  <1>7. Relies(p)' BY <1>1, <1>5 DEF Relies
  <1>8. Keeps BY <1>1, LenProperties DEF Keeps, TypeOK
  <1>9. RowOK' /\ RowsJobIsAnAttempts' /\ OneFollowUpPerEnding'
    BY <1>1 DEF RowOK, RowsJobIsAnAttempts, OneFollowUpPerEnding
  <1> QED BY <1>4, <1>6, <1>7, <1>8, <1>9, RowStep

LEMMA FollowUpStep ==
    ASSUME IInv, NEW p \in Handlers, FollowUp(p) PROVE IInv'
  <1> DEFINE n == h[p].n
             a == NewAttempt(h[p].kind, n)
             r == [h[p] EXCEPT !.pc = "submit", !.op = "follow", !.n = Len(att) + 1]
  <1> USE DEF IInv
  <1>1. h[p] \in Handler /\ Relies(p) /\ h[p].pc = "follow" BY HandlerType DEF HandlerOK, FollowUp
  <1>2. task.state # "none" /\ n \in DOMAIN att BY <1>1 DEF Relies
  <1>3. UNCHANGED <<proof, notices, learned, said, inbox, applied, jobs, sent, faults, presses>>
    BY DEF FollowUp
  <1>4. CASE Exhausted(p) BY <1>2, <1>3, <1>4, ExhaustedStep
  <1>5. CASE Done(p) /\ UNCHANGED <<task, att>>
    <2>1. h' \in [Handlers -> Handler] /\ Relies(p)' /\ \A q \in Handlers \ {p} : h'[q] = h[q]
      BY <1>5, DoneStep
    <2>2. TypeOK' BY <1>3, <1>5, <2>1 DEF TypeOK
    <2> QED BY <1>3, <1>5, <2>1, <2>2, QuietStep
  <1>6. CASE ~Fenced(n) /\ Len(att) < MaxAttempts /\ att' = Append(att, a) /\ Go(p, r) /\ UNCHANGED task
    <2>1. n \in AttemptIds /\ n # 0 BY <1>2, LenProperties, RunTasksAssumption DEF TypeOK, AttemptIds
    <2>2. a \in Attempt /\ a.parent = n
      <3>1. h[p].kind \in Kinds BY <1>1 DEF Relies
      <3> QED BY <2>1, <3>1, NewAttemptType DEF NewAttempt
    <2>3. /\ att' \in Seq(Attempt) /\ Len(att') <= MaxAttempts /\ Len(att') = Len(att) + 1
          /\ Len(att) + 1 \in AttemptIds /\ DOMAIN att' = 1..(Len(att) + 1) /\ DOMAIN att = 1..Len(att)
          /\ att'[Len(att) + 1] = a /\ \A i \in DOMAIN att : att'[i] = att[i]
      BY <1>6, <2>2, Appended
    <2>4. r \in Handler
      <3>1. "submit" \in Steps /\ "follow" \in Ops BY DEF Steps, Ops
      <3>2. \A k \in {0} \cup AttemptIds : [h[p] EXCEPT !.pc = "submit", !.op = "follow", !.n = k] \in Handler
        BY <1>1, <3>1, HandlerEdits
      <3> QED BY <2>3, <3>2
    <2>5. h' \in [Handlers -> Handler] /\ h'[p] = r /\ \A q \in Handlers \ {p} : h'[q] = h[q]
      BY <1>6, <2>4, GoStep
    <2>6. TypeOK' BY <1>3, <1>6, <2>3, <2>5 DEF TypeOK
    <2>7. Relies(p)'
      <3>1. h'[p].pc = "submit" /\ h'[p].n = Len(att) + 1 BY <1>1, <2>5 DEF Handler
      <3>2. Len(att) + 1 \in DOMAIN att' BY <2>3 DEF TypeOK
      <3> QED BY <1>2, <1>6, <3>1, <3>2 DEF Relies
    <2>8. Keeps BY <1>6, <2>3 DEF Keeps, TypeOK
    <2>9. OneFollowUpPerEnding' BY <1>6, <2>2, <2>3 DEF OneFollowUpPerEnding, Fenced
    <2> QED BY <1>2, <1>3, <1>6, <2>5, <2>6, <2>7, <2>8, <2>9, AttemptStep
  <1> QED BY <1>4, <1>5, <1>6 DEF FollowUp

LEMMA ContinueTaskStep ==
    ASSUME IInv, NEW p \in Handlers, ContinueTask(p) PROVE IInv'
  <1> DEFINE r == [Idle EXCEPT !.op = "continue", !.pc = "check", !.row = task]
  <1> USE DEF IInv
  <1>1. task.state # "none" /\ att' = Listed /\ presses' \in Nat BY DEF ContinueTask, Press, TypeOK
  <1>2. UNCHANGED <<task, proof, notices, learned, said, inbox, applied, jobs, sent, faults>> BY DEF ContinueTask
  <1>3. att' \in Seq(Attempt) /\ Len(att') <= MaxAttempts /\ Keeps /\ OneFollowUpPerEnding'
    BY <1>1, <1>2, ListedStep
  <1>4. h' \in [Handlers -> Handler] /\ Relies(p)' /\ \A q \in Handlers \ {p} : h'[q] = h[q]
    <2>1. CASE UNCHANGED h
      <3>1. h'[p].pc = "idle" BY <2>1 DEF ContinueTask, Idle
      <3> QED BY <2>1, <3>1 DEF TypeOK, Relies
    <2>2. CASE Go(p, r)
      <3>1. r \in Handler BY BaseTypes, HandlerEdits DEF Steps, Ops, TypeOK
      <3>2. h' \in [Handlers -> Handler] /\ h'[p] = r /\ \A q \in Handlers \ {p} : h'[q] = h[q]
        BY <2>2, <3>1, GoStep
      <3>3. h'[p].pc = "check" BY <3>2 DEF Idle
      <3> QED BY <1>1, <1>2, <3>2, <3>3 DEF Relies
    <2> QED BY <2>1, <2>2 DEF ContinueTask
  <1>5. TypeOK' BY <1>1, <1>2, <1>3, <1>4 DEF TypeOK
  <1> QED BY <1>1, <1>2, <1>3, <1>4, <1>5, AttemptStep

LEMMA CheckContinueStep ==
    ASSUME IInv, NEW p \in Handlers, CheckContinue(p) PROVE IInv'
  <1> USE DEF IInv
  <1>1. h[p] \in Handler /\ task.state # "none" BY HandlerType DEF HandlerOK, Relies, CheckContinue
  <1>2. UNCHANGED <<task, att, proof, notices, learned, said, inbox, applied, jobs, sent, faults, presses>>
    BY DEF CheckContinue, db
  <1>3. h' \in [Handlers -> Handler] /\ Relies(p)' /\ \A q \in Handlers \ {p} : h'[q] = h[q]
    <2>1. CASE Done(p) BY <2>1, DoneStep
    <2>2. CASE Goto(p, "budget")
      <3>1. /\ h' \in [Handlers -> Handler] /\ h'[p] = [h[p] EXCEPT !.pc = "budget"]
            /\ \A q \in Handlers \ {p} : h'[q] = h[q]
        BY <2>2, GotoStep DEF Steps
      <3>2. h'[p].pc = "budget" BY <1>1, <3>1 DEF Handler
      <3> QED BY <1>1, <1>2, <3>1, <3>2 DEF Relies
    <2> QED BY <2>1, <2>2 DEF CheckContinue
  <1>4. TypeOK' BY <1>2, <1>3 DEF TypeOK
  <1> QED BY <1>2, <1>3, <1>4, QuietStep

LEMMA BudgetContinueStep ==
    ASSUME IInv, NEW p \in Handlers, BudgetContinue(p) PROVE IInv'
  <1> USE DEF IInv
  <1>1. h[p] \in Handler /\ task.state # "none" BY HandlerType DEF HandlerOK, Relies, BudgetContinue
  <1>2. UNCHANGED <<proof, notices, learned, said, inbox, applied, jobs, sent, faults, presses>>
    BY DEF BudgetContinue
  <1>3. CASE Exhausted(p) BY <1>1, <1>2, <1>3, ExhaustedStep
  <1>4. CASE Goto(p, "lock") /\ UNCHANGED <<task, att>>
    <2>1. /\ h' \in [Handlers -> Handler] /\ h'[p] = [h[p] EXCEPT !.pc = "lock"]
          /\ \A q \in Handlers \ {p} : h'[q] = h[q]
      BY <1>4, GotoStep DEF Steps
    <2>2. h'[p].pc = "lock" BY <1>1, <2>1 DEF Handler
    <2>3. Relies(p)' BY <1>1, <1>4, <2>2 DEF Relies
    <2>4. TypeOK' BY <1>2, <1>4, <2>1 DEF TypeOK
    <2> QED BY <1>2, <1>4, <2>1, <2>3, <2>4, QuietStep
  <1> QED BY <1>3, <1>4 DEF BudgetContinue

LEMMA LockContinueStep ==
    ASSUME IInv, NEW p \in Handlers, LockContinue(p) PROVE IInv'
  <1> DEFINE a == NewAttempt("manual", 0)
             r == [h[p] EXCEPT !.pc = "submit", !.n = Len(att) + 1]
  <1> USE DEF IInv
  <1>1. h[p] \in Handler /\ task.state # "none" BY HandlerType DEF HandlerOK, Relies, LockContinue
  <1>2. UNCHANGED <<proof, notices, learned, said, inbox, applied, jobs, sent, faults, presses>>
    BY DEF LockContinue
  <1>3. CASE ~Continuable
    <2>1. Done(p) /\ UNCHANGED <<task, att>> BY <1>3 DEF LockContinue
    <2>2. h' \in [Handlers -> Handler] /\ Relies(p)' /\ \A q \in Handlers \ {p} : h'[q] = h[q]
      BY <2>1, DoneStep
    <2>3. TypeOK' BY <1>2, <2>1, <2>2 DEF TypeOK
    <2> QED BY <1>2, <2>1, <2>2, <2>3, QuietStep
  <1>4. CASE Continuable
    <2>1. Len(att) < MaxAttempts /\ att' = Append(att, a) /\ task' = ContinuedRow /\ Go(p, r)
      BY <1>4 DEF LockContinue
    <2>2. a \in Attempt /\ a.parent = 0 BY NewAttemptType DEF Kinds, NewAttempt
    <2>3. /\ att' \in Seq(Attempt) /\ Len(att') <= MaxAttempts /\ Len(att') = Len(att) + 1
          /\ Len(att) + 1 \in AttemptIds /\ DOMAIN att' = 1..(Len(att) + 1) /\ DOMAIN att = 1..Len(att)
          /\ att'[Len(att) + 1] = a /\ \A i \in DOMAIN att : att'[i] = att[i]
      BY <2>1, <2>2, Appended
    <2>4. task' \in Row /\ task'.state = "queued" /\ task'.job = 0 /\ task'.outcome = "none"
      BY <2>1 DEF ContinuedRow, TypeOK, Row, TaskStates, Errors
    <2>5. r \in Handler
      <3>1. "submit" \in Steps /\ Len(att) + 1 \in {0} \cup AttemptIds BY <2>3 DEF Steps
      <3> QED BY <1>1, <3>1, HandlerEdits
    <2>6. h' \in [Handlers -> Handler] /\ h'[p] = r /\ \A q \in Handlers \ {p} : h'[q] = h[q]
      BY <2>1, <2>5, GoStep
    <2>7. TypeOK' BY <1>2, <2>3, <2>4, <2>6 DEF TypeOK
    <2>8. Relies(p)'
      <3>1. h'[p].pc = "submit" /\ h'[p].n = Len(att) + 1 BY <1>1, <2>6 DEF Handler
      <3>2. Len(att) + 1 \in DOMAIN att' BY <2>3 DEF TypeOK
      <3> QED BY <2>4, <3>1, <3>2 DEF Relies
    <2>9. Keeps BY <2>3, <2>4 DEF Keeps, TypeOK
    <2>10. OneFollowUpPerEnding' BY <2>2, <2>3 DEF OneFollowUpPerEnding, TypeOK
    <2>11. RowOK' /\ RowsJobIsAnAttempts' BY <2>4 DEF RowOK, RowsJobIsAnAttempts
    <2> QED BY <1>2, <2>6, <2>7, <2>8, <2>9, <2>10, <2>11, RowStep
  <1> QED BY <1>3, <1>4

LEMMA StopTaskStep ==
    ASSUME IInv, NEW p \in Handlers, StopTask(p) PROVE IInv'
  <1> DEFINE asked == task.job # 0 /\ task.state \notin Terminal
             pc == IF asked THEN "cancelJob" ELSE "stopRow"
             stop(n) == [Idle EXCEPT !.op = "stop", !.pc = pc, !.doc = DocOf(task.job), !.n = n]
             cancel == [Idle EXCEPT !.op = "cancel", !.pc = "cancelJob", !.doc = DocOf(task.job)]
  <1> USE DEF IInv
  <1>1. task.state # "none" /\ presses' \in Nat /\ task.job \in {0} \cup AttemptIds
    <2>1. task.state # "none" /\ Press BY DEF StopTask
    <2>2. task.job \in {0} \cup AttemptIds /\ presses \in Nat BY DEF TypeOK, Row
    <2> QED BY <2>1, <2>2 DEF Press
  <1>2. UNCHANGED <<task, proof, notices, learned, said, inbox, applied, jobs, sent, faults>> BY DEF StopTask
  <1>3. DocOf(task.job) \in Doc /\ DocOf(task.job).job = task.job BY <1>1, DocOfType
  <1>4. ASSUME NEW last \in 0..Len(Listed), LatestLive(Listed, last), att' = Listed, Go(p, stop(last))
        PROVE  IInv'
    <2>1. /\ att' \in Seq(Attempt) /\ Len(att') <= MaxAttempts /\ att' # <<>> /\ Len(att') \in Nat
          /\ DOMAIN att' = 1..Len(att') /\ Keeps /\ OneFollowUpPerEnding'
      BY <1>1, <1>2, <1>4, ListedStep
    <2>2. last \in {0} \cup AttemptIds /\ (last # 0 => last \in DOMAIN att')
      BY <1>4, <2>1, RunTasksAssumption DEF AttemptIds
    <2>3. stop(last) \in Handler
      <3>1. pc \in Steps /\ "stop" \in Ops /\ Idle \in Handler BY BaseTypes DEF Steps, Ops
      <3> HIDE DEF pc
      <3> QED BY <1>3, <2>2, <3>1, HandlerEdits
    <2>4. h' \in [Handlers -> Handler] /\ h'[p] = stop(last) /\ \A q \in Handlers \ {p} : h'[q] = h[q]
      BY <1>4, <2>3, GoStep
    <2>5. h'[p].pc = pc /\ h'[p].op = "stop" /\ h'[p].doc.job = task.job /\ h'[p].n = last
      BY <1>3, <2>4 DEF Idle
    <2>6. TypeOK' BY <1>1, <1>2, <2>1, <2>4 DEF TypeOK
    <2>7. Relies(p)' BY <1>1, <1>2, <2>1, <2>2, <2>5 DEF Relies
    <2> QED BY <1>1, <1>2, <2>1, <2>4, <2>6, <2>7, AttemptStep
  <1>5. CASE asked /\ Go(p, cancel) /\ UNCHANGED att
    <2>1. cancel \in Handler BY <1>3, BaseTypes, HandlerEdits DEF Steps, Ops
    <2>2. h' \in [Handlers -> Handler] /\ h'[p] = cancel /\ \A q \in Handlers \ {p} : h'[q] = h[q]
      BY <1>5, <2>1, GoStep
    <2>3. h'[p].pc = "cancelJob" /\ h'[p].op = "cancel" /\ h'[p].doc.job = task.job BY <1>3, <2>2 DEF Idle
    <2>4. TypeOK' BY <1>1, <1>2, <1>5, <2>2 DEF TypeOK
    <2>5. Relies(p)' BY <1>1, <1>2, <1>5, <2>3 DEF Relies
    <2> QED BY <1>2, <1>5, <2>2, <2>4, <2>5, QuietStep
  <1> QED BY <1>4, <1>5 DEF StopTask

LEMMA CancelJobStep ==
    ASSUME IInv, NEW p \in Handlers, CancelJob(p) PROVE IInv'
  <1> DEFINE j == h[p].doc.job
             step == IF h[p].op = "stop" THEN "stopRow" ELSE "read"
  <1> USE DEF IInv
  <1>1. h[p] \in Handler /\ Relies(p) /\ h[p].pc = "cancelJob" BY HandlerType DEF HandlerOK, CancelJob
  <1>2. /\ j \in AttemptIds /\ task.state # "none" /\ h[p].op # "event"
        /\ h[p].op = "stop" => att # <<>> /\ (h[p].n # 0 => h[p].n \in DOMAIN att)
    BY <1>1 DEF Relies
  <1>3. UNCHANGED <<task, att, proof, notices, learned, said, inbox, applied, presses>> BY DEF CancelJob, db
  <1>4. jobs' \in [AttemptIds -> Job] /\ sent' \subseteq Event /\ faults' \in Nat
    <2>1. [jobs[j] EXCEPT !.state = "cancelled"] \in Job BY <1>2 DEF TypeOK, Job, TaskStates, Terminal
    <2>2. [job |-> j, state |-> "cancelled"] \in Event BY <1>2 DEF Event, TaskStates, Terminal
    <2>3. \/ /\ jobs' = [jobs EXCEPT ![j] = [jobs[j] EXCEPT !.state = "cancelled"]]
             /\ sent' = sent \cup {[job |-> j, state |-> "cancelled"]}
          \/ UNCHANGED <<jobs, sent>>
      BY DEF CancelJob
    <2>4. faults' \in Nat BY DEF CancelJob, TypeOK, Fault, NoFault
    <2> QED BY <1>2, <2>1, <2>2, <2>3, <2>4 DEF TypeOK
  <1>5. /\ h' \in [Handlers -> Handler] /\ h'[p] = [h[p] EXCEPT !.pc = step]
        /\ \A q \in Handlers \ {p} : h'[q] = h[q]
    BY GotoStep DEF Steps, CancelJob
  <1>6. h'[p].pc = step /\ h'[p].op = h[p].op /\ h'[p].doc = h[p].doc /\ h'[p].n = h[p].n BY <1>1, <1>5 DEF Handler
  <1>7. TypeOK' BY <1>3, <1>4, <1>5 DEF TypeOK
  <1>8. Relies(p)' BY <1>2, <1>3, <1>6 DEF Relies
  <1> QED BY <1>3, <1>5, <1>7, <1>8, QuietStep

LEMMA StopRowStep ==
    ASSUME IInv, NEW p \in Handlers, StopRow(p) PROVE IInv'
  <1> USE DEF IInv
  <1>1. h[p] \in Handler /\ Relies(p) /\ h[p].pc = "stopRow" BY HandlerType DEF HandlerOK, StopRow
  <1>2. task.state # "none" /\ att # <<>> /\ (h[p].n # 0 => h[p].n \in DOMAIN att) BY <1>1 DEF Relies
  <1>3. UNCHANGED <<att, proof, notices, learned, inbox, applied, jobs, sent, faults, presses>> BY DEF StopRow
  <1>4. task' \in Row /\ task'.state # "none" /\ task'.job = task.job
    BY <1>2 DEF StopRow, TypeOK, Row, TaskStates, Terminal, Outcomes
  <1>5. said' \in Groups \cup {"none"}
    <2>1. "cancelled" \in TaskStates \cup {"none"} BY DEF TaskStates, Terminal
    <2> QED BY <2>1, EmitTaskType DEF StopRow, TypeOK
  <1>6. h' \in [Handlers -> Handler] /\ Relies(p)' /\ \A q \in Handlers \ {p} : h'[q] = h[q]
    <2>1. CASE Done(p) BY <2>1, DoneStep
    <2>2. CASE Goto(p, "stopAttempt") /\ h[p].n # 0
      <3>1. /\ h' \in [Handlers -> Handler] /\ h'[p] = [h[p] EXCEPT !.pc = "stopAttempt"]
            /\ \A q \in Handlers \ {p} : h'[q] = h[q]
        BY <2>2, GotoStep DEF Steps
      <3>2. h'[p].pc = "stopAttempt" /\ h'[p].n = h[p].n BY <1>1, <3>1 DEF Handler
      <3> QED BY <1>2, <1>3, <1>4, <2>2, <3>1, <3>2 DEF Relies
    <2> QED BY <2>1, <2>2 DEF StopRow
  <1>7. TypeOK' BY <1>3, <1>4, <1>5, <1>6 DEF TypeOK
  <1>8. Keeps BY <1>3, <1>4, LenProperties DEF Keeps, TypeOK
  <1>9. RowOK' /\ RowsJobIsAnAttempts' /\ OneFollowUpPerEnding'
    BY <1>2, <1>3, <1>4 DEF RowOK, RowsJobIsAnAttempts, OneFollowUpPerEnding
  <1> QED BY <1>3, <1>6, <1>7, <1>8, <1>9, RowStep

LEMMA StopAttemptStep ==
    ASSUME IInv, NEW p \in Handlers, StopAttempt(p) PROVE IInv'
  <1> DEFINE n == h[p].n
             a == [att[n] EXCEPT !.state = "stopped", !.reason = "stopped"]
  <1> USE DEF IInv
  <1>1. Relies(p) /\ h[p].pc = "stopAttempt" /\ h[p] \in Handler BY HandlerType DEF HandlerOK, StopAttempt
  <1>2. n \in DOMAIN att /\ task.state # "none" BY <1>1 DEF Relies
  <1>3. att[n] \in Attempt BY <1>2, LenProperties, ElementOfSeq DEF TypeOK
  <1>4. a \in Attempt /\ a.parent = att[n].parent /\ a.job = att[n].job
    BY <1>3 DEF Attempt, AttemptStates, Errors, Reasons
  <1>5. att' = [att EXCEPT ![n] = a] BY DEF StopAttempt
  <1>6. /\ att' \in Seq(Attempt) /\ Len(att') = Len(att) /\ DOMAIN att' = DOMAIN att
        /\ DOMAIN att = 1..Len(att) /\ att'[n] = a /\ \A i \in DOMAIN att \ {n} : att'[i] = att[i]
    BY <1>2, <1>4, <1>5, Updated1
  <1>7. h' \in [Handlers -> Handler] /\ Relies(p)' /\ \A q \in Handlers \ {p} : h'[q] = h[q]
    BY DoneStep DEF StopAttempt
  <1>8. TypeOK' BY <1>6, <1>7 DEF StopAttempt, TypeOK
  <1>9. Keeps BY <1>4, <1>6 DEF Keeps, StopAttempt, TypeOK
  <1>10. OneFollowUpPerEnding' BY <1>6, <1>9, SameParents DEF Keeps
  <1> QED BY <1>2, <1>7, <1>8, <1>9, <1>10, AttemptStep DEF StopAttempt

LEMMA ViewTimelineStep ==
    ASSUME IInv, NEW p \in Handlers, ViewTimeline(p) PROVE IInv'
  <1> USE DEF IInv
  <1>1. task.state # "none" /\ att' = Listed BY DEF ViewTimeline
  <1>2. UNCHANGED <<task, proof, notices, learned, said, inbox, applied, jobs, sent, h, faults, presses>>
    BY DEF ViewTimeline
  <1>3. att' \in Seq(Attempt) /\ Len(att') <= MaxAttempts /\ Keeps /\ OneFollowUpPerEnding'
    BY <1>1, <1>2, ListedStep
  <1>4. TypeOK' BY <1>2, <1>3 DEF TypeOK
  <1>5. h'[p].pc = "idle" BY <1>2 DEF ViewTimeline, Idle
  <1>6. Relies(p)' BY <1>5 DEF Relies
  <1> QED BY <1>1, <1>2, <1>3, <1>4, <1>6, AttemptStep

(* A crash drops the handlers and nothing else. *)
LEMMA CrashStep ==
    ASSUME IInv, Crash PROVE IInv'
  <1> USE DEF IInv
  <1>1. /\ UNCHANGED <<task, att, proof, notices, learned, said, inbox, applied, jobs, sent, presses>>
        /\ faults' \in Nat /\ h' = [p \in Handlers |-> Idle]
    BY DEF Crash, db, Fault, TypeOK
  <1>2. TypeOK' BY <1>1, BaseTypes DEF TypeOK
  <1>3. HandlerOK'
    <2>1. \A p \in Handlers : h'[p].pc = "idle" BY <1>1 DEF Idle
    <2> QED BY <2>1 DEF HandlerOK, Relies
  <1> QED BY <1>1, <1>2, <1>3 DEF RowOK, RowsJobIsAnAttempts, OneFollowUpPerEnding, AppliedOK

(* OpenVibe.Run touches its own jobs and events only. *)
LEMMA RunStep ==
    ASSUME IInv, NEW j \in AttemptIds, RunStarts(j) \/ RunEnds(j) PROVE IInv'
  <1> USE DEF IInv
  <1>1. UNCHANGED <<task, att, proof, notices, learned, said, inbox, applied, h, faults, presses>>
    BY DEF RunStarts, RunEnds, db
  <1>2. jobs' \in [AttemptIds -> Job] /\ sent' \subseteq Event
    <2>1. CASE RunStarts(j)
      <3>1. [jobs[j] EXCEPT !.state = "running"] \in Job BY DEF TypeOK, Job, TaskStates
      <3>2. [job |-> j, state |-> "running"] \in Event BY DEF Event, TaskStates
      <3> QED BY <2>1, <3>1, <3>2 DEF RunStarts, TypeOK
    <2>2. CASE RunEnds(j)
      <3>1. PICK e \in JobEnds : /\ jobs' = [jobs EXCEPT ![j] = e]
                                 /\ sent' = sent \cup {[job |-> j, state |-> e.state]}
        BY <2>2 DEF RunEnds
      <3>2. e \in Job /\ e.state \in TaskStates
        BY RunTasksAssumption DEF JobEndType, Job, TaskStates
      <3> QED BY <3>1, <3>2 DEF TypeOK, Event
    <2> QED BY <2>1, <2>2
  <1>3. TypeOK' BY <1>1, <1>2 DEF TypeOK
  <1>4. HandlerOK' BY <1>1 DEF HandlerOK, Relies
  <1> QED BY <1>1, <1>3, <1>4 DEF RowOK, RowsJobIsAnAttempts, OneFollowUpPerEnding, AppliedOK

LEMMA InitIInv == Init => IInv
  <1> SUFFICES ASSUME Init PROVE IInv
    OBVIOUS
  <1>1. TypeOK BY BaseTypes, EmptySeq, RunTasksAssumption DEF Init, TypeOK
  <1>2. HandlerOK
    <2>1. \A p \in Handlers : h[p].pc = "idle" BY DEF Init, Idle
    <2> QED BY <2>1 DEF HandlerOK, Relies
  <1>3. RowOK /\ RowsJobIsAnAttempts /\ OneFollowUpPerEnding
    BY DEF Init, NoRow, RowOK, RowsJobIsAnAttempts, OneFollowUpPerEnding
  <1>4. AppliedOK BY DEF Init, AppliedOK
  <1> QED BY <1>1, <1>2, <1>3, <1>4 DEF IInv

LEMMA StutterStep == IInv /\ UNCHANGED vars => IInv'
  BY DEF vars, db, IInv, TypeOK, HandlerOK, Relies, RowOK, RowsJobIsAnAttempts, OneFollowUpPerEnding, AppliedOK

(* Every step preserves the invariant, one lemma per action. *)
LEMMA NextIInv == IInv /\ [Next]_vars => IInv'
  <1> SUFFICES ASSUME IInv, [Next]_vars PROVE IInv'
    OBVIOUS
  <1>1. ASSUME NEW p \in Handlers,
               \/ StartTask(p) \/ DeliverEvent(p) \/ Refresh(p) \/ ContinueTask(p) \/ StopTask(p)
               \/ ViewTimeline(p) \/ DecideEnded(p)
        PROVE  IInv'
    BY <1>1, StartTaskStep, DeliverEventStep, RefreshStep, ContinueTaskStep, StopTaskStep, ViewTimelineStep,
       DecideEndedStep
  <1>2. ASSUME NEW p \in Handlers, Continues(p)
        PROVE  IInv'
    BY <1>2, CreateFirstStep, SubmitStep, FailAttemptStep, FailRowStep, BindStep, SetJobStep, EmitStep,
       ReadJobStep, ApplyStep, ReadEndedStep, WriteOutcomeStep, TellStep, FollowUpStep, CheckContinueStep,
       BudgetContinueStep, LockContinueStep, CancelJobStep, StopRowStep, StopAttemptStep
       DEF Continues
  <1> QED
    BY <1>1, <1>2, CrashStep, RunStep, StutterStep DEF Next

-------------------------------------------------------------------------------
(* The inductive invariant holds in every reachable state. *)
THEOREM Invariance == Spec => []IInv
  BY InitIInv, NextIInv, PTL DEF Spec

(* Every state the handlers write on a row, an attempt, a notice or an event is
   one the tables know, for any number of concurrent handlers. *)
THEOREM TypeCorrect == Spec => []TypeOK
  <1>1. IInv => TypeOK BY DEF IInv
  <1> QED BY <1>1, Invariance, PTL

(* The fence: however many handlers decide about an ending, and wherever they
   crash, it starts at most one follow-up. *)
THEOREM FenceHolds == Spec => []OneFollowUpPerEnding
  <1>1. IInv => OneFollowUpPerEnding BY DEF IInv
  <1> QED BY <1>1, Invariance, PTL

(* The row's job is always the job of one of the task's attempts. *)
THEOREM RowIsBound == Spec => []RowsJobIsAnAttempts
  <1>1. IInv => RowsJobIsAnAttempts BY DEF IInv
  <1> QED BY <1>1, Invariance, PTL

(* No event is applied twice, however often it is delivered. *)
THEOREM AppliedOnce == Spec => []EventAppliedOnce
  <1>1. IInv => EventAppliedOnce BY DEF IInv, TypeOK, AppliedOK, EventAppliedOnce
  <1> QED BY <1>1, Invariance, PTL

-------------------------------------------------------------------------------
(* A state that recordState does not ignore moves the task forwards. *)
LEMMA ApplyForwards ==
    ASSUME IInv, NEW p \in Handlers, Apply(p)
    PROVE  /\ task.state # "none" => Rank[task'.state] >= Rank[task.state]
           /\ task.state \in Terminal => task'.state = task.state
  <1> DEFINE next == h[p].doc
  <1>1. task \in Row /\ Rank \in [TaskStates -> Nat]
    BY DEF IInv, TypeOK, Rank, TaskStates
  <1>2. CASE UNCHANGED task
    <2>1. task.state # "none" => task.state \in TaskStates BY <1>1 DEF Row
    <2>2. \A s \in TaskStates : Rank[s] >= Rank[s] BY <1>1
    <2> QED BY <1>2, <2>1, <2>2
  <1>3. CASE ~Ignored(next) /\ RecordState(next)
    <2>1. next.state \in TaskStates /\ task.state \in TaskStates /\ ~(Rank[next.state] < Rank[task.state])
          /\ (task.state \in Terminal => task.state = next.state)
      BY <1>1, <1>3 DEF Ignored, Row
    <2>2. task'.state = next.state BY <1>1, <1>3 DEF RecordState, Row
    <2>3. Rank[next.state] \in Nat /\ Rank[task.state] \in Nat BY <1>1, <2>1
    <2> QED BY <2>1, <2>2, <2>3
  <1>4. UNCHANGED task \/ RecordState(next) BY DEF Apply
  <1>5. RecordState(next) /\ Ignored(next) => UNCHANGED task BY DEF RecordState
  <1> QED BY <1>2, <1>3, <1>4, <1>5

(* A late or out-of-order state never moves a task backwards or from one end to
   another, whoever applies it. *)
THEOREM Forwards == Spec => NeverBackwards
  <1>1. IInv /\ [Next]_vars =>
           [\A p \in Handlers : Apply(p) =>
                /\ task.state # "none" => Rank[task'.state] >= Rank[task.state]
                /\ task.state \in Terminal => task'.state = task.state]_vars
    BY ApplyForwards
  <1> QED BY <1>1, Invariance, PTL DEF Spec, NeverBackwards

(* A step of p that ends where p knows of the stop. *)
LEMMA StaysStopped ==
    ASSUME Stopped, NEW p \in Handlers, task'.outcome = "stopped",
           \A q \in Handlers \ {p} : h'[q] = h[q],
           h'[p].pc \in {"idle", "ended", "check", "cancelJob", "stopRow", "stopAttempt", "read", "apply"}
    PROVE  Stopped'
  <1>1. ~Unaware(p)' BY DEF Unaware
  <1>2. ASSUME NEW q \in Handlers \ {p} PROVE ~Unaware(q)'
    BY DEF Stopped, Unaware
  <1> QED BY <1>1, <1>2 DEF Stopped

(* What a handler that begins after the stop, or that has yet to read the row,
   does: it keeps the stop and the attempts. *)
LEMMA StopStep ==
    ASSUME IInv, Stopped, NEW p \in Handlers,
           \/ StartTask(p) \/ DeliverEvent(p) \/ Refresh(p) \/ ContinueTask(p) \/ StopTask(p)
           \/ ViewTimeline(p) \/ DecideEnded(p) \/ Continues(p)
    PROVE  Stopped' /\ Len(att') = Len(att)
  <1> USE DEF IInv
  <1>1. /\ task.outcome = "stopped" /\ att # <<>> /\ Listed = att /\ ~Unaware(p) /\ h[p] \in Handler
        /\ ~Continuable /\ NothingToDecide /\ task.state # "none"
    BY HandlerType, ListedType DEF Stopped, RowOK, Continuable, NothingToDecide
  <1>2. /\ ~StartTask(p) /\ ~CreateFirst(p) /\ ~Submit(p) /\ ~FailAttempt(p) /\ ~FailRow(p) /\ ~Bind(p)
        /\ ~SetJob(p) /\ ~DecideEnded(p) /\ ~WriteOutcome(p) /\ ~FollowUp(p) /\ ~BudgetContinue(p)
    BY <1>1 DEF Unaware, StartTask, CreateFirst, Submit, FailAttempt, FailRow, Bind, SetJob, DecideEnded,
                WriteOutcome, FollowUp, BudgetContinue
  <1>3. ASSUME Done(p), task'.outcome = "stopped" PROVE Stopped'
    <2>1. h'[p].pc = "idle" /\ \A q \in Handlers \ {p} : h'[q] = h[q] BY <1>3, DoneStep
    <2> QED BY <1>3, <2>1, StaysStopped
  <1>4. ASSUME UNCHANGED <<task, h>> PROVE Stopped'
    BY <1>4 DEF Stopped, Unaware
  <1>5. ASSUME NEW pc \in {"ended", "check", "cancelJob", "stopRow", "stopAttempt", "read", "apply"},
               NEW r \in Handler, r.pc = pc, Go(p, r), task'.outcome = "stopped"
        PROVE  Stopped'
    <2>1. h'[p].pc = pc /\ \A q \in Handlers \ {p} : h'[q] = h[q] BY <1>5, GoStep
    <2> QED BY <1>5, <2>1, StaysStopped
  <1>6. CASE DeliverEvent(p)
    <2>1. att' = att /\ task' = task BY <1>6 DEF DeliverEvent, db
    <2>2. PICK e \in sent \ inbox :
             \/ UNCHANGED h
             \/ Go(p, [Idle EXCEPT !.op = "event", !.pc = IF e.state \in Terminal THEN "read" ELSE "apply",
                                   !.doc = [NoDoc EXCEPT !.job = e.job, !.state = e.state]])
      BY <1>6 DEF DeliverEvent
    <2>3. CASE UNCHANGED h BY <1>4, <2>1, <2>3
    <2>4. CASE ~UNCHANGED h
      <3> DEFINE pc == IF e.state \in Terminal THEN "read" ELSE "apply"
                 doc == [NoDoc EXCEPT !.job = e.job, !.state = e.state]
                 r == [Idle EXCEPT !.op = "event", !.pc = pc, !.doc = doc]
      <3>1. doc \in Doc BY BaseTypes DEF NoDoc, Doc, TypeOK, Event
      <3>2. pc \in Steps /\ "event" \in Ops /\ Idle \in Handler BY BaseTypes DEF Steps, Ops
      <3>3. \A d \in Doc : [Idle EXCEPT !.op = "event", !.pc = pc, !.doc = d] \in Handler
        BY <3>2, HandlerEdits
      <3>4. r \in Handler /\ r.pc = pc BY <3>1, <3>3 DEF Idle
      <3>5. pc \in {"read", "apply"} OBVIOUS
      <3>6. Go(p, r) BY <2>2, <2>4
      <3> HIDE DEF r, pc
      <3> QED BY <1>1, <1>5, <2>1, <3>4, <3>5, <3>6
    <2> QED BY <2>3, <2>4
  <1>7. CASE Refresh(p)
    <2> DEFINE ended == [Idle EXCEPT !.op = "refresh", !.pc = "ended"]
               read == [Idle EXCEPT !.op = "refresh", !.pc = "read", !.doc = DocOf(task.job)]
    <2>1. att' = att /\ task' = task /\ (Go(p, ended) \/ Go(p, read)) BY <1>7 DEF Refresh, db
    <2>2. ended \in Handler /\ ended.pc = "ended" BY BaseTypes, HandlerEdits DEF Steps, Ops, Idle
    <2>3. DocOf(task.job) \in Doc BY DocOfType DEF TypeOK, Row
    <2>4. read \in Handler BY <2>3, BaseTypes, HandlerEdits DEF Steps, Ops
    <2>5. read.pc = "read" BY DEF Idle
    <2> HIDE DEF ended, read
    <2> QED BY <1>1, <1>5, <2>1, <2>2, <2>4, <2>5
  <1>8. CASE ContinueTask(p)
    <2> DEFINE r == [Idle EXCEPT !.op = "continue", !.pc = "check", !.row = task]
    <2>1. att' = att /\ task' = task /\ (UNCHANGED h \/ Go(p, r)) BY <1>1, <1>8 DEF ContinueTask
    <2>2. r \in Handler BY BaseTypes, HandlerEdits DEF Steps, Ops, TypeOK
    <2>3. r.pc = "check" BY DEF Idle
    <2> HIDE DEF r
    <2> QED BY <1>1, <1>4, <1>5, <2>1, <2>2, <2>3
  <1>9. CASE StopTask(p)
    <2> DEFINE pc == IF task.job # 0 /\ task.state \notin Terminal THEN "cancelJob" ELSE "stopRow"
               stop(n) == [Idle EXCEPT !.op = "stop", !.pc = pc, !.doc = DocOf(task.job), !.n = n]
               cancel == [Idle EXCEPT !.op = "cancel", !.pc = "cancelJob", !.doc = DocOf(task.job)]
    <2>1. att' = att /\ task' = task /\ ((\E n \in 0..Len(att) : Go(p, stop(n))) \/ Go(p, cancel))
      BY <1>1, <1>9 DEF StopTask
    <2>2. DocOf(task.job) \in Doc BY DocOfType DEF TypeOK, Row
    <2>3. cancel \in Handler BY <2>2, BaseTypes, HandlerEdits DEF Steps, Ops
    <2>4. cancel.pc = "cancelJob" BY DEF Idle
    <2>5. ASSUME NEW n \in 0..Len(att) PROVE stop(n) \in Handler /\ stop(n).pc = pc
      <3>1. n \in {0} \cup AttemptIds BY LenProperties, RunTasksAssumption DEF TypeOK, AttemptIds
      <3>2. pc \in Steps /\ "stop" \in Ops /\ Idle \in Handler BY BaseTypes DEF Steps, Ops
      <3>3. stop(n).pc = pc BY DEF Idle
      <3> HIDE DEF pc
      <3> QED BY <2>2, <3>1, <3>2, <3>3, HandlerEdits
    <2>6. pc \in {"cancelJob", "stopRow"} OBVIOUS
    <2> HIDE DEF cancel, stop, pc
    <2> QED BY <1>1, <1>5, <2>1, <2>3, <2>4, <2>5, <2>6
  <1>10. CASE ViewTimeline(p)
    <2>1. att' = att /\ UNCHANGED <<task, h>> BY <1>1, <1>10 DEF ViewTimeline
    <2> QED BY <1>4, <2>1
  <1>11. CASE ReadJob(p)
    <2> DEFINE j == jobs[h[p].doc.job]
               doc == [job |-> h[p].doc.job, state |-> IF h[p].op = "event" THEN h[p].doc.state ELSE j.state,
                       error |-> j.error, result |-> j.result]
               r == [h[p] EXCEPT !.pc = "apply", !.doc = doc]
    <2>1. att' = att /\ task' = task /\ (Done(p) \/ Go(p, r)) BY <1>11 DEF ReadJob, db
    <2>2. doc \in Doc
      <3>1. h[p].doc \in Doc /\ h[p].doc.job \in AttemptIds BY <1>1, <1>11 DEF HandlerOK, Relies, ReadJob, Handler
      <3>2. j \in Job BY <3>1 DEF TypeOK
      <3> QED BY <3>1, <3>2 DEF Doc, Job
    <2>3. \A d \in Doc : [h[p] EXCEPT !.pc = "apply", !.doc = d] \in Handler
      BY <1>1, HandlerEdits DEF Steps
    <2>4. r \in Handler /\ r.pc = "apply" BY <1>1, <2>2, <2>3 DEF Handler
    <2> HIDE DEF r
    <2> QED BY <1>1, <1>3, <1>5, <2>1, <2>4
  <1>12. CASE Apply(p)
    <2> DEFINE r == [h[p] EXCEPT !.pc = "ended", !.doc = NoDoc]
    <2>1. r \in Handler /\ r.pc = "ended"
      <3>1. r \in Handler BY <1>1, BaseTypes, HandlerEdits DEF Steps
      <3> QED BY <1>1, <3>1 DEF Handler
    <2>2. \/ Done(p) /\ task' = task /\ att' = att
          \/ Go(p, r) /\ RecordState(h[p].doc)
      <3> HIDE DEF r
      <3> DEFINE e == [job |-> h[p].doc.job, state |-> h[p].doc.state]
      <3>1. CASE h[p].op = "event" /\ Duplicate(e) BY <1>12, <3>1 DEF Apply
      <3>2. CASE ~(h[p].op = "event" /\ Duplicate(e)) BY <1>12, <3>2 DEF Apply, r
      <3> QED BY <3>1, <3>2
    <2>3. h[p].doc \in Doc BY <1>1 DEF Handler
    <2>4. RecordState(h[p].doc) => task'.outcome = task.outcome /\ Len(att') = Len(att)
      BY <2>3, RecordStateStep
    <2> HIDE DEF r
    <2> QED BY <1>1, <1>3, <1>5, <2>1, <2>2, <2>4
  <1>13. CASE CancelJob(p)
    <2> DEFINE step == IF h[p].op = "stop" THEN "stopRow" ELSE "read"
    <2>1. att' = att /\ task' = task /\ Goto(p, step) BY <1>13 DEF CancelJob, db
    <2>2. h'[p] = [h[p] EXCEPT !.pc = step] /\ \A q \in Handlers \ {p} : h'[q] = h[q]
      BY <2>1, GotoStep DEF Steps
    <2>3. h'[p].pc \in {"stopRow", "read"} BY <1>1, <2>2 DEF Handler
    <2> QED BY <1>1, <2>1, <2>2, <2>3, StaysStopped
  <1>14. CASE StopRow(p)
    <2>1. att' = att /\ task'.outcome = "stopped" BY <1>1, <1>14 DEF StopRow, TypeOK, Row
    <2>2. Done(p) \/ Goto(p, "stopAttempt") BY <1>14 DEF StopRow
    <2>3. CASE Goto(p, "stopAttempt")
      <3>1. h'[p] = [h[p] EXCEPT !.pc = "stopAttempt"] /\ \A q \in Handlers \ {p} : h'[q] = h[q]
        BY <2>3, GotoStep DEF Steps
      <3>2. h'[p].pc = "stopAttempt" BY <1>1, <3>1 DEF Handler
      <3> QED BY <2>1, <3>1, <3>2, StaysStopped
    <2> QED BY <1>3, <2>1, <2>2, <2>3
  <1>15. CASE StopAttempt(p)
    <2>1. Done(p) /\ task' = task BY <1>15 DEF StopAttempt
    <2>2. Len(att') = Len(att) BY <1>15 DEF StopAttempt, TypeOK
    <2> QED BY <1>1, <1>3, <2>1, <2>2
  <1>16. CASE Emit(p) \/ ReadEnded(p) \/ Tell(p) \/ CheckContinue(p) \/ LockContinue(p)
    <2>1. Done(p) /\ task' = task /\ att' = att
      BY <1>1, <1>16 DEF Emit, ReadEnded, Tell, CheckContinue, LockContinue, db
    <2> QED BY <1>1, <1>3, <2>1
  <1> QED
    BY <1>2, <1>6, <1>7, <1>8, <1>9, <1>10, <1>11, <1>12, <1>13, <1>14, <1>15, <1>16 DEF Continues

(* A stop is final for everything that begins after it: no event, refresh, press
   or page view undoes it or adds an attempt, whatever is interleaved. *)
THEOREM StopFinal == Spec => StopIsFinal
  <1>1. IInv /\ [Next]_vars => [Stopped => Stopped' /\ Len(att') = Len(att)]_vars
    <2> SUFFICES ASSUME IInv, Next, Stopped PROVE Stopped' /\ Len(att') = Len(att)
      OBVIOUS
    <2>1. CASE Crash
      <3>1. att' = att /\ task' = task /\ h' = [p \in Handlers |-> Idle] BY <2>1 DEF Crash, db
      <3>2. \A p \in Handlers : h'[p].pc = "idle" BY <3>1 DEF Idle
      <3> QED BY <3>1, <3>2 DEF Stopped, Unaware
    <2>2. ASSUME NEW j \in AttemptIds, RunStarts(j) \/ RunEnds(j) PROVE Stopped' /\ Len(att') = Len(att)
      BY <2>2 DEF RunStarts, RunEnds, db, Stopped, Unaware
    <2> QED BY <2>1, <2>2, StopStep DEF Next
  <1> QED BY <1>1, Invariance, PTL DEF Spec, StopIsFinal
===============================================================================
