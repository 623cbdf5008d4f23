----------------------------- MODULE GuardsProofs -----------------------------
(***************************************************************************)
(* Proofs about what guards an agent at work: the approvals inbox, the     *)
(* chat plays session, what Codes says of a sandbox worker, the egress     *)
(* proxy and the sandbox worker itself.  The parts share no state, so each *)
(* theorem is about its component's own specification, for every value of  *)
(* the constants that MCGuards's assumptions allow.                        *)
(*                                                                         *)
(* Each part has the same shape: an inductive invariant, the lemma that it *)
(* holds at the start, lemmas about one step of each actor, the lemma that *)
(* every step keeps it, and the theorem.                                   *)
(***************************************************************************)
EXTENDS MCGuards, Sequences, FiniteSetTheorems, TLAPS

-----------------------------------------------------------------------------
(* The approvals inbox *)

(* A row of the approvals table (approvals.js create): the line its person   *)
(* reads, what was decided and by whom.                                      *)
ApprovalRow == [line : {SummaryOf[c] : c \in Calls}, decision : A!Decisions, by : {"nobody", "owner", "stop"}]

CallPlaces == {"new", "insert", "created", "wait", "done"}
CallRecord == [pc : CallPlaces, row : Nat, answer : A!Decisions]

ApprovalsType ==
    /\ rows \in Seq(ApprovalRow)
    /\ call \in [Calls -> CallRecord]

(* A call past its create waits on a row that shows its line. *)
WaitsOnItsRow ==
    \A c \in Calls : call[c].pc \in {"created", "wait"} =>
        call[c].row \in DOMAIN rows /\ rows[call[c].row].line = SummaryOf[c]

(* Only the owner allows. *)
OwnerAllows == \A i \in DOMAIN rows : rows[i].decision = "allow" => rows[i].by = "owner"

AnsweredIsDone == \A c \in Calls : call[c].answer = "allow" => call[c].pc = "done"

(* The inductive invariant: an answer of "allow" was read from the row the   *)
(* call waits on, so what each waiting call's row shows must be kept too.    *)
ApprovalsInv == ApprovalsType /\ WaitsOnItsRow /\ OwnerAllows /\ AnsweredIsDone /\ AllowedByTheOwner

LEMMA ApprovalsInit == A!Init => ApprovalsInv
  BY DEF A!Init, ApprovalsInv, ApprovalsType, WaitsOnItsRow, OwnerAllows, AnsweredIsDone, AllowedByTheOwner,
         A!AllowedByTheOwner, A!Decisions, ApprovalRow, CallRecord, CallPlaces

(* What the approve tool's own two kinds of step do to a call's record.      *)
LEMMA CallGoes ==
    ASSUME ApprovalsType, NEW c \in Calls, NEW pc \in CallPlaces, NEW r \in Nat, A!Goes(c, pc, r)
    PROVE  /\ call' \in [Calls -> CallRecord]
           /\ call'[c].pc = pc /\ call'[c].row = r /\ call'[c].answer = call[c].answer
           /\ \A x \in Calls : x # c => call'[x] = call[x]
  BY DEF A!Goes, ApprovalsType, CallRecord

LEMMA CallAnswers ==
    ASSUME ApprovalsType, NEW c \in Calls, NEW a \in A!Decisions, A!Answers(c, a)
    PROVE  /\ call' \in [Calls -> CallRecord]
           /\ call'[c].pc = "done" /\ call'[c].row = call[c].row /\ call'[c].answer = a
           /\ \A x \in Calls : x # c => call'[x] = call[x]
  BY DEF A!Answers, ApprovalsType, CallRecord, CallPlaces

LEMMA RowIsDecided ==
    ASSUME NEW r \in ApprovalRow, NEW d \in {"allow", "deny"}
    PROVE  /\ A!Settled(r, d, "owner") \in ApprovalRow /\ A!Settled(r, d, "owner").line = r.line
           /\ r.decision # "none" => A!Settled(r, d, "owner") = r
           /\ r.decision = "none" => A!Settled(r, d, "owner").by = "owner"
           /\ A!Denied(r) \in ApprovalRow /\ A!Denied(r).line = r.line
           /\ r.decision # "none" => A!Denied(r) = r
           /\ r.decision = "none" => A!Denied(r).decision = "deny"
  BY DEF ApprovalRow, A!Settled, A!Denied, A!Decisions

(* What a step of a tool call must do to keep the invariant. *)
LEMMA CallStep ==
    ASSUME ApprovalsInv, rows' = rows, NEW c \in Calls,
           call' \in [Calls -> CallRecord], \A x \in Calls : x # c => call'[x] = call[x],
           call'[c].pc \in {"created", "wait"} =>
               call'[c].row \in DOMAIN rows /\ rows[call'[c].row].line = SummaryOf[c],
           call'[c].answer = "allow" =>
               /\ call'[c].pc = "done" /\ call'[c].row \in DOMAIN rows
               /\ rows[call'[c].row].line = SummaryOf[c] /\ rows[call'[c].row].decision = "allow"
    PROVE  ApprovalsInv'
  BY DEF ApprovalsInv, ApprovalsType, WaitsOnItsRow, OwnerAllows, AnsweredIsDone, AllowedByTheOwner, A!AllowedByTheOwner

(* What a step on the rows must do: a row keeps its line, a decided one all. *)
LEMMA RowsStep ==
    ASSUME ApprovalsInv, call' = call, rows' \in Seq(ApprovalRow), DOMAIN rows' = DOMAIN rows,
           \A i \in DOMAIN rows :
               /\ rows'[i].line = rows[i].line
               /\ rows[i].decision # "none" => rows'[i] = rows[i]
               /\ rows'[i].decision = "allow" => rows'[i].by = "owner"
    PROVE  ApprovalsInv'
  BY DEF ApprovalsInv, ApprovalsType, WaitsOnItsRow, OwnerAllows, AnsweredIsDone, AllowedByTheOwner, A!AllowedByTheOwner

LEMMA ApprovalsNext == ApprovalsInv /\ [A!Next]_A!vars => ApprovalsInv'
<1> SUFFICES ASSUME ApprovalsInv, [A!Next]_A!vars PROVE ApprovalsInv'
  OBVIOUS
<1>t. ApprovalsType /\ rows \in Seq(ApprovalRow) /\ call \in [Calls -> CallRecord]
  BY DEF ApprovalsInv, ApprovalsType
<1>w. \A c \in Calls : call[c].answer = "allow" => call[c].pc = "done"
  BY DEF ApprovalsInv, AnsweredIsDone
<1>p. {"new", "insert", "created", "wait", "done"} = CallPlaces /\ {"none", "allow", "deny"} = A!Decisions
  BY DEF CallPlaces, A!Decisions
<1>1. ASSUME NEW c \in Calls, A!Seen(c) PROVE ApprovalsInv'
  <2>1. PICK i \in A!WaitsAs(c) : A!Goes(c, "created", i)
    BY <1>1 DEF A!Seen
  <2>2. i \in DOMAIN rows /\ i \in Nat /\ rows[i].line = SummaryOf[c]
    BY <1>t DEF A!WaitsAs
  <2>3. /\ call' \in [Calls -> CallRecord] /\ call'[c].row = i /\ call'[c].answer # "allow"
        /\ \A x \in Calls : x # c => call'[x] = call[x]
    BY <1>t, <1>w, <1>p, <1>1, <2>1, <2>2, CallGoes DEF A!Seen, A!At
  <2> QED
    BY <1>1, <2>2, <2>3, CallStep DEF A!Seen
<1>2. ASSUME NEW c \in Calls, A!NotSeen(c) PROVE ApprovalsInv'
  BY <1>t, <1>w, <1>p, <1>2, CallGoes, CallStep DEF A!NotSeen, A!At
<1>3. ASSUME NEW c \in Calls, A!Insert(c) PROVE ApprovalsInv'
  <2>1. /\ A!Row(c) \in ApprovalRow /\ A!Row(c).line = SummaryOf[c] /\ A!Row(c).decision = "none"
        /\ rows' = Append(rows, A!Row(c)) /\ Len(rows) + 1 \in Nat
    BY <1>3, <1>t DEF A!Insert, A!Row, ApprovalRow, A!Decisions
  <2>2. /\ rows' \in Seq(ApprovalRow) /\ DOMAIN rows \subseteq DOMAIN rows' /\ Len(rows) + 1 \in DOMAIN rows'
        /\ \A i \in DOMAIN rows : rows'[i] = rows[i]
        /\ rows'[Len(rows) + 1] = A!Row(c) /\ \A i \in DOMAIN rows' : i \in DOMAIN rows \/ i = Len(rows) + 1
    BY <2>1, <1>t
  <2>3. /\ call' \in [Calls -> CallRecord]
        /\ call'[c].pc = "created" /\ call'[c].row = Len(rows) + 1 /\ call'[c].answer # "allow"
        /\ \A x \in Calls : x # c => call'[x] = call[x]
    BY <1>t, <1>w, <1>p, <1>3, <2>1, CallGoes DEF A!Insert, A!At
  <2>4. ApprovalsType' /\ WaitsOnItsRow'
    BY <2>1, <2>2, <2>3 DEF ApprovalsInv, ApprovalsType, WaitsOnItsRow
  <2>5. OwnerAllows'
    BY <2>1, <2>2 DEF ApprovalsInv, OwnerAllows
  <2>6. AnsweredIsDone' /\ AllowedByTheOwner'
    BY <2>2, <2>3 DEF ApprovalsInv, AnsweredIsDone, AllowedByTheOwner, A!AllowedByTheOwner
  <2> QED
    BY <2>4, <2>5, <2>6 DEF ApprovalsInv
<1>4. ASSUME NEW c \in Calls, A!Created(c) PROVE ApprovalsInv'
  <2>1. call[c].row \in Nat /\ call[c].row \in DOMAIN rows /\ rows[call[c].row].line = SummaryOf[c]
    BY <1>t, <1>4 DEF A!Created, A!At, ApprovalsInv, WaitsOnItsRow, CallRecord
  <2>2. /\ call' \in [Calls -> CallRecord] /\ call'[c].row = call[c].row /\ call'[c].answer # "allow"
        /\ \A x \in Calls : x # c => call'[x] = call[x]
    BY <1>t, <1>w, <1>p, <1>4, <2>1, CallGoes DEF A!Created, A!At
  <2> QED
    BY <1>4, <2>1, <2>2, CallStep DEF A!Created
<1>5. ASSUME NEW c \in Calls, A!NotAsked(c) PROVE ApprovalsInv'
  BY <1>t, <1>p, <1>5, CallAnswers, CallStep DEF A!NotAsked
<1>6. ASSUME NEW c \in Calls, A!Poll(c) PROVE ApprovalsInv'
  <2>1. /\ call[c].row \in DOMAIN rows /\ rows[call[c].row].line = SummaryOf[c]
        /\ A!AnswerOf(rows[call[c].row]) \in A!Decisions
        /\ A!AnswerOf(rows[call[c].row]) = "allow" => rows[call[c].row].decision = "allow"
    BY <1>6, <1>p DEF A!Poll, A!At, A!AnswerOf, ApprovalsInv, WaitsOnItsRow
  <2> QED
    BY <1>t, <1>6, <2>1, CallAnswers, CallStep DEF A!Poll
<1>7. ASSUME NEW c \in Calls, A!TimesOut(c) PROVE ApprovalsInv'
  BY <1>t, <1>p, <1>7, CallAnswers, CallStep DEF A!TimesOut
<1>8. ASSUME NEW i \in DOMAIN rows, NEW d \in {"allow", "deny"}, A!Decide(i, d) \/ A!DecideAny(i, d)
      PROVE  ApprovalsInv'
  <2>1. rows' = [rows EXCEPT ![i] = A!Settled(rows[i], d, "owner")] /\ call' = call
    BY <1>8 DEF A!Decide, A!DecideAny, A!Decided
  <2>2. rows[i] \in ApprovalRow
    BY <1>t
  <2>3. rows' \in Seq(ApprovalRow) /\ DOMAIN rows' = DOMAIN rows
    BY <1>t, <2>1, <2>2, RowIsDecided
  <2>4. \A j \in DOMAIN rows : rows[j].decision = "allow" => rows[j].by = "owner"
    BY DEF ApprovalsInv, OwnerAllows
  <2> QED
    BY <1>t, <2>1, <2>2, <2>3, <2>4, RowIsDecided, RowsStep
<1>9. ASSUME A!StopTask PROVE ApprovalsInv'
  BY <1>9 DEF A!StopTask, ApprovalsInv, ApprovalsType, WaitsOnItsRow, OwnerAllows, AnsweredIsDone,
              AllowedByTheOwner, A!AllowedByTheOwner
<1>10. ASSUME A!Stop PROVE ApprovalsInv'
  <2>1. rows' = [i \in DOMAIN rows |-> A!Denied(rows[i])] /\ call' = call
    BY <1>10 DEF A!Stop
  <2>2. \A i \in DOMAIN rows : rows[i] \in ApprovalRow
    BY <1>t
  <2>3. rows' \in Seq(ApprovalRow) /\ DOMAIN rows' = DOMAIN rows
    <3>1. \A i \in DOMAIN rows : A!Denied(rows[i]) \in ApprovalRow
      BY <2>2, RowIsDecided
    <3> QED
      BY <1>t, <2>1, <3>1
  <2>4. \A j \in DOMAIN rows : rows[j].decision = "allow" => rows[j].by = "owner"
    BY DEF ApprovalsInv, OwnerAllows
  <2> QED
    BY <1>t, <2>1, <2>2, <2>3, <2>4, RowIsDecided, RowsStep
<1>11. ASSUME UNCHANGED A!vars PROVE ApprovalsInv'
  BY <1>11 DEF A!vars, ApprovalsInv, ApprovalsType, WaitsOnItsRow, OwnerAllows, AnsweredIsDone,
               AllowedByTheOwner, A!AllowedByTheOwner
<1>12. QED
  BY <1>1, <1>2, <1>3, <1>4, <1>5, <1>6, <1>7, <1>8, <1>9, <1>10, <1>11 DEF A!Next, A!Step

(* A tool call the approve tool lets run (bin/mcp.js `approve`) has a row    *)
(* that shows its line and that the owner allowed, and nothing later takes   *)
(* that back: no stop, second press, lost answer, timeout or second row of   *)
(* an equal call makes an "allow" or unmakes one.                            *)
THEOREM AllowedCallsWereAllowed == A!Spec => []AllowedByTheOwner
<1>1. ApprovalsInv => AllowedByTheOwner
  BY DEF ApprovalsInv
<1>2. QED
  BY <1>1, ApprovalsInit, ApprovalsNext, PTL DEF A!Spec

-----------------------------------------------------------------------------
(* The chat plays session *)

ScratchSites == [until : Nat, kept : {"no", "yes"}]

(* The record play-desk.js keeps of a session.                               *)
DeskRecord == [state : {"idle", "armed", "running", "wiped", "ended"}, armed : {"no", "yes"}, started : Nat,
               money : Nat, steps : Nat, files : {"some", "wiped"}, site : ScratchSites]

DeskType == time \in Nat /\ desk \in DeskRecord

Over(d) == d.state \in {"wiped", "ended"}

LEMMA SiteIsOne ==
    D!NoSite \in ScratchSites /\ \A t \in Nat, k \in {"no", "yes"} : [until |-> t + SiteLife, kept |-> k] \in ScratchSites
  BY DeskAssumption DEF D!NoSite, ScratchSites

LEMMA DeskInit == D!InitDesk => DeskType
  BY SiteIsOne DEF D!InitDesk, DeskType, DeskRecord

LEMMA DeskNext == DeskType /\ [D!NextDesk]_D!dvars => DeskType' /\ (Over(desk) => Over(desk'))
<1> SUFFICES ASSUME DeskType, [D!NextDesk]_D!dvars PROVE DeskType' /\ (Over(desk) => Over(desk'))
  OBVIOUS
<1> USE DEF DeskType, DeskRecord, Over
<1>1. ASSUME D!Passes PROVE DeskType' /\ (Over(desk) => Over(desk'))
  BY <1>1 DEF D!Passes
<1>2. ASSUME D!Arm PROVE DeskType' /\ (Over(desk) => Over(desk'))
  BY <1>2 DEF D!Arm
<1>3. ASSUME D!Begin PROVE DeskType' /\ (Over(desk) => Over(desk'))
  BY <1>3 DEF D!Begin, D!MayRun
<1>4. ASSUME NEW m \in 0..1, NEW s \in 0..1, D!Spend(m, s) PROVE DeskType' /\ (Over(desk) => Over(desk'))
  <2> DEFINE d == [desk EXCEPT !.money = @ + m, !.steps = @ + s]
  <2>1. desk' = D!Ended(d) /\ time' = time
    BY <1>4 DEF D!Spend
  <2>2. desk.money + m \in Nat /\ desk.steps + s \in Nat
    OBVIOUS
  <2> DEFINE e == [desk EXCEPT !.money = @ + m]
  <2>3. e.state = desk.state /\ e.steps = desk.steps /\ e \in DeskRecord
    BY <2>2
  <2>d. d = [e EXCEPT !.steps = @ + s]
    OBVIOUS
  <2> HIDE DEF e, d
  <2>4. d.state = desk.state /\ d \in DeskRecord
    BY <2>2, <2>3, <2>d
  <2> QED
    BY <2>1, <2>4 DEF D!Ended
<1>5. ASSUME D!Wipe PROVE DeskType' /\ (Over(desk) => Over(desk'))
  BY <1>5, SiteIsOne DEF D!Wipe
<1>6. ASSUME D!End PROVE DeskType' /\ (Over(desk) => Over(desk'))
  BY <1>6 DEF D!End
<1>7. ASSUME NEW k \in {"no", "yes"}, D!ScratchSite(k) PROVE DeskType' /\ (Over(desk) => Over(desk'))
  BY <1>7, SiteIsOne DEF D!ScratchSite
<1>8. ASSUME UNCHANGED D!dvars PROVE DeskType' /\ (Over(desk) => Over(desk'))
  BY <1>8 DEF D!dvars
<1>9. QED
  BY <1>1, <1>2, <1>3, <1>4, <1>5, <1>6, <1>7, <1>8 DEF D!NextDesk

(* No order of play-desk.js's functions, arm, begin and spend included,      *)
(* brings a session back once it was wiped or ended (mayRun reads state).    *)
THEOREM DeskStaysOver == D!Spec => OverStaysOver
<1>1. DeskType /\ [D!NextDesk]_D!dvars
        => [desk.state \in {"wiped", "ended"} => (desk').state \in {"wiped", "ended"}]_D!dvars
  BY DeskNext DEF Over
<1>2. QED
  BY <1>1, DeskInit, DeskNext, PTL DEF D!Spec, OverStaysOver, D!OverStaysOver

-----------------------------------------------------------------------------
(* The health of a worker *)

WorkerRow == [t : Nat, report : SUBSET Checks, seen : Nat]
CheckIn == [t : Nat \ {0}, report : SUBSET Checks]

HealthType ==
    /\ clock \in Nat
    /\ failed \in SUBSET Checks
    /\ sent \in SUBSET CheckIn
    /\ row \in SUBSET WorkerRow
    /\ heard \in [newest : Nat, report : SUBSET Checks, good : Nat]

(* No check-in that is under way is from the future, and one that reports no *)
(* failed check was signed no later than the newest self-test that passed.   *)
SentIsPast == \A m \in sent : m.t <= clock /\ (m.report = {} => m.t <= heard.good)

(* The worker's row is the newest check-in heard, within TOLERANCE_MS of the *)
(* time it was signed at.                                                    *)
RowIsNewest ==
    /\ row = {} => heard.newest = 0
    /\ \A r \in row : /\ r.t = heard.newest /\ r.report = heard.report
                      /\ r.t <= r.seen /\ r.seen <= clock /\ r.seen - r.t <= Tolerance
                      /\ r.report = {} => r.t <= heard.good

HealthInv == HealthType /\ heard.good <= clock /\ SentIsPast /\ RowIsNewest

LEMMA HealthInit == H!InitHealth => HealthInv
  BY DEF H!InitHealth, HealthInv, HealthType, SentIsPast, RowIsNewest

LEMMA HealthNext == HealthInv /\ [H!NextHealth]_H!hvars => HealthInv'
<1> SUFFICES ASSUME HealthInv, [H!NextHealth]_H!hvars PROVE HealthInv'
  OBVIOUS
<1> USE HealthAssumption DEF HealthInv, HealthType, SentIsPast, RowIsNewest
<1>n. (\A m \in sent : m.t \in Nat) /\ \A r \in row : r.t \in Nat /\ r.seen \in Nat
  BY DEF CheckIn, WorkerRow
<1>1. ASSUME H!Tick PROVE HealthInv'
  BY <1>1, <1>n DEF H!Tick
<1>2. ASSUME NEW f \in SUBSET Checks, H!Tested(f) PROVE HealthInv'
  BY <1>2 DEF H!Tested
<1>3. ASSUME H!Announce PROVE HealthInv'
  <2>1. heard'.good = (IF failed = {} THEN clock ELSE heard.good) /\ heard'.newest = heard.newest
        /\ heard'.report = heard.report /\ heard' \in [newest : Nat, report : SUBSET Checks, good : Nat]
    BY <1>3 DEF H!Announce
  <2>2. [t |-> clock, report |-> failed] \in CheckIn
    BY <1>3 DEF H!Announce, CheckIn
  <2>3. heard.good <= heard'.good /\ heard'.good <= clock
    BY <2>1
  <2>4. sent' = sent \cup {[t |-> clock, report |-> failed]} /\ UNCHANGED <<clock, failed, row>>
    BY <1>3 DEF H!Announce
  <2>5. \A m \in sent : m.t \in Nat
    BY DEF CheckIn
  <2> QED
    BY <2>1, <2>2, <2>3, <2>4, <2>5
<1>4. ASSUME NEW m \in sent, H!Heartbeat(m) PROVE HealthInv'
  <2>1. m.t \in Nat /\ m.t > 0 /\ m.report \in SUBSET Checks /\ m.t <= clock /\ (m.report = {} => m.t <= heard.good)
    BY DEF CheckIn
  <2>2. UNCHANGED <<clock, failed, sent>>
    BY <1>4 DEF H!Heartbeat
  <2>3. H!Accepts(m) <=> clock - m.t <= Tolerance /\ m.t > heard.newest
    BY <2>1 DEF H!Accepts
  <2>4. CASE H!Accepts(m)
    <3>1. /\ row' = {[t |-> m.t, report |-> m.report, seen |-> clock]}
          /\ heard' = [heard EXCEPT !.newest = m.t, !.report = m.report]
      BY <1>4, <2>3, <2>4 DEF H!Heartbeat
    <3>2. /\ heard' \in [newest : Nat, report : SUBSET Checks, good : Nat]
          /\ heard'.newest = m.t /\ heard'.report = m.report /\ heard'.good = heard.good
      BY <2>1, <3>1
    <3>3. \A r \in row' : /\ r.t = m.t /\ r.report = m.report /\ r.seen = clock
                          /\ r \in WorkerRow
      BY <2>1, <3>1 DEF WorkerRow
    <3>4. row' # {} /\ HealthType'
      BY <2>2, <3>1, <3>2, <3>3
    <3>5. SentIsPast' /\ RowIsNewest'
      BY <2>1, <2>2, <2>3, <2>4, <3>2, <3>3, <3>4
    <3> QED
      BY <2>2, <3>2, <3>4, <3>5
  <2>5. CASE ~H!Accepts(m)
    BY <1>4, <2>2, <2>3, <2>5 DEF H!Heartbeat
  <2> QED
    BY <2>4, <2>5
<1>5. ASSUME NEW m \in sent, H!Lost(m) PROVE HealthInv'
  BY <1>5 DEF H!Lost
<1>6. ASSUME UNCHANGED H!hvars PROVE HealthInv'
  BY <1>6 DEF H!hvars
<1>7. QED
  BY <1>1, <1>2, <1>3, <1>4, <1>5, <1>6 DEF H!NextHealth

(* A worker Codes calls healthy (sandbox-workers.js `failing`) sent nothing  *)
(* newer that says otherwise, and passed its self-test within TOLERANCE_MS   *)
(* and the time after which a row is stale; late, repeated and reordered     *)
(* check-ins included.                                                       *)
THEOREM HealthIsFresh == H!Spec => []HealthyIsFresh
<1>1. HealthInv => HealthyIsFresh
  <2> SUFFICES ASSUME HealthInv, NEW r \in row, H!Failing(r) = {}
               PROVE  heard.report = {} /\ clock - heard.good <= Tolerance + Stale
    BY DEF HealthyIsFresh, H!HealthyIsFresh, H!Healthy
  <2>1. r.report = {} /\ ~(clock - r.seen > Stale)
    BY DEF H!Failing
  <2> QED
    BY <2>1, HealthAssumption DEF HealthInv, HealthType, RowIsNewest, WorkerRow
<1>2. QED
  BY <1>1, HealthInit, HealthNext, PTL DEF H!Spec

-----------------------------------------------------------------------------
(* The egress proxy *)

Ending == {"closing", "closed"}
ConnRecord == [kind : Kinds \cup {"http"}, at : {"new", "checking", "refused"} \cup P!Holding \cup Ending,
               client : {"there", "gone"}, released : {"no", "yes"}]

(* `release` runs once: exactly the connections that are over have let go.   *)
ReleasedAtItsEnd == \A c \in Conns : conn[c].released = "yes" <=> conn[c].at \in Ending

ProxyInv ==
    /\ conn \in [Conns -> ConnRecord]
    /\ active \in [Hosts -> Nat]
    /\ ReleasedAtItsEnd
    /\ SlotsAreCounted

(* The two byte counters, the mark that the budget is spent, the heads.      *)
BytesType ==
    /\ bytes \in [P!Directions -> Int] /\ spent \in {"no", "yes"}
    /\ heads \in [Conns \X P!Directions -> {"waits", "passed", "late"}]

(* Once the budget is spent, the connections of a host whose head passed     *)
(* late and those that still may pass one fit its slots together.            *)
MayPass(h) == P!Late(h) \cup P!Held(h)

LateFit ==
    \A h \in Hosts : IF spent = "no" THEN P!Late(h) = {} ELSE Cardinality(MayPass(h)) <= PerHost

LEMMA OneCardinality == \A S : P!Cardinality(S) = Cardinality(S)
  BY DEF Cardinality, P!Cardinality

LEMMA HeldIsFinite == \A h : IsFiniteSet(P!Held(h)) /\ Cardinality(P!Held(h)) \in Nat
<1> SUFFICES ASSUME NEW h PROVE IsFiniteSet(P!Held(h)) /\ Cardinality(P!Held(h)) \in Nat
  OBVIOUS
<1>1. P!Held(h) \subseteq Conns
  BY DEF P!Held
<1> QED
  BY <1>1, ProxyAssumption, FS_Subset, FS_CardinalityType

(* A step of one connection that leaves its slot as it was. *)
LEMMA SlotKept ==
    ASSUME ProxyInv, active' = active, NEW c \in Conns, conn' \in [Conns -> ConnRecord],
           \A x \in Conns : x # c => conn'[x] = conn[x],
           conn'[c].at \in P!Holding <=> conn[c].at \in P!Holding,
           conn'[c].released = "yes" <=> conn'[c].at \in Ending
    PROVE  ProxyInv'
<1>1. \A h \in Hosts : P!Held(h)' = P!Held(h)
  BY DEF P!Held
<1>2. SlotsAreCounted'
  BY <1>1 DEF ProxyInv, SlotsAreCounted, P!SlotsAreCounted
<1> QED
  BY <1>2 DEF ProxyInv, ReleasedAtItsEnd

(* A step of one connection that takes a slot of its host. *)
LEMMA SlotTaken ==
    ASSUME ProxyInv, NEW c \in Conns, conn' \in [Conns -> ConnRecord],
           \A x \in Conns : x # c => conn'[x] = conn[x],
           conn[c].at \notin P!Holding, conn'[c].at \in P!Holding, conn'[c].released = "no",
           active[HostOf[c]] < PerHost, active' = [active EXCEPT ![HostOf[c]] = @ + 1]
    PROVE  ProxyInv'
<1>h. HostOf[c] \in Hosts /\ PerHost \in Nat
  BY ProxyAssumption
<1>1. \A h \in Hosts : h # HostOf[c] => P!Held(h)' = P!Held(h)
  BY DEF P!Held
<1>2. P!Held(HostOf[c])' = P!Held(HostOf[c]) \cup {c} /\ c \notin P!Held(HostOf[c])
  BY DEF P!Held
<1>3. Cardinality(P!Held(HostOf[c])') = Cardinality(P!Held(HostOf[c])) + 1
  BY <1>2, HeldIsFinite, FS_AddElement
<1>4. \A h \in Hosts : active[h] = Cardinality(P!Held(h)) /\ active[h] <= PerHost
  BY OneCardinality DEF ProxyInv, SlotsAreCounted, P!SlotsAreCounted
<1>5. \A h \in Hosts : active'[h] = Cardinality(P!Held(h)') /\ active'[h] <= PerHost
  BY <1>h, <1>1, <1>3, <1>4 DEF ProxyInv
<1>6. SlotsAreCounted'
  BY <1>5, OneCardinality DEF SlotsAreCounted, P!SlotsAreCounted
<1> QED
  BY <1>6, <1>h DEF ProxyInv, ReleasedAtItsEnd, P!Holding, Ending

(* A step of one connection that gives its slot back. *)
LEMMA SlotGiven ==
    ASSUME ProxyInv, NEW c \in Conns, conn' \in [Conns -> ConnRecord],
           \A x \in Conns : x # c => conn'[x] = conn[x],
           conn[c].at \in P!Holding, conn'[c].at \in Ending, conn'[c].released = "yes",
           active' = [active EXCEPT ![HostOf[c]] = IF @ > 0 THEN @ - 1 ELSE 0]
    PROVE  ProxyInv'
<1>h. HostOf[c] \in Hosts /\ PerHost \in Nat
  BY ProxyAssumption
<1>1. \A h \in Hosts : h # HostOf[c] => P!Held(h)' = P!Held(h)
  BY DEF P!Held
<1>2. P!Held(HostOf[c])' = P!Held(HostOf[c]) \ {c} /\ c \in P!Held(HostOf[c])
  BY DEF P!Held, P!Holding, Ending
<1>3. Cardinality(P!Held(HostOf[c])') = Cardinality(P!Held(HostOf[c])) - 1 /\ Cardinality(P!Held(HostOf[c])) > 0
  BY <1>2, HeldIsFinite, FS_RemoveElement, FS_EmptySet
<1>4. \A h \in Hosts : active[h] = Cardinality(P!Held(h)) /\ active[h] <= PerHost
  BY OneCardinality DEF ProxyInv, SlotsAreCounted, P!SlotsAreCounted
<1>5. \A h \in Hosts : active'[h] = Cardinality(P!Held(h)') /\ active'[h] <= PerHost
  BY <1>h, <1>1, <1>3, <1>4 DEF ProxyInv
<1>6. SlotsAreCounted'
  BY <1>5, OneCardinality DEF SlotsAreCounted, P!SlotsAreCounted
<1> QED
  BY <1>6, <1>h DEF ProxyInv, ReleasedAtItsEnd, P!Holding, Ending

LEMMA GoesTo ==
    ASSUME conn \in [Conns -> ConnRecord], NEW c \in Conns, NEW at \in {"refused", "dialing", "open"}, P!Goes(c, at)
    PROVE  /\ conn' \in [Conns -> ConnRecord] /\ conn'[c].at = at /\ conn'[c].released = conn[c].released
           /\ \A x \in Conns : x # c => conn'[x] = conn[x]
  BY DEF P!Goes, ConnRecord, P!Holding, Ending

(* release: whichever event comes first gives the slot back, once. *)
LEMMA LetsGo ==
    ASSUME ProxyInv, NEW c \in Conns, conn[c].at \in P!Holding \cup {"closing"}, NEW at \in Ending, P!LetGo(c, at)
    PROVE  ProxyInv' /\ conn'[c].at = at /\ \A x \in Conns : x # c => conn'[x] = conn[x]
<1> DEFINE b == [conn[c] EXCEPT !.at = at]
           d == [b EXCEPT !.released = "yes"]
           e == [d EXCEPT !.client = IF conn[c].kind = "connect" \/ at = "closed" THEN "gone" ELSE @]
<1>1. conn[c] \in ConnRecord
  BY DEF ProxyInv
<1>2. b \in ConnRecord /\ b.at = at
  BY <1>1 DEF ConnRecord
<1>3. d \in ConnRecord /\ d.at = at /\ d.released = "yes"
  <2> HIDE DEF b
  <2> QED  BY <1>2 DEF ConnRecord
<1>4. e \in ConnRecord /\ e.at = at /\ e.released = "yes"
  <2> HIDE DEF d
  <2> QED  BY <1>3 DEF ConnRecord
<1>5. conn' = [conn EXCEPT ![c] = e] /\ active' = P!Released(c)
  BY DEF P!LetGo
<1> HIDE DEF b, d, e
<1>6. conn' \in [Conns -> ConnRecord] /\ conn'[c] = e /\ \A x \in Conns : x # c => conn'[x] = conn[x]
  BY <1>4, <1>5 DEF ProxyInv
<1>7. CASE conn[c].at \in P!Holding
  <2>1. conn[c].released = "no"
    BY <1>1, <1>7 DEF ProxyInv, ReleasedAtItsEnd, ConnRecord, P!Holding, Ending
  <2> QED
    BY <1>4, <1>5, <1>6, <1>7, <2>1, SlotGiven DEF P!Released
<1>8. CASE conn[c].at = "closing"
  <2>1. conn[c].released = "yes"
    BY <1>8 DEF ProxyInv, ReleasedAtItsEnd, Ending
  <2> QED
    BY <1>4, <1>5, <1>6, <1>8, <2>1, SlotKept DEF P!Released, P!Holding, Ending
<1> QED
  BY <1>4, <1>6, <1>7, <1>8

LEMMA ProxyInit == P!InitProxy => ProxyInv /\ BytesType
<1> SUFFICES ASSUME P!InitProxy PROVE ProxyInv /\ BytesType
  OBVIOUS
<1>1. \A c \in Conns : conn[c] \in ConnRecord /\ conn[c].at = "new" /\ conn[c].released = "no"
  BY DEF P!InitProxy, P!NoConn, ConnRecord
<1>2. \A h \in Hosts : P!Held(h) = {} /\ active[h] = 0
  BY <1>1 DEF P!Held, P!Holding, P!InitProxy
<1>3. SlotsAreCounted
  BY <1>2, FS_EmptySet, ProxyAssumption, OneCardinality DEF SlotsAreCounted, P!SlotsAreCounted
<1>4. conn \in [Conns -> ConnRecord] /\ active \in [Hosts -> Nat] /\ BytesType
  BY <1>1 DEF P!InitProxy, BytesType
<1> QED
  BY <1>1, <1>3, <1>4 DEF ProxyInv, ReleasedAtItsEnd, Ending

(* What still fits is a number, and none once the budget is spent. *)
LEMMA FitsType ==
    ASSUME BytesType, NEW d \in P!Directions, NEW n \in 1..Chunk
    PROVE  /\ P!Fits(d, n) \in Int
           /\ spent = "yes" => P!Fits(d, n) = 0
  BY ProxyAssumption DEF BytesType, P!Fits, P!Least

(* What a step may do to a connection that is being checked once the budget is spent. *)
ChecksAreRefused == \A c \in Conns : conn[c].at = "checking" => (conn')[c].at \in {"checking", "refused"}

Kept == ProxyInv' /\ BytesType' /\ (spent = "yes" => bytes' = bytes /\ ChecksAreRefused)

(* A head that passes is written down, as late when the budget was spent.    *)
LEMMA PassesType ==
    ASSUME BytesType, NEW c \in Conns, NEW d \in P!Directions, P!Passes(c, d)
    PROVE  /\ heads' \in [Conns \X P!Directions -> {"waits", "passed", "late"}]
           /\ heads'[<<c, d>>] = "late" => spent = "yes"
           /\ \A x \in Conns, e \in P!Directions : <<x, e>> # <<c, d>> => heads'[<<x, e>>] = heads[<<x, e>>]
  BY DEF BytesType, P!Passes

LEMMA ConnectionStep == ASSUME ProxyInv, BytesType, NEW c \in Conns, P!StepOf(c) PROVE Kept
<1>t. conn[c] \in ConnRecord /\ conn \in [Conns -> ConnRecord]
  BY DEF ProxyInv
<1>r. conn[c].at \notin Ending => conn[c].released = "no"
  BY <1>t DEF ProxyInv, ReleasedAtItsEnd, ConnRecord
<1>1. ASSUME NEW k \in Kinds, NEW ok \in BOOLEAN, P!Request(c, k, ok) PROVE Kept
  <2> DEFINE at == IF P!Cardinality(P!Sockets) < MaxOpen /\ spent = "no" /\ ok THEN "checking" ELSE "refused"
             b == [conn[c] EXCEPT !.kind = k]
             e == [b EXCEPT !.at = at]
  <2>0. at \in {"checking", "refused"}
    OBVIOUS
  <2>1. conn' = [conn EXCEPT ![c] = e] /\ UNCHANGED <<active, bytes, spent, heads>> /\ conn[c].at = "new"
    BY <1>1 DEF P!Request
  <2> HIDE DEF at
  <2>2. b \in ConnRecord /\ b.released = conn[c].released
    BY <1>t DEF ConnRecord
  <2> HIDE DEF b
  <2>3. e \in ConnRecord /\ e.released = conn[c].released /\ e.at \in {"checking", "refused"}
    BY <2>0, <2>2 DEF ConnRecord
  <2> HIDE DEF e
  <2>4. conn' \in [Conns -> ConnRecord] /\ conn'[c] = e /\ \A x \in Conns : x # c => conn'[x] = conn[x]
    BY <1>t, <2>1, <2>3
  <2> QED
    BY <1>r, <2>1, <2>3, <2>4, SlotKept DEF Kept, BytesType, ChecksAreRefused, P!Holding, Ending
<1>2. ASSUME P!NotAllowed(c) PROVE Kept
  <2>1. /\ conn' \in [Conns -> ConnRecord] /\ conn'[c].at = "refused" /\ conn'[c].released = conn[c].released
        /\ \A x \in Conns : x # c => conn'[x] = conn[x]
    BY <1>t, <1>2, GoesTo DEF P!NotAllowed
  <2> QED
    BY <1>2, <1>r, <2>1, SlotKept DEF P!NotAllowed, Kept, BytesType, ChecksAreRefused, P!Holding, Ending
<1>3. ASSUME P!Allowed(c) PROVE Kept
  <2>1. /\ conn[c].at = "checking" /\ UNCHANGED <<bytes, spent, heads>>
        /\ \/ P!Goes(c, "refused") /\ UNCHANGED active
           \/ /\ P!Goes(c, "dialing") /\ active' = [active EXCEPT ![HostOf[c]] = @ + 1]
              /\ active[HostOf[c]] < PerHost /\ spent # "yes"
    BY <1>3 DEF P!Allowed, P!SpentByNow
  <2>2. CASE P!Goes(c, "refused") /\ UNCHANGED active
    <3>1. /\ conn' \in [Conns -> ConnRecord] /\ conn'[c].at = "refused" /\ conn'[c].released = conn[c].released
          /\ \A x \in Conns : x # c => conn'[x] = conn[x]
      BY <1>t, <2>2, GoesTo
    <3> QED
      BY <1>r, <2>1, <2>2, <3>1, SlotKept DEF Kept, BytesType, ChecksAreRefused, P!Holding, Ending
  <2>3. CASE /\ P!Goes(c, "dialing") /\ active' = [active EXCEPT ![HostOf[c]] = @ + 1]
             /\ active[HostOf[c]] < PerHost /\ spent # "yes"
    <3>1. /\ conn' \in [Conns -> ConnRecord] /\ conn'[c].at = "dialing" /\ conn'[c].released = conn[c].released
          /\ \A x \in Conns : x # c => conn'[x] = conn[x]
      BY <1>t, <2>3, GoesTo
    <3> QED
      BY <1>r, <2>1, <2>3, <3>1, SlotTaken DEF Kept, BytesType, P!Holding, Ending
  <2> QED
    BY <2>1, <2>2, <2>3
<1>4. ASSUME P!Connected(c) PROVE Kept
  <2>1. /\ conn' \in [Conns -> ConnRecord] /\ conn'[c].at = "open" /\ conn'[c].released = conn[c].released
        /\ \A x \in Conns : x # c => conn'[x] = conn[x]
    BY <1>t, <1>4, GoesTo DEF P!Connected
  <2>2. BytesType' /\ bytes' = bytes
    BY <1>4, PassesType DEF P!Connected, BytesType, P!Directions
  <2> QED
    BY <1>4, <1>r, <2>1, <2>2, SlotKept DEF P!Connected, Kept, ChecksAreRefused, P!Holding, Ending
<1>h. ASSUME NEW d \in P!Directions, P!Head(c, d) PROVE Kept
  <2>1. BytesType' /\ UNCHANGED <<conn, active, bytes>> /\ conn[c].at = "open"
    BY <1>h, PassesType DEF P!Head, BytesType
  <2> QED
    BY <1>t, <1>r, <2>1, SlotKept DEF Kept, ChecksAreRefused, Ending
<1>5. ASSUME P!UpstreamError(c) \/ P!UpstreamTimeout(c) PROVE Kept
  <2>1. conn[c].at \in P!Holding /\ P!LetGo(c, "closing") /\ UNCHANGED <<bytes, spent, heads>>
    BY <1>5 DEF P!UpstreamError, P!UpstreamTimeout, P!Holding
  <2> QED
    BY <2>1, LetsGo DEF Kept, BytesType, ChecksAreRefused, P!Holding, Ending
<1>6. ASSUME P!UpstreamClose(c) PROVE Kept
  <2>1. conn[c].at \in {"closing", "open"} /\ P!LetGo(c, "closed") /\ UNCHANGED <<bytes, spent, heads>>
    BY <1>6 DEF P!UpstreamClose
  <2> QED
    BY <2>1, LetsGo DEF Kept, BytesType, ChecksAreRefused, P!Holding, Ending
<1>7. ASSUME NEW d \in P!Directions, NEW n \in 1..Chunk, P!Data(c, d, n) PROVE Kept
  <2>1. /\ bytes' = [bytes EXCEPT ![d] = @ + P!Fits(d, n)] /\ spent' \in {"yes", spent}
        /\ conn[c].at \in P!Holding
        /\ P!Passes(c, d) \/ UNCHANGED heads
    BY <1>7 DEF P!Data, P!Holding
  <2>2. BytesType' /\ (spent = "yes" => bytes' = bytes)
    BY <2>1, FitsType, PassesType DEF BytesType
  <2>3. CASE P!LetGo(c, "closing")
    BY <2>1, <2>2, <2>3, LetsGo DEF Kept, ChecksAreRefused, P!Holding, Ending
  <2>4. CASE UNCHANGED <<conn, active>>
    BY <2>2, <2>4, <1>t, <1>r, <2>1, SlotKept DEF Kept, ChecksAreRefused, Ending, P!Holding
  <2> QED
    BY <1>7, <2>3, <2>4 DEF P!Data
<1>8. ASSUME P!ClientLeaves(c) PROVE Kept
  <2>1. UNCHANGED <<bytes, spent, heads>>
    BY <1>8 DEF P!ClientLeaves
  <2>2. CASE conn[c].at \in P!Holding /\ P!LetGo(c, "closing")
    BY <2>1, <2>2, LetsGo DEF Kept, BytesType, ChecksAreRefused, P!Holding, Ending
  <2>3. CASE conn' = [conn EXCEPT ![c].client = "gone"] /\ UNCHANGED active
    <3>1. /\ conn' \in [Conns -> ConnRecord] /\ conn'[c].at = conn[c].at /\ conn'[c].released = conn[c].released
          /\ \A x \in Conns : x # c => conn'[x] = conn[x]
      BY <1>t, <2>3 DEF ConnRecord
    <3>2. conn[c].at \notin Ending
      BY <1>8 DEF P!ClientLeaves, Ending
    <3> QED
      BY <1>r, <2>1, <2>3, <3>1, <3>2, SlotKept DEF Kept, BytesType, ChecksAreRefused
  <2> QED
    BY <1>8, <2>2, <2>3 DEF P!ClientLeaves, P!Holding
<1> QED
  BY <1>1, <1>2, <1>3, <1>4, <1>h, <1>5, <1>6, <1>7, <1>8 DEF P!StepOf

(* After the budget is spent no connection takes a slot, and only one that   *)
(* holds a slot passes a head.                                               *)
Passing ==
    /\ spent = "yes" => spent' = "yes"
    /\ \A x \in Conns : (conn')[x].at \in P!Holding => conn[x].at \in P!Holding \/ spent = "no"
    /\ \A x \in Conns, d \in P!Directions :
          (heads')[<<x, d>>] # heads[<<x, d>>]
             => conn[x].at \in P!Holding /\ ((heads')[<<x, d>>] = "late" => spent = "yes")

LEMMA PassingStep == ASSUME ProxyInv, BytesType, NEW c \in Conns, P!StepOf(c) PROVE Passing
<1>t. conn \in [Conns -> ConnRecord] /\ spent \in {"no", "yes"}
  BY DEF ProxyInv, BytesType
<1>1. ASSUME NEW k \in Kinds, NEW ok \in BOOLEAN, P!Request(c, k, ok) PROVE Passing
  <2>1. \A x \in Conns : (conn')[x].at \in P!Holding => conn[x].at \in P!Holding
    BY <1>t, <1>1 DEF P!Request, ConnRecord, P!Holding
  <2> QED
    BY <1>1, <2>1 DEF P!Request, Passing
<1>2. ASSUME P!NotAllowed(c) PROVE Passing
  BY <1>t, <1>2, GoesTo DEF P!NotAllowed, Passing, P!Holding
<1>3. ASSUME P!Allowed(c) PROVE Passing
  <2>1. /\ UNCHANGED <<spent, heads>>
        /\ P!Goes(c, "refused") \/ (P!Goes(c, "dialing") /\ spent = "no")
    BY <1>t, <1>3 DEF P!Allowed, P!SpentByNow
  <2> QED
    BY <1>t, <2>1, GoesTo DEF Passing, P!Holding
<1>4. ASSUME P!Connected(c) PROVE Passing
  <2>1. \A x \in Conns : (conn')[x].at \in P!Holding => conn[x].at \in P!Holding
    BY <1>t, <1>4, GoesTo DEF P!Connected, P!Holding
  <2>2. conn[c].at \in P!Holding /\ spent' = spent /\ (UNCHANGED heads \/ P!Passes(c, "up")) /\ "up" \in P!Directions
    BY <1>4 DEF P!Connected, P!Holding, P!Directions
  <2> QED
    BY <2>1, <2>2, PassesType DEF Passing
<1>5. ASSUME NEW d \in P!Directions, P!Head(c, d) PROVE Passing
  <2>1. conn[c].at \in P!Holding /\ UNCHANGED <<conn, spent>> /\ P!Passes(c, d)
    BY <1>5 DEF P!Head, P!Holding
  <2> QED
    BY <2>1, PassesType DEF Passing
<1>6. ASSUME NEW d \in P!Directions, NEW n \in 1..Chunk, P!Data(c, d, n) PROVE Passing
  <2>1. conn[c].at \in P!Holding /\ spent' \in {"yes", spent} /\ (UNCHANGED heads \/ P!Passes(c, d))
    BY <1>6 DEF P!Data, P!Holding
  <2>2. \A x \in Conns : (conn')[x].at \in P!Holding => conn[x].at \in P!Holding
    BY <1>6, <2>1, LetsGo DEF P!Data, Ending
  <2> QED
    BY <2>1, <2>2, PassesType DEF Passing
<1>7. ASSUME P!UpstreamError(c) \/ P!UpstreamTimeout(c) \/ P!UpstreamClose(c) PROVE Passing
  <2>1. UNCHANGED <<spent, heads>> /\ conn[c].at \in P!Holding \cup {"closing"}
    BY <1>7 DEF P!UpstreamError, P!UpstreamTimeout, P!UpstreamClose, P!Holding
  <2>2. PICK at \in Ending : P!LetGo(c, at)
    BY <1>7 DEF P!UpstreamError, P!UpstreamTimeout, P!UpstreamClose, Ending
  <2> QED
    BY <2>1, <2>2, LetsGo DEF Passing, P!Holding, Ending
<1>8. ASSUME P!ClientLeaves(c) PROVE Passing
  <2>1. UNCHANGED <<spent, heads>>
    BY <1>8 DEF P!ClientLeaves
  <2>2. CASE conn[c].at \in P!Holding /\ P!LetGo(c, "closing")
    BY <2>1, <2>2, LetsGo DEF Passing, P!Holding, Ending
  <2>3. CASE conn' = [conn EXCEPT ![c].client = "gone"]
    <3>1. \A x \in Conns : (conn')[x].at = conn[x].at
      BY <1>t, <2>3 DEF ConnRecord
    <3> QED
      BY <2>1, <3>1 DEF Passing
  <2> QED
    BY <1>8, <2>2, <2>3 DEF P!ClientLeaves, P!Holding
<1> QED
  BY <1>1, <1>2, <1>3, <1>4, <1>5, <1>6, <1>7, <1>8 DEF P!StepOf

LEMMA ProxyNext == ProxyInv /\ BytesType /\ [P!NextProxy]_P!pvars => Kept /\ Passing
<1> SUFFICES ASSUME ProxyInv, BytesType, [P!NextProxy]_P!pvars PROVE Kept /\ Passing
  OBVIOUS
<1>1. ASSUME NEW c \in Conns, P!StepOf(c) PROVE Kept /\ Passing
  BY <1>1, ConnectionStep, PassingStep
<1>2. ASSUME UNCHANGED <<conn, active, bytes, spent, heads>> PROVE Kept /\ Passing
  BY <1>2 DEF Kept, Passing, ProxyInv, BytesType, ReleasedAtItsEnd, SlotsAreCounted, P!SlotsAreCounted, P!Held, ChecksAreRefused
<1>3. ASSUME NEW b \in DOMAIN tokens, P!Refill(b) PROVE Kept /\ Passing
  BY <1>2, <1>3 DEF P!Refill
<1> QED
  BY <1>1, <1>2, <1>3 DEF P!NextProxy, P!pvars

LEMMA MayPassIsFinite ==
    \A h : /\ IsFiniteSet(MayPass(h))
          /\ \A S \in SUBSET MayPass(h) :
                IsFiniteSet(S) /\ Cardinality(S) \in Nat /\ Cardinality(S) <= Cardinality(MayPass(h))
<1> SUFFICES ASSUME NEW h
             PROVE  /\ IsFiniteSet(MayPass(h))
                    /\ \A S \in SUBSET MayPass(h) :
                          IsFiniteSet(S) /\ Cardinality(S) \in Nat /\ Cardinality(S) <= Cardinality(MayPass(h))
  OBVIOUS
<1>1. MayPass(h) \subseteq Conns
  BY DEF MayPass, P!Held, P!Late
<1>2. IsFiniteSet(MayPass(h))
  BY <1>1, ProxyAssumption, FS_Subset
<1> QED
  BY <1>2, FS_Subset, FS_CardinalityType

LEMMA LateStep == LateFit /\ ProxyInv /\ BytesType /\ Kept /\ Passing => LateFit'
<1> SUFFICES ASSUME LateFit, ProxyInv, BytesType, Kept, Passing, NEW h \in Hosts
             PROVE  IF spent' = "no" THEN P!Late(h)' = {} ELSE Cardinality(MayPass(h)') <= PerHost
  BY DEF LateFit
<1>s. spent \in {"no", "yes"} /\ spent' \in {"no", "yes"} /\ PerHost \in Nat
  BY ProxyAssumption DEF BytesType, Kept
<1>1. spent = "no" => P!Late(h)' = {}
  <2>1. spent = "no" => P!Late(h) = {}
    BY DEF LateFit
  <2>2. ASSUME spent = "no", NEW x \in Conns, HostOf[x] = h, NEW d \in P!Directions, (heads')[<<x, d>>] = "late"
        PROVE  FALSE
    <3>1. (heads')[<<x, d>>] = heads[<<x, d>>]
      BY <2>2 DEF Passing
    <3>2. x \in P!Late(h)
      BY <2>2, <3>1 DEF P!Late
    <3> QED
      BY <2>1, <2>2, <3>2
  <2> QED
    BY <2>2 DEF P!Late
<1>2. CASE spent = "no"
  <2>1. MayPass(h)' = P!Held(h)'
    BY <1>1, <1>2 DEF MayPass
  <2>2. Cardinality(P!Held(h)') <= PerHost
    <3>1. SlotsAreCounted'
      BY DEF Kept, ProxyInv
    <3> QED
      BY <3>1, OneCardinality DEF SlotsAreCounted, P!SlotsAreCounted
  <2> QED
    BY <1>1, <1>2, <2>1, <2>2
<1>3. CASE spent = "yes"
  <2>1. P!Held(h)' \subseteq P!Held(h)
    BY <1>3 DEF P!Held, Passing
  <2>2. P!Late(h)' \subseteq MayPass(h)
    <3>1. ASSUME NEW x \in Conns, HostOf[x] = h, NEW d \in P!Directions, (heads')[<<x, d>>] = "late"
          PROVE  x \in MayPass(h)
      <4>1. CASE heads[<<x, d>>] = "late"
        BY <3>1, <4>1 DEF P!Late, MayPass
      <4>2. CASE heads[<<x, d>>] # "late"
        BY <3>1, <4>2 DEF Passing, P!Held, MayPass
      <4> QED
        BY <4>1, <4>2
    <3> QED
      BY <3>1 DEF P!Late
  <2>3. MayPass(h)' \subseteq MayPass(h)
    BY <2>1, <2>2 DEF MayPass
  <2>4. Cardinality(MayPass(h)) <= PerHost /\ Cardinality(MayPass(h)) \in Nat
    BY <1>3, MayPassIsFinite, FS_CardinalityType DEF LateFit
  <2>5. Cardinality(MayPass(h)') <= Cardinality(MayPass(h)) /\ Cardinality(MayPass(h)') \in Nat
    BY <2>3, MayPassIsFinite
  <2> QED
    BY <1>3, <1>s, <2>4, <2>5 DEF Passing
<1> QED
  BY <1>s, <1>2, <1>3

(* A host's counter is the number of connections that hold one of its slots  *)
(* and never passes the limit (egress-proxy.js release, and the second look  *)
(* at the counter after the address was found): nothing is released twice,   *)
(* and no error path keeps a slot.                                           *)
THEOREM SlotsStayCounted == P!Spec => []SlotsAreCounted
<1>1. ProxyInv => SlotsAreCounted
  BY DEF ProxyInv
<1>2. ProxyInv /\ BytesType /\ [P!NextProxy]_P!pvars => ProxyInv' /\ BytesType'
  BY ProxyNext DEF Kept
<1>3. QED
  BY <1>1, <1>2, ProxyInit, PTL DEF P!Spec

(* Once the egress budget is spent nothing more is counted in either         *)
(* direction, a request whose host was still being looked up then is         *)
(* refused when the lookup returns, and only a connection that had its slot  *)
(* passes a head.                                                            *)
THEOREM SpentStaysSpent == P!Spec => SpentIsSpent
<1>1. ProxyInv /\ BytesType /\ [P!NextProxy]_P!pvars => ProxyInv' /\ BytesType'
  BY ProxyNext DEF Kept
<1>2. ProxyInv /\ BytesType /\ [P!NextProxy]_P!pvars
        => [spent = "yes" => /\ bytes' = bytes
                             /\ \A c \in Conns : conn[c].at = "checking" => (conn')[c].at \in {"checking", "refused"}
                             /\ \A c \in Conns, d \in P!Directions :
                                   (heads')[<<c, d>>] # heads[<<c, d>>] => conn[c].at \in P!Holding]_P!pvars
  <2> SUFFICES ASSUME ProxyInv, BytesType, [P!NextProxy]_P!pvars, spent = "yes"
               PROVE  /\ bytes' = bytes
                      /\ \A c \in Conns : conn[c].at = "checking" => (conn')[c].at \in {"checking", "refused"}
                      /\ \A c \in Conns, d \in P!Directions :
                            (heads')[<<c, d>>] # heads[<<c, d>>] => conn[c].at \in P!Holding
    OBVIOUS
  <2>1. Kept /\ Passing
    BY ProxyNext
  <2>2. bytes' = bytes /\ ChecksAreRefused
    BY <2>1 DEF Kept
  <2>3. \A c \in Conns, d \in P!Directions : (heads')[<<c, d>>] # heads[<<c, d>>] => conn[c].at \in P!Holding
    BY <2>1, Zenon DEF Passing
  <2> QED
    BY <2>2, <2>3 DEF ChecksAreRefused
<1>3. QED
  BY <1>1, <1>2, ProxyInit, PTL DEF P!Spec, SpentIsSpent, P!SpentIsSpent

(* The heads the spent budget does not stop (egress-proxy.js onConnect's and *)
(* onRequest's writes to the site, onRequest's answer): over all the time    *)
(* after, those of at most as many connections to a host as it has slots.    *)
THEOREM LateHeadsStayFew == P!Spec => []LateHeadsAreFew
<1>1. ProxyInv /\ BytesType /\ LateFit /\ [P!NextProxy]_P!pvars => (ProxyInv /\ BytesType /\ LateFit)'
  BY ProxyNext, LateStep DEF Kept
<1>2. P!InitProxy => LateFit
  BY DEF P!InitProxy, LateFit, P!Late
<1>3. ProxyInv /\ BytesType /\ LateFit => LateHeadsAreFew
  <2> SUFFICES ASSUME BytesType, LateFit, NEW h \in Hosts PROVE Cardinality(P!Late(h)) <= PerHost
    BY OneCardinality DEF LateHeadsAreFew, P!LateHeadsAreFew
  <2>1. Cardinality({}) = 0 /\ PerHost \in Nat
    BY FS_EmptySet, ProxyAssumption
  <2>2. P!Late(h) \subseteq MayPass(h)
    BY DEF MayPass
  <2>3. /\ Cardinality(P!Late(h)) <= Cardinality(MayPass(h)) /\ Cardinality(P!Late(h)) \in Nat
        /\ Cardinality(MayPass(h)) \in Nat
    BY <2>2, MayPassIsFinite, FS_CardinalityType
  <2> QED
    BY <2>1, <2>3 DEF LateFit
<1>4. QED
  BY <1>1, <1>2, <1>3, ProxyInit, PTL DEF P!Spec

-----------------------------------------------------------------------------
(* The sandbox worker *)

(* What a sandbox leaves on the host (session.js).                           *)
OnHost == {"dir", "proxy", "cgroup", "procs"}
BoxRecord == [open : {"none", "making", "listed", "failed", "dropped", "dead"},
              st : {"unborn", "running", "wiping", "wiped"}, wipe : {"no", "kill", "clean", "done"},
              on : SUBSET OnHost, cdp : Pages \cup {"none"},
              known : {"no", "yes"}, outlived : {"no", "yes"}, said : {"no", "yes"}]

(* What the worker knows and told of its wipe. *)
Told(b) == <<b.known, b.outlived, b.said>>

WorkerRecord == [up : {"down", "up", "stopping"}, test : {"none", "ok", "failed"}, ends : Nat, stuck : Nat]

(* What is true of a sandbox, whatever the worker does: a sandbox nobody
   opened is untouched, a wipe begins on one that ran, a process is never
   without its limits, a wipe that goes on has reported the processes that
   are left where it could see them, and what is wiped left what it may. *)
LeftIsTold(b) == "procs" \in b.on => b.outlived = "yes" \/ b.known = "no"

BoxOK(b) ==
    /\ b \in BoxRecord
    /\ b.open = "none" => b.st = "unborn"
    /\ b.st = "unborn" => b.wipe = "no"
    /\ "procs" \in b.on => "cgroup" \in b.on
    /\ b.wipe = "clean" => b.open # "making" /\ LeftIsTold(b)
    /\ b.st = "wiped" => /\ "proxy" \notin b.on
                         /\ "dir" \in b.on => b.said = "yes"
                         /\ LeftIsTold(b)

(* A worker that started has removed what its predecessors left (worker.js). *)
DeadIsSwept(b) == b.open = "dead" => "dir" \notin b.on

BoxesInv ==
    /\ worker \in WorkerRecord
    /\ box \in [Sessions -> BoxRecord]
    /\ \A s \in Sessions : BoxOK(box[s]) /\ (worker.up # "down" => DeadIsSwept(box[s]))

LEMMA BoxesShow == BoxesInv => WipeLeavesLittle
<1> SUFFICES ASSUME BoxesInv, NEW s \in Sessions
             PROVE  /\ box[s].st = "wiped" =>
                        /\ "proxy" \notin box[s].on
                        /\ "procs" \in box[s].on
                             => "cgroup" \in box[s].on /\ (box[s].outlived = "yes" \/ box[s].known = "no")
                        /\ "dir" \in box[s].on => box[s].said = "yes"
                    /\ W!Up /\ box[s].open = "dead" => "dir" \notin box[s].on
  BY Zenon DEF WipeLeavesLittle, W!WipeLeavesLittle
<1>1. BoxOK(box[s]) /\ (worker.up # "down" => DeadIsSwept(box[s]))
  BY DEF BoxesInv
<1> QED
  BY <1>1, Zenon DEF BoxOK, LeftIsTold, DeadIsSwept, W!Up

LEMMA BoxesInit == W!Init => BoxesInv
<1> SUFFICES ASSUME W!Init PROVE BoxesInv
  OBVIOUS
<1>1. /\ W!NoBox \in BoxRecord /\ W!NoBox.open = "none" /\ W!NoBox.st = "unborn" /\ W!NoBox.wipe = "no" /\ W!NoBox.on = {}
  BY DEF W!NoBox, BoxRecord, OnHost
<1>2. worker \in WorkerRecord /\ box = [s \in Sessions |-> W!NoBox]
  BY DEF W!Init, WorkerRecord
<1> QED
  BY <1>1, <1>2 DEF BoxesInv, BoxOK, LeftIsTold, DeadIsSwept

(* What each statement does to the record of its sandbox. *)
LEMMA WipeBegins ==
    ASSUME NEW b, BoxOK(b), b.st = "running"
    PROVE  /\ BoxOK(W!WipeBegun(b)) /\ W!WipeBegun(b) \in BoxRecord
           /\ W!WipeBegun(b).open = b.open /\ W!WipeBegun(b).st = "wiping" /\ W!WipeBegun(b).wipe = "kill"
           /\ W!WipeBegun(b).on = b.on /\ Told(W!WipeBegun(b)) = Told(b)
<1> DEFINE c == [b EXCEPT !.st = "wiping"]
           d == [c EXCEPT !.wipe = "kill"]
           e == [d EXCEPT !.cdp = "none"]
<1>1. c \in BoxRecord /\ c.st = "wiping" /\ c.open = b.open /\ c.on = b.on /\ Told(c) = Told(b)
  BY DEF Told, LeftIsTold, BoxOK, BoxRecord
<1> HIDE DEF c
<1>2. d \in BoxRecord /\ d.st = "wiping" /\ d.open = b.open /\ d.on = b.on /\ Told(d) = Told(b) /\ d.wipe = "kill"
  BY <1>1 DEF Told, BoxRecord
<1> HIDE DEF d
<1>3. e \in BoxRecord /\ e.st = "wiping" /\ e.open = b.open /\ e.on = b.on /\ Told(e) = Told(b) /\ e.wipe = "kill"
  BY <1>2 DEF Told, BoxRecord
<1>4. W!WipeBegun(b) = e
  BY DEF W!WipeBegun, c, d
<1> HIDE DEF e
<1> QED
  BY <1>3, <1>4 DEF Told, LeftIsTold, BoxOK

LEMMA Sweeps ==
    ASSUME NEW b, BoxOK(b)
    PROVE  BoxOK(W!Swept(b)) /\ DeadIsSwept(W!Swept(b))
<1>1. W!Swept(b) \in BoxRecord /\ W!Swept(b).on \subseteq b.on \ {"dir"}
      /\ ("procs" \in W!Swept(b).on => "cgroup" \in W!Swept(b).on)
      /\ W!Swept(b).open = b.open /\ W!Swept(b).st = b.st /\ W!Swept(b).wipe = b.wipe /\ Told(W!Swept(b)) = Told(b)
  BY DEF Told, W!Swept, BoxOK, BoxRecord
<1> QED
  BY <1>1 DEF Told, LeftIsTold, BoxOK, DeadIsSwept

LEMMA Orphans == ASSUME NEW b, BoxOK(b) PROVE BoxOK(W!Orphaned(b))
<1> DEFINE c == [b EXCEPT !.open = "dead"]
           d == [c EXCEPT !.on = @ \ {"proxy"}]
           e == [d EXCEPT !.cdp = "none"]
<1>1. c \in BoxRecord /\ c.st = b.st /\ c.open = "dead" /\ c.on = b.on /\ Told(c) = Told(b) /\ c.wipe = b.wipe
  BY DEF Told, LeftIsTold, BoxOK, BoxRecord
<1>2. d = [c EXCEPT !.on = b.on \ {"proxy"}] /\ b.on \ {"proxy"} \in SUBSET OnHost
  BY <1>1 DEF Told, LeftIsTold, BoxOK, BoxRecord
<1> HIDE DEF c
<1>3. d \in BoxRecord /\ d.st = b.st /\ d.open = "dead" /\ d.on = b.on \ {"proxy"} /\ Told(d) = Told(b) /\ d.wipe = b.wipe
  BY <1>1, <1>2 DEF Told, BoxRecord
<1> HIDE DEF d
<1>4. e \in BoxRecord /\ e.st = b.st /\ e.open = "dead" /\ e.on = b.on \ {"proxy"} /\ Told(e) = Told(b) /\ e.wipe = b.wipe
  BY <1>3 DEF Told, BoxRecord
<1>5. W!Orphaned(b) = b \/ W!Orphaned(b) = e
  BY DEF W!Orphaned, c, d
<1> HIDE DEF e
<1> QED
  BY <1>4, <1>5 DEF Told, LeftIsTold, BoxOK

LEMMA CleansUp ==
    ASSUME NEW b, BoxOK(b), b.wipe = "clean", b.open # "dead", NEW fails \in SUBSET {"dir", "cgroup"}
    PROVE  BoxOK(W!CleanedUp(b, fails)) /\ DeadIsSwept(W!CleanedUp(b, fails))
<1> DEFINE left == W!Stays(b, fails)
           told == IF "dir" \in fails THEN "yes" ELSE b.said
           c == [b EXCEPT !.st = "wiped"]
           d == [c EXCEPT !.wipe = "done"]
           e == [d EXCEPT !.on = left]
           f == [e EXCEPT !.said = told]
<1>0. /\ left \in SUBSET OnHost /\ "proxy" \notin left /\ told \in {"no", "yes"}
      /\ "dir" \in left => told = "yes"
      /\ "procs" \in left => "cgroup" \in left /\ "procs" \in b.on
  BY DEF W!Stays, BoxOK, BoxRecord, OnHost
<1>1. c \in BoxRecord /\ c.st = "wiped" /\ c.open = b.open /\ c.on = b.on /\ Told(c) = Told(b) /\ c.wipe = b.wipe
  BY DEF Told, BoxOK, BoxRecord
<1> HIDE DEF c
<1>2. d \in BoxRecord /\ d.st = "wiped" /\ d.open = b.open /\ Told(d) = Told(b) /\ d.wipe = "done"
  BY <1>1 DEF Told, BoxRecord
<1>3. W!CleanedUp(b, fails) = f
  BY <1>1, <1>2 DEF W!CleanedUp, c, Told
<1> HIDE DEF d, left, told
<1>4. e \in BoxRecord /\ e.st = "wiped" /\ e.open = b.open /\ e.on = left /\ Told(e) = Told(b) /\ e.wipe = "done"
  BY <1>0, <1>2 DEF Told, BoxRecord
<1> HIDE DEF e
<1>5. /\ f \in BoxRecord /\ f.st = "wiped" /\ f.open = b.open /\ f.on = left /\ f.wipe = "done" /\ f.said = told
      /\ f.known = b.known /\ f.outlived = b.outlived
  BY <1>0, <1>4 DEF Told, BoxRecord
<1> HIDE DEF f
<1> QED
  BY <1>0, <1>3, <1>5 DEF LeftIsTold, BoxOK, DeadIsSwept

(* A step that changes one sandbox. *)
LEMMA OneBox ==
    ASSUME BoxesInv, worker' \in WorkerRecord, worker'.up = worker.up,
           NEW s \in Sessions, NEW b, box' = [box EXCEPT ![s] = b],
           BoxOK(b), worker.up # "down" => DeadIsSwept(b)
    PROVE  BoxesInv'
<1>1. b \in BoxRecord
  BY DEF Told, LeftIsTold, BoxOK
<1> QED
  BY <1>1 DEF BoxesInv

LEMMA WipesOne ==
    ASSUME BoxesInv, worker' = worker, NEW s \in Sessions, W!Wipe(s)
    PROVE  BoxesInv'
<1>1. BoxOK(box[s]) /\ (worker.up # "down" => DeadIsSwept(box[s])) /\ box[s].st = "running" /\ worker \in WorkerRecord
  BY DEF BoxesInv, W!Wipe
<1>2. BoxOK(W!WipeBegun(box[s])) /\ (DeadIsSwept(box[s]) => DeadIsSwept(W!WipeBegun(box[s])))
  BY <1>1, WipeBegins DEF DeadIsSwept
<1> QED
  BY <1>1, <1>2, OneBox DEF W!Wipe

LEMMA OneCardinalityW == \A S : W!Cardinality(S) = Cardinality(S)
  BY DEF Cardinality, W!Cardinality

(* The steps of one sandbox, each with the record it leaves. *)
LEMMA BoxStep ==
    ASSUME BoxesInv, NEW s \in Sessions,
           \/ W!OpenSession(s) \/ W!Spawned(s) \/ W!NotReady(s)
           \/ \E known \in {"yes", "no"} : W!Ready(s, known)
           \/ \E fails \in SUBSET {"dir", "cgroup"} : W!NotSpawned(s, fails) \/ W!Cleanup(s, fails)
           \/ W!WipeNow(s) \/ W!Protocol(s) \/ W!TimeBoxEnds(s) \/ W!ChildExits(s)
           \/ W!WipeGoesOn(s, 0) \/ W!WipeGoesOn(s, 1) \/ W!Drop(s) \/ W!Reaped(s)
           \/ W!BrowserExits(s)
    PROVE  BoxesInv'
<1> DEFINE b == box[s]
<1>b. BoxOK(b) /\ b \in BoxRecord /\ (worker.up # "down" => DeadIsSwept(b)) /\ worker \in WorkerRecord
  BY DEF BoxesInv
<1>st. ASSUME NEW n, W!Stuck(n), n \in Nat PROVE worker' \in WorkerRecord /\ worker'.up = worker.up
  BY <1>b, <1>st DEF W!Stuck, WorkerRecord
<1>cd. \A fails \in SUBSET {"dir", "cgroup"} : W!Cardinality(fails) \in Nat
  <2> SUFFICES ASSUME NEW fails \in SUBSET {"dir", "cgroup"} PROVE W!Cardinality(fails) \in Nat
    OBVIOUS
  <2>1. IsFiniteSet({"dir", "cgroup"})
    <3>1. IsFiniteSet({"dir"})
      BY FS_Singleton
    <3>2. {"dir", "cgroup"} = {"dir"} \cup {"cgroup"}
      OBVIOUS
    <3> QED
      BY <3>1, <3>2, FS_AddElement
  <2>2. IsFiniteSet(fails)
    BY <2>1, FS_Subset
  <2>3. Cardinality(fails) \in Nat
    BY <2>2, FS_CardinalityType
  <2>4. W!Cardinality(fails) = Cardinality(fails)
    BY OneCardinalityW
  <2> QED
    BY <2>3, <2>4, Zenon
<1>1. ASSUME W!OpenSession(s) PROVE BoxesInv'
  <2> DEFINE c == [b EXCEPT !.open = "making"]
             d == [c EXCEPT !.on = {"dir"}]
  <2>1. c \in BoxRecord /\ c.open = "making" /\ c.st = b.st /\ c.wipe = b.wipe /\ Told(c) = Told(b)
    BY <1>b DEF Told, BoxRecord
  <2>2. box' = [box EXCEPT ![s] = d] /\ worker' = worker /\ b.open = "none"
    BY <1>1 DEF W!OpenSession
  <2> HIDE DEF c
  <2>3. d \in BoxRecord /\ d.open = "making" /\ d.st = b.st /\ d.wipe = b.wipe /\ d.on = {"dir"}
    BY <2>1 DEF Told, BoxRecord, OnHost
  <2> HIDE DEF d
  <2>4. BoxOK(d) /\ DeadIsSwept(d)
    BY <1>b, <2>2, <2>3 DEF Told, LeftIsTold, BoxOK, DeadIsSwept
  <2> QED
    BY <1>b, <2>2, <2>4, OneBox
<1>2. ASSUME W!Spawned(s) PROVE BoxesInv'
  <2> DEFINE c == [b EXCEPT !.st = "running"]
             d == [c EXCEPT !.on = {"dir", "proxy", "cgroup", "procs"}]
  <2>1. c \in BoxRecord /\ c.open = b.open /\ c.st = "running" /\ c.wipe = b.wipe /\ Told(c) = Told(b)
    BY <1>b DEF Told, BoxRecord
  <2>2. box' = [box EXCEPT ![s] = d] /\ worker' = worker /\ b.open = "making" /\ b.st = "unborn"
    BY <1>2 DEF W!Spawned
  <2> HIDE DEF c
  <2>3. d \in BoxRecord /\ d.open = b.open /\ d.st = "running" /\ d.wipe = b.wipe /\ "cgroup" \in d.on
    BY <2>1 DEF Told, BoxRecord, OnHost
  <2> HIDE DEF d
  <2>4. BoxOK(d) /\ DeadIsSwept(d)
    BY <1>b, <2>2, <2>3 DEF Told, LeftIsTold, BoxOK, DeadIsSwept
  <2> QED
    BY <1>b, <2>2, <2>4, OneBox
<1>3. ASSUME NEW fails \in SUBSET {"dir", "cgroup"}, W!NotSpawned(s, fails) PROVE BoxesInv'
  <2> DEFINE c == [b EXCEPT !.open = "failed"]
             d == [c EXCEPT !.on = fails]
  <2>1. c \in BoxRecord /\ c.open = "failed" /\ c.st = b.st /\ c.wipe = b.wipe /\ Told(c) = Told(b)
    BY <1>b DEF Told, BoxRecord
  <2>2. box' = [box EXCEPT ![s] = d] /\ b.st = "unborn" /\ worker' \in WorkerRecord /\ worker'.up = worker.up
    BY <1>3, <1>st, <1>cd DEF W!NotSpawned
  <2> HIDE DEF c
  <2>3. d \in BoxRecord /\ d.open = "failed" /\ d.st = b.st /\ d.wipe = b.wipe /\ d.on = fails
    BY <2>1 DEF BoxRecord, OnHost
  <2> HIDE DEF d
  <2>4. BoxOK(d) /\ DeadIsSwept(d)
    BY <1>b, <2>2, <2>3 DEF LeftIsTold, BoxOK, DeadIsSwept
  <2> QED
    BY <1>b, <2>2, <2>4, OneBox
<1>4. ASSUME NEW known \in {"yes", "no"}, W!Ready(s, known) PROVE BoxesInv'
  <2> DEFINE c == [b EXCEPT !.open = "listed"]
             d == [c EXCEPT !.known = known]
  <2>1. c \in BoxRecord /\ c.open = "listed" /\ c.st = b.st /\ c.wipe = b.wipe /\ c.on = b.on
    BY <1>b DEF BoxRecord
  <2>2. box' = [box EXCEPT ![s] = d] /\ worker' = worker /\ b.open = "making" /\ b.st \in {"running", "wiping"}
    BY <1>4 DEF W!Ready
  <2> HIDE DEF c
  <2>3. d \in BoxRecord /\ d.open = "listed" /\ d.st = b.st /\ d.wipe = b.wipe /\ d.on = b.on
    BY <2>1 DEF BoxRecord
  <2> HIDE DEF d
  <2>4. BoxOK(d) /\ DeadIsSwept(d)
    BY <1>b, <2>2, <2>3 DEF BoxOK, DeadIsSwept
  <2> QED
    BY <1>b, <2>2, <2>4, OneBox
<1>5. ASSUME W!NotReady(s) PROVE BoxesInv'
  <2> DEFINE w == W!WipeBegun(b)
             c == [w EXCEPT !.open = "failed"]
  <2>1. box' = [box EXCEPT ![s] = c] /\ worker' = worker /\ b.st = "running"
    BY <1>5 DEF W!NotReady
  <2>2. w \in BoxRecord /\ BoxOK(w)
    BY <1>b, <2>1, WipeBegins
  <2> HIDE DEF w
  <2>3. c \in BoxRecord /\ c.open = "failed" /\ c.st = w.st /\ c.wipe = w.wipe /\ c.on = w.on /\ Told(c) = Told(w)
    BY <2>2 DEF Told, BoxRecord
  <2> HIDE DEF c
  <2>4. BoxOK(c) /\ DeadIsSwept(c)
    BY <2>2, <2>3 DEF Told, LeftIsTold, BoxOK, DeadIsSwept
  <2> QED
    BY <1>b, <2>1, <2>4, OneBox
<1>6. ASSUME W!WipeNow(s) \/ W!Protocol(s) \/ W!TimeBoxEnds(s) PROVE BoxesInv'
  BY <1>6, WipesOne DEF W!WipeNow, W!Protocol, W!TimeBoxEnds
<1>7. ASSUME W!ChildExits(s) PROVE BoxesInv'
  <2> DEFINE w == W!WipeBegun(b)
             c == [w EXCEPT !.on = @ \ {"procs"}]
             d == [c EXCEPT !.open = IF @ = "making" THEN "failed" ELSE @]
  <2>1. box' = [box EXCEPT ![s] = d] /\ worker' = worker /\ b.st = "running" /\ b.open \in {"making", "listed"}
    BY <1>7 DEF W!ChildExits
  <2>2. w \in BoxRecord /\ BoxOK(w) /\ w.open = b.open /\ w.st = "wiping" /\ w.wipe = "kill"
    BY <1>b, <2>1, WipeBegins
  <2> HIDE DEF w
  <2>3. c \in BoxRecord /\ c.open = b.open /\ c.st = "wiping" /\ c.wipe = "kill" /\ "procs" \notin c.on
    BY <2>2 DEF BoxRecord
  <2> HIDE DEF c
  <2>4. d \in BoxRecord /\ d.open \in {"failed", "listed"} /\ d.st = "wiping" /\ d.wipe = "kill" /\ "procs" \notin d.on
    BY <2>1, <2>3 DEF BoxRecord
  <2> HIDE DEF d
  <2>5. BoxOK(d) /\ DeadIsSwept(d)
    BY <2>4 DEF BoxOK, DeadIsSwept
  <2> QED
    BY <1>b, <2>1, <2>5, OneBox
<1>8. ASSUME NEW stray \in {0, 1}, W!WipeGoesOn(s, stray) PROVE BoxesInv'
  <2> DEFINE told == IF stray = 1 /\ b.known = "yes" THEN "yes" ELSE b.outlived
             c == [b EXCEPT !.wipe = "clean"]
             d == [c EXCEPT !.open = IF b.open = "making" THEN "failed" ELSE b.open]
             e == [d EXCEPT !.outlived = told]
  <2>1. /\ box' = [box EXCEPT ![s].wipe = "clean", ![s].open = IF @ = "making" THEN "failed" ELSE @,
                             ![s].outlived = IF stray = 1 /\ box[s].known = "yes" THEN "yes" ELSE @]
        /\ W!Stuck(stray) /\ b.wipe = "kill" /\ b.open # "dead" /\ ("procs" \in b.on) = (stray = 1)
    BY <1>8 DEF W!WipeGoesOn
  <2>2. c \in BoxRecord /\ c.open = b.open /\ c.st = b.st /\ c.wipe = "clean" /\ c.on = b.on /\ Told(c) = Told(b)
    BY <1>b DEF Told, BoxRecord
  <2>3. d \in BoxRecord /\ d.open \notin {"dead", "making"} /\ (d.open = "none" => b.open = "none") /\ d.st = b.st
        /\ d.wipe = "clean" /\ d.on = b.on /\ Told(d) = Told(b)
    <3> HIDE DEF c
    <3> QED  BY <1>b, <2>1, <2>2 DEF Told, BoxRecord
  <2>e. box' = [box EXCEPT ![s] = e]
    BY <1>b, <2>1, <2>2, <2>3 DEF Told
  <2> HIDE DEF c
  <2>t. told \in {"no", "yes"} /\ ("procs" \in b.on => told = "yes" \/ b.known = "no") /\ (b.outlived = "yes" => told = "yes")
    BY <1>b, <2>1 DEF BoxRecord
  <2> HIDE DEF d, told
  <2>4. /\ e \in BoxRecord /\ e.open = d.open /\ e.st = b.st /\ e.wipe = "clean" /\ e.on = b.on
        /\ e.outlived = told /\ e.known = b.known /\ e.said = b.said
    BY <2>3, <2>t DEF Told, BoxRecord
  <2> HIDE DEF e
  <2>5. BoxOK(e) /\ DeadIsSwept(e)
    <3>1. LeftIsTold(e) /\ e.open # "making" /\ e.open # "dead"
      BY <2>3, <2>4, <2>t DEF LeftIsTold
    <3>2. /\ e.open = "none" => e.st = "unborn"
          /\ e.st # "unborn"
          /\ "procs" \in e.on => "cgroup" \in e.on
          /\ e.st = "wiped" => "proxy" \notin e.on /\ ("dir" \in e.on => e.said = "yes")
      BY <1>b, <2>1, <2>3, <2>4 DEF BoxOK
    <3> QED
      BY <2>4, <3>1, <3>2 DEF BoxOK, DeadIsSwept
  <2>6. worker' \in WorkerRecord /\ worker'.up = worker.up
    BY <2>1, <1>st
  <2> QED
    BY <1>b, <2>e, <2>5, <2>6, OneBox
<1>9. ASSUME NEW fails \in SUBSET {"dir", "cgroup"}, W!Cleanup(s, fails) PROVE BoxesInv'
  <2>2. worker' \in WorkerRecord /\ worker'.up = worker.up
    BY <1>9, <1>st, <1>cd DEF W!Cleanup
  <2> QED
    BY <1>b, <1>9, <2>2, CleansUp, OneBox DEF W!Cleanup
<1>10. ASSUME W!Drop(s) PROVE BoxesInv'
  <2> DEFINE c == [b EXCEPT !.open = "dropped"]
  <2>1. c \in BoxRecord /\ c.open = "dropped" /\ c.st = b.st /\ c.wipe = b.wipe /\ c.on = b.on /\ Told(c) = Told(b)
    BY <1>b DEF Told, BoxRecord
  <2>2. box' = [box EXCEPT ![s] = c] /\ worker' = worker
    BY <1>10 DEF W!Drop
  <2> HIDE DEF c
  <2>3. BoxOK(c) /\ DeadIsSwept(c)
    BY <1>b, <2>1 DEF Told, LeftIsTold, BoxOK, DeadIsSwept
  <2> QED
    BY <1>b, <2>2, <2>3, OneBox
<1>11. ASSUME W!Reaped(s) PROVE BoxesInv'
  <2> DEFINE c == [b EXCEPT !.on = @ \ {"procs"}]
  <2>1. c \in BoxRecord /\ c.open = b.open /\ c.st = b.st /\ c.wipe = b.wipe /\ c.on = b.on \ {"procs"} /\ Told(c) = Told(b)
    BY <1>b DEF Told, BoxRecord
  <2>2. box' = [box EXCEPT ![s] = c] /\ worker' = worker
    BY <1>11 DEF W!Reaped
  <2> HIDE DEF c
  <2>3. BoxOK(c) /\ (DeadIsSwept(b) => DeadIsSwept(c))
    BY <1>b, <2>1 DEF Told, LeftIsTold, BoxOK, DeadIsSwept
  <2> QED
    BY <1>b, <2>2, <2>3, OneBox
<1>12. ASSUME W!BrowserExits(s) PROVE BoxesInv'
  <2> DEFINE c == [b EXCEPT !.cdp = "none"]
  <2>1. c \in BoxRecord /\ c.open = b.open /\ c.st = b.st /\ c.wipe = b.wipe /\ c.on = b.on /\ Told(c) = Told(b)
    BY <1>b DEF Told, BoxRecord
  <2>2. box' = [box EXCEPT ![s] = c] /\ worker' = worker
    BY <1>12 DEF W!BrowserExits
  <2> HIDE DEF c
  <2>3. BoxOK(c) /\ (DeadIsSwept(b) => DeadIsSwept(c))
    BY <1>b, <2>1 DEF Told, LeftIsTold, BoxOK, DeadIsSwept
  <2> QED
    BY <1>b, <2>2, <2>3, OneBox
<1> QED
  BY <1>1, <1>2, <1>3, <1>4, <1>5, <1>6, <1>7, <1>8, <1>9, <1>10, <1>11, <1>12

(* The steps of the worker as a whole. *)
LEMMA WorkerStep ==
    ASSUME BoxesInv,
           \/ \E t \in {"ok", "failed"} : W!Start(t) \/ W!SelfTest(t)
           \/ W!Crash \/ W!Stop \/ W!Stopped
    PROVE  BoxesInv'
<1>b. /\ \A s \in Sessions : BoxOK(box[s]) /\ (worker.up # "down" => DeadIsSwept(box[s]))
      /\ worker \in WorkerRecord /\ box \in [Sessions -> BoxRecord]
  BY DEF BoxesInv
<1>1. ASSUME NEW t \in {"ok", "failed"}, W!Start(t) PROVE BoxesInv'
  <2>1. worker' = [worker EXCEPT !.up = "up", !.test = t] /\ box' = [s \in Sessions |-> W!Swept(box[s])]
    BY <1>1 DEF W!Start
  <2>2. worker' \in WorkerRecord
    BY <1>b, <2>1 DEF WorkerRecord
  <2>3. \A s \in Sessions : BoxOK(W!Swept(box[s])) /\ DeadIsSwept(W!Swept(box[s])) /\ W!Swept(box[s]) \in BoxRecord
    BY <1>b, Sweeps DEF Told, LeftIsTold, BoxOK
  <2> QED
    BY <2>1, <2>2, <2>3 DEF BoxesInv
<1>2. ASSUME NEW t \in {"ok", "failed"}, W!SelfTest(t) PROVE BoxesInv'
  <2>1. worker' \in WorkerRecord /\ worker'.up = worker.up /\ box' = box
    BY <1>b, <1>2 DEF W!SelfTest, WorkerRecord
  <2> QED
    BY <1>b, <2>1 DEF BoxesInv
<1>3. ASSUME W!Ends PROVE BoxesInv'
  <2>1. box' = [s \in Sessions |-> W!Orphaned(box[s])]
    BY <1>3 DEF W!Ends
  <2>2. worker' \in WorkerRecord /\ worker'.up = "down"
    <3> DEFINE v == [worker EXCEPT !.up = "down"]
               w == [v EXCEPT !.test = "none"]
    <3>1. v \in WorkerRecord /\ v.up = "down"
      BY <1>b DEF WorkerRecord
    <3>2. worker' = [w EXCEPT !.ends = @ + 1]
      BY <1>3 DEF W!Ends
    <3> HIDE DEF v
    <3>3. w \in WorkerRecord /\ w.up = "down"
      BY <3>1 DEF WorkerRecord
    <3> HIDE DEF w
    <3> QED
      BY <3>2, <3>3 DEF WorkerRecord
  <2>3. \A s \in Sessions : BoxOK(W!Orphaned(box[s])) /\ W!Orphaned(box[s]) \in BoxRecord
    BY <1>b, Orphans DEF Told, LeftIsTold, BoxOK
  <2> QED
    BY <2>1, <2>2, <2>3 DEF BoxesInv
<1>4. ASSUME W!Stop PROVE BoxesInv'
  <2>1. box' = [s \in Sessions |-> IF s \in W!Running THEN W!WipeBegun(box[s]) ELSE box[s]] /\ worker.up = "up"
    BY <1>4 DEF W!Stop
  <2>2. worker' \in WorkerRecord
    BY <1>b, <1>4 DEF W!Stop, WorkerRecord
  <2>3. \A s \in W!Running : s \in Sessions /\ box[s].st = "running" /\ box[s].open = "listed"
    BY DEF W!Running
  <2>4. \A s \in W!Running :
           /\ BoxOK(W!WipeBegun(box[s])) /\ W!WipeBegun(box[s]) \in BoxRecord
           /\ W!WipeBegun(box[s]).open = "listed"
    BY <1>b, <2>3, WipeBegins
  <2> QED
    BY <1>b, <2>1, <2>2, <2>4 DEF BoxesInv, DeadIsSwept
<1> QED
  BY <1>1, <1>2, <1>3, <1>4 DEF W!Crash, W!Stopped

(* The steps of a request: only the browser's start touches a sandbox. *)
LEMMA RequestStep ==
    ASSUME BoxesInv,
           \/ \E s \in Sessions : (\E r \in Commands : W!Ask(r, s)) \/ (\E r \in Pages : W!AskPage(r, s))
           \/ \E r \in Commands : W!Answer(r)
           \/ \E r \in Pages : \/ W!BrowserStarts(r) \/ W!NoBrowser(r) \/ W!Version(r) \/ W!AsksAgain(r) \/ W!NoVersion(r)
                               \/ W!PageShown(r) \/ W!SpinEnds(r)
    PROVE  BoxesInv'
<1>1. ASSUME UNCHANGED <<worker, box>> PROVE BoxesInv'
  BY <1>1 DEF BoxesInv
<1>2. ASSUME NEW r \in Pages, W!BrowserStarts(r) PROVE BoxesInv'
  <2> DEFINE s == req[r].box
             c == [box[s] EXCEPT !.cdp = r]
  <2>1. box' = [box EXCEPT ![s] = c] /\ worker' = worker
    BY <1>2 DEF W!BrowserStarts
  <2>2. CASE s \in Sessions
    <3>1. BoxOK(box[s]) /\ box[s] \in BoxRecord /\ (worker.up # "down" => DeadIsSwept(box[s])) /\ worker \in WorkerRecord
      BY <2>2 DEF BoxesInv
    <3> HIDE DEF s
    <3>2. c \in BoxRecord /\ c.open = box[s].open /\ c.st = box[s].st /\ c.wipe = box[s].wipe /\ c.on = box[s].on
          /\ Told(c) = Told(box[s])
      BY <3>1 DEF Told, BoxRecord
    <3> HIDE DEF c
    <3>3. BoxOK(c) /\ (DeadIsSwept(box[s]) => DeadIsSwept(c))
      BY <3>1, <3>2 DEF Told, LeftIsTold, BoxOK, DeadIsSwept
    <3> QED
      BY <2>1, <2>2, <3>1, <3>3, OneBox
  <2>3. CASE s \notin Sessions
    <3> HIDE DEF c, s
    <3>1. box' = box
      BY <2>1, <2>3 DEF BoxesInv
    <3> QED
      BY <1>1, <2>1, <3>1
  <2> QED
    BY <2>2, <2>3
<1> QED
  BY <1>1, <1>2 DEF W!Ask, W!AskPage, W!Answer, W!NoBrowser, W!Version, W!AsksAgain, W!NoVersion, W!PageShown, W!SpinEnds

LEMMA BoxesNext == BoxesInv /\ [W!Next]_W!vars => BoxesInv'
<1> SUFFICES ASSUME BoxesInv, [W!Next]_W!vars PROVE BoxesInv'
  OBVIOUS
<1>1. ASSUME UNCHANGED W!vars PROVE BoxesInv'
  BY <1>1 DEF W!vars, BoxesInv
<1> QED
  BY <1>1, BoxStep, WorkerStep, RequestStep DEF W!Next

(* What is left of a sandbox that was wiped (session.js wipe, cleanup): not  *)
(* its proxy; a process only when the worker reported it or did not know     *)
(* where to look, and then in its cgroup; its directory only when the log    *)
(* has the error; and a worker that is up has swept the directories of the   *)
(* workers that crashed.  Wipes overlap starts, the time box, exits, stops   *)
(* and crashes, and any removal may fail.                                    *)
THEOREM WipedIsGone == W!Spec => []WipeLeavesLittle
  BY BoxesInit, BoxesNext, BoxesShow, PTL DEF W!Spec
=============================================================================
