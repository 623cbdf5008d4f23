---------------------------- MODULE SessionLogProofs ----------------------------
(***************************************************************************)
(* Proofs about a task's session: what a reader that polls by seq has, and *)
(* that the stored session implements SessionView, for any streams and any *)
(* number of recorders.                                                    *)
(***************************************************************************)
EXTENDS SessionLog, FiniteSetTheorems, WellFoundedInduction, TLAPS

-----------------------------------------------------------------------------
(* Numbers and seqs.                                                         *)

(* A set of natural numbers that is not empty has a least element.           *)
LEMMA LeastOne ==
    ASSUME NEW S \in SUBSET Nat, S # {} PROVE \E i \in S : \A j \in S : i <= j
<1> DEFINE R == {ss \in Nat \X Nat : ss[1] < ss[2]}
<1>1. OpToRel(<, Nat) = R
    BY DEF OpToRel
<1>2. IsWellFoundedOn(R, Nat)
    BY <1>1, NatLessThanWellFounded
<1>3. \A i, j \in S : j < i => <<j, i>> \in R
    OBVIOUS
<1> HIDE DEF R
<1>4. PICK i \in S : \A j \in S : ~(<<j, i>> \in R)
    BY <1>2, WFMin
<1>5. \A j \in S : ~(j < i)
    BY <1>3, <1>4
<1> QED
    BY <1>5

(* A set of numbers with a bound has a greatest one, or is empty.            *)
LEMMA GreatestIs ==
    ASSUME NEW S \in SUBSET Nat, NEW b \in Nat, \A s \in S : s <= b
    PROVE  Greatest(S) \in S \cup {0} /\ Greatest(S) \in Nat /\ \A s \in S : s <= Greatest(S)
<1> DEFINE over == {n \in Nat : \A s \in S : s <= n}
<1>1. PICK n \in over : \A k \in over : n <= k
  <2>1. over \in SUBSET Nat /\ b \in over
      OBVIOUS
  <2> QED
      BY <2>1, LeastOne
<1>2. n \in S \cup {0}
  <2> SUFFICES ASSUME n \notin S, n # 0 PROVE FALSE
      OBVIOUS
  <2>1. \A s \in S : s <= n - 1
      BY <1>1
  <2>2. n - 1 \in over
      BY <1>1, <2>1
  <2> QED
      BY <1>1, <2>2
<1>3. \A s \in S : s <= n
    BY <1>1
<1>4. n \in Nat
    BY <1>1
<1> HIDE DEF over
<1>5. \E g \in S \cup {0} : \A o \in S : o <= g
    BY <1>2, <1>3
<1>6. Greatest(S) \in S \cup {0} /\ \A o \in S : o <= Greatest(S)
    BY <1>5 DEF Greatest
<1>7. \A g \in S \cup {0} : g \in Nat
    OBVIOUS
<1> QED
    BY <1>6, <1>7, Zenon

(* The seqs of an earlier event come before those of a later one.            *)
LEMMA Strides ==
    ASSUME NEW e \in Nat, NEW k \in Nat, e < k PROVE e * Stride + Stride <= k * Stride
<1>1. Stride \in Nat
    BY SessionLogAssumption
<1>2. PICK d \in Nat : k = e + 1 + d
  <2>1. k - e - 1 \in Nat /\ k = e + 1 + (k - e - 1)
      OBVIOUS
  <2> QED
      BY <2>1
<1>3. k * Stride = e * Stride + Stride + d * Stride
    BY <1>1, <1>2
<1>4. d * Stride \in Nat /\ e * Stride \in Nat
    BY <1>1
<1> QED
    BY <1>1, <1>3, <1>4

LEMMA StridesAre == Stride \in Nat \ {0} /\ \A k \in Nat : k * Stride \in Nat
    BY SessionLogAssumption

(* A smaller part of a set has no more elements below any number.            *)
LEMMA BelowIs ==
    ASSUME NEW S \in SUBSET Nat, NEW s \in Nat
    PROVE  IsFiniteSet({r \in S : r < s}) /\ Below(S, s) \in Nat
<1>1. {r \in S : r < s} \in SUBSET (0..s)
  <2>1. \A r \in S : r < s => r \in 0..s
      OBVIOUS
  <2> QED
      BY <2>1, Zenon
<1>2. IsFiniteSet(0..s)
    BY FS_Interval
<1>3. IsFiniteSet({r \in S : r < s})
    BY <1>1, <1>2, FS_Subset
<1> QED
    BY <1>3, FS_CardinalityType DEF Below

LEMMA BelowGrows ==
    ASSUME NEW S \in SUBSET Nat, NEW s \in Nat, NEW t \in Nat, s <= t
    PROVE  Below(S, s) <= Below(S, t)
<1>1. {r \in S : r < s} \in SUBSET {r \in S : r < t}
  <2>1. \A r \in S : r < s => r < t
      OBVIOUS
  <2> QED
      BY <2>1, Zenon
<1>2. IsFiniteSet({r \in S : r < t})
    BY BelowIs
<1> QED
    BY <1>1, <1>2, FS_Subset DEF Below

LEMMA BelowCounts ==
    ASSUME NEW S \in SUBSET Nat, NEW s \in S, NEW t \in Nat, s < t
    PROVE  Below(S, s) < Below(S, t)
<1> DEFINE A == {r \in S : r < s}
           B == {r \in S : r < t}
<1>1. IsFiniteSet(A) /\ IsFiniteSet(B)
    BY BelowIs
<1>2. s \notin A /\ A \cup {s} \in SUBSET B
  <2>1. \A r \in S : r < s => r < t
      OBVIOUS
  <2>2. ~(s < s)
      OBVIOUS
  <2> QED
      BY <2>1, <2>2, Zenon
<1> HIDE DEF A, B
<1>3. Cardinality(A \cup {s}) = Cardinality(A) + 1 /\ IsFiniteSet(A \cup {s})
    BY <1>1, <1>2, FS_AddElement
<1>4. Cardinality(A \cup {s}) <= Cardinality(B)
    BY <1>1, <1>2, FS_Subset
<1>5. Cardinality(A) \in Nat /\ Cardinality(B) \in Nat
    BY <1>1, FS_CardinalityType
<1> QED
    BY <1>3, <1>4, <1>5 DEF A, B, Below

-----------------------------------------------------------------------------
(* What is true of every state, whatever fails.                              *)

Event == [type : {"output", "state", "end"}, done : Seq(Contents), cut : Contents \cup {"none"}]
RowRecord ==
    [kind : {"conductor", "task"}, job : Jobs, state : {"running", "ended", "gone"},
     complete : {"no", "yes"}, log : Seq(Contents)]
RecRecord == [open : {"no", "yes"}, job : Jobs, pos : Nat, buffer : Contents \cup {"none"}, base : Nat]

(* A recorder reads a job the task has had, and no further than its stream.  *)
RecOK(r, job) ==
    r.open = "yes" =>
        /\ r.job <= job
        /\ r.pos <= Len(Streams[r.job])
        /\ r.buffer # "none" => r.pos >= 1 /\ r.base = r.pos * Stride

Types ==
    /\ row \in RowRecord
    /\ row.job <= JobsOf[row.kind]
    /\ sent \in 0..Len(Streams[row.job])
    /\ rec \in [Viewers -> RecRecord]
    /\ faults \in Nat
    /\ \A v \in Viewers : RecOK(rec[v], row.job)
    /\ row.state # "running" => row.complete = "yes"
    /\ row.job = 1 /\ proofs.pc = "read" => row.state # "running"
    /\ fin.pc = "read" => row.state = "running"
    /\ row.kind = "conductor" => proofs.pc = "idle"
    /\ row.kind = "conductor" /\ row.state = "running" => row.complete = "no"
    /\ row.job = 1 /\ row.state = "running" => row.complete = "no"

LEMMA StreamsAre ==
    /\ Jobs = 1..Len(Streams) /\ Len(Streams) \in Nat
    /\ \A j \in Jobs : /\ Len(Streams[j]) \in Nat
                       /\ \A k \in 1..Len(Streams[j]) : Streams[j][k] \in Event /\ Len(Streams[j][k].done) < Stride
                       /\ Logs[j] \in Seq(Contents)
<1>1. Streams \in Seq(Seq(Event))
    BY SessionLogAssumption DEF Event
<1>2. Jobs = 1..Len(Streams) /\ Len(Streams) \in Nat
    BY <1>1 DEF Jobs
<1>3. \A j \in Jobs : Streams[j] \in Seq(Event)
    BY <1>1, <1>2
<1>4. \A j \in Jobs : DOMAIN Streams[j] = 1..Len(Streams[j]) /\ Len(Streams[j]) \in Nat
    BY <1>3
<1>5. \A j \in Jobs : \A k \in DOMAIN Streams[j] : Streams[j][k] \in Event
    BY <1>3, <1>4
<1>6. \A j \in Jobs : \A k \in DOMAIN Streams[j] : Len(Streams[j][k].done) < Stride
    BY SessionLogAssumption
<1>7. \A j \in Jobs : Logs[j] \in Seq(Contents)
    BY SessionLogAssumption
<1> QED
    BY <1>2, <1>4, <1>5, <1>6, <1>7

LEMMA IdleIs == 1 \in Jobs => Idle \in RecRecord /\ Idle.open = "no"
    BY DEF Idle, RecRecord

LEMMA TypesInitial == Init => Types
<1> SUFFICES ASSUME Init PROVE Types
    OBVIOUS
<1>1. PICK k \in DOMAIN JobsOf : JobsOf[k] > 0 /\
          row = [kind |-> k, job |-> 1, state |-> "running", complete |-> "no", log |-> <<>>]
    BY DEF Init
<1>2. k \in {"conductor", "task"} /\ JobsOf[k] \in 0..Len(Streams) /\ Len(Streams) \in Nat
    BY SessionLogAssumption, StreamsAre
<1>3. 1 \in Jobs
    BY <1>1, <1>2, StreamsAre
<1>4. row \in RowRecord /\ row.job = 1 /\ row.kind = k /\ row.state = "running" /\ row.complete = "no"
    BY <1>1, <1>2, <1>3 DEF RowRecord
<1>5. rec = [v \in Viewers |-> Idle] /\ Idle.open = "no"
    BY <1>3, IdleIs DEF Init
<1>6. rec \in [Viewers -> RecRecord] /\ \A v \in Viewers : rec[v].open = "no"
    BY <1>3, <1>5, IdleIs
<1>7. sent = 0 /\ faults = 0 /\ proofs.pc = "idle" /\ fin.pc = "idle"
    BY DEF Init
<1>8. Len(Streams[row.job]) \in Nat
    BY <1>3, <1>4, StreamsAre
<1> QED
    BY <1>1, <1>2, <1>4, <1>6, <1>7, <1>8 DEF Types, RecOK

(* A recorder's step: it opens on the row's job, reads its next event, or    *)
(* goes idle.                                                                *)
RecMoves(v, r) == rec' = [rec EXCEPT ![v] = r] /\ r \in RecRecord /\ RecOK(r, row.job)

LEMMA ConnectMoves ==
    ASSUME Types, NEW v \in Viewers, Connect(v) PROVE RecMoves(v, [Idle EXCEPT !.open = "yes", !.job = row.job])
<1> DEFINE a == [Idle EXCEPT !.open = "yes"]
           b == [a EXCEPT !.job = row.job]
<1>1. row \in RowRecord /\ row.job \in Jobs /\ 1 \in Jobs
  <2>1. row.job \in Jobs
      BY DEF Types, RowRecord
  <2> QED
      BY <2>1, StreamsAre DEF Types
<1>2. a \in RecRecord /\ a.buffer = "none" /\ a.pos = 0
    BY <1>1 DEF Idle, RecRecord
<1>3. [Idle EXCEPT !.open = "yes", !.job = row.job] = b
    BY DEF Idle
<1>4. rec' = [rec EXCEPT ![v] = b]
    BY <1>3 DEF Connect
<1> HIDE DEF a
<1>5. b \in RecRecord /\ b.buffer = "none" /\ b.pos = 0 /\ b.job = row.job
    BY <1>1, <1>2 DEF RecRecord
<1> HIDE DEF b
<1>6. b.job <= row.job /\ b.pos <= Len(Streams[b.job])
    BY <1>1, <1>5, StreamsAre DEF Types
<1> QED
    BY <1>3, <1>4, <1>5, <1>6 DEF RecMoves, RecOK

(* The event a recorder reads next is one of its job's stream.               *)
LEMMA NextEvent ==
    ASSUME Types, NEW v \in Viewers, HasNext(v)
    PROVE  /\ rec[v] \in RecRecord /\ rec[v].open = "yes" /\ rec[v].job \in Jobs
           /\ rec[v].pos + 1 \in 1..Len(Streams[rec[v].job])
           /\ Streams[rec[v].job][rec[v].pos + 1] \in Event
<1>1. rec[v] \in RecRecord /\ rec[v].open = "yes" /\ rec[v].job \in Jobs /\ rec[v].pos \in Nat
    BY DEF Types, RecRecord, HasNext
<1>2. rec[v].pos < Len(Streams[rec[v].job])
    BY <1>1, StreamsAre DEF HasNext, Types, RowRecord
<1>3. rec[v].pos + 1 \in 1..Len(Streams[rec[v].job])
    BY <1>1, <1>2, StreamsAre
<1> QED
    BY <1>1, <1>3, StreamsAre

LEMMA PushedMoves ==
    ASSUME Types, NEW v \in Viewers, HasNext(v), Pushed(v)
    PROVE  \E r : /\ RecMoves(v, r)
                  /\ r.open = "yes" /\ r.job = rec[v].job /\ r.pos = rec[v].pos + 1
<1> DEFINE n == rec[v].pos + 1
           a == [rec[v] EXCEPT !.pos = n]
           b == [a EXCEPT !.buffer = BufferAfter(v, n)]
           c == [b EXCEPT !.base = n * Stride]
<1>1. /\ rec[v] \in RecRecord /\ rec[v].open = "yes" /\ rec[v].job \in Jobs
      /\ n \in 1..Len(Streams[rec[v].job]) /\ Streams[rec[v].job][n] \in Event
    BY NextEvent
<1>2. BufferAfter(v, n) \in Contents \cup {"none"}
    BY <1>1 DEF BufferAfter, Event, RecRecord
<1>3. rec' = [rec EXCEPT ![v] = c]
    BY <1>1 DEF Pushed, Base, Types, RecRecord
<1>4. n \in Nat /\ n * Stride \in Nat
    BY <1>1, StridesAre, StreamsAre
<1> HIDE DEF n
<1>5. a \in RecRecord /\ a.open = "yes" /\ a.job = rec[v].job /\ a.pos = n
    BY <1>1, <1>4 DEF RecRecord
<1> HIDE DEF a
<1>6. b \in RecRecord /\ b.open = "yes" /\ b.job = rec[v].job /\ b.pos = n
    BY <1>2, <1>5 DEF RecRecord
<1> HIDE DEF b
<1>7. c \in RecRecord /\ c.open = "yes" /\ c.job = rec[v].job /\ c.pos = n /\ c.base = n * Stride
    BY <1>4, <1>6 DEF RecRecord
<1> HIDE DEF c
<1>8. rec[v].job <= row.job
    BY <1>1 DEF Types, RecOK
<1>9. c.pos <= Len(Streams[c.job]) /\ c.pos >= 1
    BY <1>1, <1>7, StreamsAre
<1>10. RecMoves(v, c)
    BY <1>3, <1>7, <1>8, <1>9 DEF RecMoves, RecOK
<1> QED
    BY <1>7, <1>10 DEF n

LEMMA LeaveMoves ==
    ASSUME Types, NEW v \in Viewers, Leave(v) PROVE RecMoves(v, Idle)
<1>1. row.job \in Jobs
    BY DEF Types, RowRecord
<1>2. 1 \in Jobs
    BY <1>1, StreamsAre
<1> QED
    BY <1>2, IdleIs DEF Leave, RecMoves, RecOK

LEMMA TypesMove ==
    ASSUME Types, NEW v \in Viewers, NEW r, RecMoves(v, r), UNCHANGED <<row, sent, fin, proofs>>, faults' \in Nat
    PROVE  Types'
<1>1. rec' = [rec EXCEPT ![v] = r] /\ r \in RecRecord /\ RecOK(r, row.job)
    BY DEF RecMoves
<1>2. rec' \in [Viewers -> RecRecord] /\ \A w \in Viewers : rec'[w] = r \/ rec'[w] = rec[w]
    BY <1>1 DEF Types
<1>3. \A w \in Viewers : RecOK(rec'[w], row.job)
    BY <1>1, <1>2 DEF Types
<1> QED
    BY <1>2, <1>3 DEF Types

LEMMA TypesEnd == ASSUME Types, EndWrite PROVE Types'
<1> DEFINE a == [row EXCEPT !.state = "ended"]
           b == [a EXCEPT !.log = Logs[row.job]]
           c == [b EXCEPT !.complete = "yes"]
<1>1. row \in RowRecord /\ row.job \in Jobs
    BY DEF Types, RowRecord
<1>2. a \in RowRecord /\ a.kind = row.kind /\ a.job = row.job /\ a.state = "ended"
    BY <1>1 DEF RowRecord
<1>3. row' = c /\ UNCHANGED <<sent, rec, proofs, faults>> /\ fin'.pc = "idle"
    BY DEF EndWrite, Completed
<1> HIDE DEF a
<1>4. b \in RowRecord /\ b.kind = row.kind /\ b.job = row.job /\ b.state = "ended"
    BY <1>1, <1>2, StreamsAre DEF RowRecord
<1> HIDE DEF b
<1>5. c \in RowRecord /\ c.kind = row.kind /\ c.job = row.job /\ c.state = "ended" /\ c.complete = "yes"
    BY <1>4 DEF RowRecord
<1> HIDE DEF c
<1> QED
    BY <1>3, <1>5 DEF Types

LEMMA TypesNextJob == ASSUME Types, NextJob PROVE Types'
<1> DEFINE a == [row EXCEPT !.job = row.job + 1]
           b == [a EXCEPT !.state = "running"]
           c == [b EXCEPT !.complete = IF row.kind = "conductor" THEN "no" ELSE row.complete]
<1>1. row \in RowRecord /\ row.job \in Jobs /\ row.state # "running" /\ row.job < JobsOf[row.kind]
    BY DEF Types, RowRecord, NextJob
<1>2. JobsOf[row.kind] \in 0..Len(Streams)
    BY <1>1, SessionLogAssumption DEF RowRecord
<1>3. row.job + 1 \in Jobs /\ row.job + 1 <= JobsOf[row.kind] /\ row.job + 1 # 1 /\ row.job <= row.job + 1
    BY <1>1, <1>2, StreamsAre
<1>4. row' = c
    BY DEF NextJob
<1>5. a \in RowRecord /\ a.kind = row.kind /\ a.job = row.job + 1
    BY <1>1, <1>3 DEF RowRecord
<1> HIDE DEF a
<1>6. b \in RowRecord /\ b.kind = row.kind /\ b.job = row.job + 1 /\ b.state = "running"
    BY <1>5 DEF RowRecord
<1> HIDE DEF b
<1>7. c \in RowRecord /\ c.kind = row.kind /\ c.job = row.job + 1 /\ c.state = "running"
      /\ (row.kind = "conductor" => c.complete = "no")
    BY <1>1, <1>6 DEF RowRecord
<1> HIDE DEF c
<1>8. UNCHANGED <<rec, fin, faults>> /\ sent' = 0 /\ (proofs.pc = "idle" => proofs'.pc = "idle")
    BY DEF NextJob
<1>9. \A v \in Viewers : RecOK(rec[v], row.job + 1)
  <2> SUFFICES ASSUME NEW v \in Viewers, rec[v].open = "yes" PROVE RecOK(rec[v], row.job + 1)
      BY DEF RecOK
  <2>1. RecOK(rec[v], row.job) /\ rec[v].job \in Jobs
      BY DEF Types, RecRecord
  <2>2. rec[v].job <= row.job + 1
      BY <1>1, <2>1, StreamsAre DEF RecOK
  <2> QED
      BY <2>1, <2>2 DEF RecOK
<1>10. 0 \in 0..Len(Streams[row.job + 1])
    BY <1>3, StreamsAre
<1> QED
    BY <1>3, <1>4, <1>7, <1>8, <1>9, <1>10 DEF Types

LEMMA TypesNext == Types /\ [Next]_vars => Types'
<1> SUFFICES ASSUME Types, [Next]_vars PROVE Types'
    OBVIOUS
<1>1. ASSUME Emit PROVE Types'
  <2>1. row.job \in Jobs
      BY DEF Types, RowRecord
  <2>2. sent + 1 \in 0..Len(Streams[row.job])
      BY <1>1, <2>1, StreamsAre DEF Emit, Types
  <2> QED
      BY <1>1, <2>2 DEF Emit, Types
<1>2. ASSUME NEW v \in Viewers, Connect(v) PROVE Types'
    BY <1>2, ConnectMoves, TypesMove DEF Connect, Types
<1>3. ASSUME NEW v \in Viewers, Push(v) PROVE Types'
  <2>1. PICK r : RecMoves(v, r)
      BY <1>3, PushedMoves DEF Push
  <2> QED
      BY <1>3, <2>1, TypesMove DEF Push, Types
<1>4. ASSUME NEW v \in Viewers, PushFails(v) PROVE Types'
  <2>1. PICK r : RecMoves(v, r)
      BY <1>4, PushedMoves DEF PushFails
  <2>2. faults' \in Nat
      BY <1>4 DEF PushFails, Types
  <2> QED
      BY <1>4, <2>1, <2>2, TypesMove DEF PushFails
<1>5. ASSUME NEW v \in Viewers, Leave(v) PROVE Types'
    BY <1>5, LeaveMoves, TypesMove DEF Leave, Types
<1>6. ASSUME EndRead PROVE Types'
    BY <1>6 DEF EndRead, Types
<1>7. ASSUME EndFails PROVE Types'
    BY <1>7 DEF EndFails, Types
<1>8. ASSUME ProofRead PROVE Types'
    BY <1>8 DEF ProofRead, Types
<1>9. ASSUME ProofWrite PROVE Types'
  <2>1. row.kind # "conductor" /\ proofs'.pc = "done"
      BY <1>9 DEF ProofWrite, Types
  <2> QED
      BY <1>9, <2>1 DEF ProofWrite, Types
<1>10. ASSUME Retain PROVE Types'
  <2> DEFINE c == [row EXCEPT !.state = "gone"]
  <2>1. row \in RowRecord /\ row.complete = "yes" /\ fin.pc # "read"
      BY <1>10 DEF Retain, Types
  <2>2. c \in RowRecord /\ c.kind = row.kind /\ c.job = row.job /\ c.state = "gone" /\ c.complete = "yes"
      BY <2>1 DEF RowRecord
  <2>3. row' = c
      BY <1>10 DEF Retain
  <2> HIDE DEF c
  <2> QED
      BY <1>10, <2>1, <2>2, <2>3 DEF Retain, Types
<1>11. ASSUME SendLines \/ ReadRow \/ Reconnect PROVE Types'
    BY <1>11 DEF SendLines, ReadRow, Reconnect, Types
<1>12. ASSUME UNCHANGED vars PROVE Types'
    BY <1>12 DEF vars, Types
<1> QED
    BY <1>1, <1>2, <1>3, <1>4, <1>5, <1>6, <1>7, <1>8, <1>9, <1>10, <1>11, <1>12, TypesEnd, TypesNextJob DEF Next

-----------------------------------------------------------------------------
(* What a reader has.  Each statement writes all lines of one event, and no  *)
(* recorder skips one: the events that the rows show are a beginning of the  *)
(* stream, whichever recorder wrote them, and one that is new comes after    *)
(* all rows there are.                                                       *)

Seqs(e, k) == IF e.type = "output" THEN {k * Stride + i - 1 : i \in DOMAIN e.done} ELSE {k * Stride}

Within(s, k) == s \in Nat /\ k * Stride <= s /\ s < k * Stride + Stride

Shown(rows, n) == \A k \in 1..n : Seqs(Streams[1][k], k) \subseteq rows

Follows(rows) ==
    \A s \in rows : \E k \in 1..Len(Streams[1]) : Within(s, k) /\ Shown(rows, k)

ReaderRecord == [pc : {"lines", "row", "closed"}, last : Nat, got : SUBSET Nat]

ReadOK(r, at) ==
    /\ r \in ReaderRecord
    /\ r.last \in DOMAIN at \cup {0}
    /\ \A s \in DOMAIN at : s <= r.last /\ at[s].t # "text" => s \in r.got

FollowInv ==
    row.job = 1 /\ row.complete = "no" /\ faults = 0 =>
        /\ Follows(DOMAIN lines)
        /\ \A v \in Viewers : rec[v].open = "yes" => Shown(DOMAIN lines, rec[v].pos)
        /\ ReadOK(reader, lines)

LEMMA SeqsWithin ==
    ASSUME NEW e \in Event, Len(e.done) < Stride, NEW k \in Nat
    PROVE  \A s \in Seqs(e, k) : Within(s, k)
<1>1. k * Stride \in Nat /\ Stride \in Nat \ {0}
    BY StridesAre
<1>2. DOMAIN e.done = 1..Len(e.done) /\ Len(e.done) \in Nat
    BY DEF Event
<1>3. \A i \in DOMAIN e.done : Within(k * Stride + i - 1, k)
  <2> SUFFICES ASSUME NEW i \in DOMAIN e.done PROVE Within(k * Stride + i - 1, k)
      OBVIOUS
  <2>1. i \in Nat /\ 1 <= i /\ i < Stride
      BY <1>1, <1>2
  <2> DEFINE base == k * Stride
  <2>2. base \in Nat
      BY <1>1
  <2> HIDE DEF base
  <2>3. base + i - 1 \in Nat /\ base <= base + i - 1 /\ base + i - 1 < base + Stride
      BY <1>1, <2>1, <2>2
  <2> QED
      BY <2>3 DEF Within, base
<1>4. Within(k * Stride, k)
  <2> DEFINE base == k * Stride
  <2>1. base \in Nat
      BY <1>1
  <2> HIDE DEF base
  <2>2. base < base + Stride
      BY <1>1, <2>1
  <2> QED
      BY <2>1, <2>2 DEF Within, base
<1> HIDE DEF Within
<1>5. CASE e.type = "output"
    BY <1>3, <1>5 DEF Seqs
<1>6. CASE e.type # "output"
    BY <1>4, <1>6 DEF Seqs
<1> QED
    BY <1>5, <1>6

LEMMA RecordsAt ==
    ASSUME NEW v \in Viewers, NEW k PROVE DOMAIN Records(v, k) = Seqs(Streams[rec[v].job][k], k)
    BY DEF Records, Seqs, Base

LEMMA AppendedAt ==
    ASSUME NEW old, NEW new
    PROVE  /\ DOMAIN Appended(old, new) = DOMAIN old \cup DOMAIN new
           /\ \A s \in DOMAIN old : Appended(old, new)[s] = old[s]
           /\ \A s \in DOMAIN new \ DOMAIN old : Appended(old, new)[s] = new[s]
    BY DEF Appended

LEMMA ShownGrows ==
    ASSUME NEW rows, NEW more, rows \subseteq more, NEW n, Shown(rows, n) PROVE Shown(more, n)
    BY DEF Shown

LEMMA ShownBefore ==
    ASSUME NEW rows, NEW n \in Nat, Shown(rows, n), NEW k \in Nat, k <= n PROVE Shown(rows, k)
<1>1. \A i \in 1..k : i \in 1..n
    OBVIOUS
<1> QED
    BY <1>1 DEF Shown

(* Rows that are there stay, and what is new comes after what was sent.      *)
LEMMA ReadStays ==
    ASSUME NEW old, NEW new, ReadOK(reader, old),
           \A s \in DOMAIN new \ DOMAIN old : new[s].t = "text" \/ ~(s <= reader.last)
    PROVE  ReadOK(reader, Appended(old, new))
<1> DEFINE at == Appended(old, new)
<1>1. /\ DOMAIN at = DOMAIN old \cup DOMAIN new
      /\ \A s \in DOMAIN old : at[s] = old[s]
      /\ \A s \in DOMAIN new \ DOMAIN old : at[s] = new[s]
    BY AppendedAt
<1> HIDE DEF at
<1>2. ASSUME NEW s \in DOMAIN at, s <= reader.last, at[s].t # "text" PROVE s \in reader.got
  <2>1. CASE s \in DOMAIN old
      BY <1>1, <1>2, <2>1 DEF ReadOK
  <2>2. CASE s \in DOMAIN new \ DOMAIN old
      BY <1>1, <1>2, <2>2
  <2> QED
      BY <1>1, <2>1, <2>2
<1>3. reader.last \in DOMAIN at \cup {0}
    BY <1>1 DEF ReadOK
<1> QED
    BY <1>2, <1>3 DEF ReadOK, at

(* The rows from an event that is not all shown yet on are not there.        *)
LEMMA NewIsLater ==
    ASSUME NEW rows, Follows(rows), NEW k \in 1..Len(Streams[1]), 1 \in Jobs,
           NEW s \in Seqs(Streams[1][k], k), s \notin rows,
           NEW last \in rows \cup {0}
    PROVE  ~(s <= last)
<1>1. Len(Streams[1]) \in Nat /\ Streams[1][k] \in Event /\ Len(Streams[1][k].done) < Stride
    BY StreamsAre
<1>2. Within(s, k)
    BY <1>1, SeqsWithin
<1>3. k \in Nat /\ k >= 1 /\ k * Stride \in Nat /\ Stride \in Nat \ {0}
    BY <1>1, StridesAre
<1>4. CASE last \in rows
  <2>1. PICK e \in 1..Len(Streams[1]) : Within(last, e) /\ Shown(rows, e)
      BY <1>4 DEF Follows
  <2>2. e < k
    <3> SUFFICES ASSUME ~(e < k) PROVE FALSE
        OBVIOUS
    <3>1. k \in 1..e
        BY <1>1, <1>3
    <3> QED
        BY <2>1, <3>1 DEF Shown
  <2>3. e \in Nat /\ e * Stride \in Nat
      BY <1>1, StridesAre
  <2>4. e * Stride + Stride <= k * Stride
      BY <2>2, <2>3, <1>3, Strides
  <2> QED
      BY <1>2, <1>3, <2>1, <2>3, <2>4 DEF Within
<1>5. CASE last = 0
  <2>1. 0 * Stride + Stride <= k * Stride
      BY <1>3, Strides
  <2>2. 0 * Stride = 0
      BY <1>3
  <2> QED
      BY <1>2, <1>3, <1>5, <2>1, <2>2 DEF Within
<1> QED
    BY <1>4, <1>5

LEMMA FollowPush == ASSUME Types, FollowInv, NEW v \in Viewers, Push(v) PROVE FollowInv'
<1> SUFFICES ASSUME row.job = 1, row.complete = "no", faults = 0
             PROVE  /\ Follows(DOMAIN lines')
                    /\ \A w \in Viewers : rec'[w].open = "yes" => Shown(DOMAIN lines', rec'[w].pos)
                    /\ ReadOK(reader, lines')
    BY DEF Push, FollowInv
<1> DEFINE k == rec[v].pos + 1
           new == Records(v, k)
<1>1. /\ rec[v] \in RecRecord /\ rec[v].open = "yes" /\ rec[v].job \in Jobs
      /\ k \in 1..Len(Streams[rec[v].job])
    BY NextEvent DEF Push
<1>2. rec[v].job = 1
  <2>1. rec[v].job <= 1
      BY <1>1 DEF Types, RecOK
  <2> QED
      BY <1>1, <2>1, StreamsAre
<1>3. 1 \in Jobs /\ k \in 1..Len(Streams[1]) /\ Len(Streams[1]) \in Nat
    BY <1>1, <1>2, StreamsAre
<1>4. /\ Follows(DOMAIN lines) /\ ReadOK(reader, lines)
      /\ \A w \in Viewers : rec[w].open = "yes" => Shown(DOMAIN lines, rec[w].pos)
    BY DEF FollowInv
<1>5. lines' = Appended(lines, new) /\ DOMAIN lines' = DOMAIN lines \cup Seqs(Streams[1][k], k)
  <2>1. lines' = Appended(lines, new)
      BY DEF Push
  <2>2. DOMAIN new = Seqs(Streams[1][k], k)
      BY <1>2, RecordsAt
  <2> HIDE DEF k, new
  <2> QED
      BY <2>1, <2>2 DEF Appended
<1>6. rec[v].pos \in Nat /\ k = rec[v].pos + 1
    BY <1>1 DEF RecRecord
<1>7. DOMAIN new = Seqs(Streams[1][k], k)
    BY <1>2, RecordsAt
<1> HIDE DEF k, new
<1>8. Shown(DOMAIN lines', k)
  <2>1. Shown(DOMAIN lines', rec[v].pos)
      BY <1>1, <1>4, <1>5, ShownGrows
  <2>2. \A i \in 1..k : i = k \/ i \in 1..rec[v].pos
      BY <1>6
  <2> QED
      BY <1>5, <2>1, <2>2 DEF Shown
<1>9. Follows(DOMAIN lines')
  <2> SUFFICES ASSUME NEW s \in DOMAIN lines'
               PROVE  \E e \in 1..Len(Streams[1]) : Within(s, e) /\ Shown(DOMAIN lines', e)
      BY DEF Follows
  <2>1. CASE s \in DOMAIN lines
    <3>1. PICK e \in 1..Len(Streams[1]) : Within(s, e) /\ Shown(DOMAIN lines, e)
        BY <1>4, <2>1 DEF Follows
    <3> QED
        BY <1>5, <3>1, ShownGrows
  <2>2. CASE s \in Seqs(Streams[1][k], k)
    <3>1. Streams[1][k] \in Event /\ Len(Streams[1][k].done) < Stride
        BY <1>3, StreamsAre
    <3>2. k \in Nat
        BY <1>6
    <3> HIDE DEF Within
    <3>3. \A r \in Seqs(Streams[1][k], k) : Within(r, k)
        BY <3>1, <3>2, SeqsWithin
    <3> QED
        BY <1>3, <1>8, <2>2, <3>3
  <2> QED
      BY <1>5, <2>1, <2>2
<1>10. \A w \in Viewers : rec'[w].open = "yes" => Shown(DOMAIN lines', rec'[w].pos)
  <2>1. PICK r : RecMoves(v, r) /\ r.pos = k
      BY <1>6, PushedMoves DEF Push
  <2>2. \A w \in Viewers : rec'[w] = r \/ rec'[w] = rec[w]
      BY <2>1 DEF RecMoves, Types
  <2> QED
      BY <1>4, <1>5, <1>8, <2>1, <2>2, ShownGrows
<1>11. ReadOK(reader, lines')
  <2>1. reader.last \in DOMAIN lines \cup {0}
      BY <1>4 DEF ReadOK
  <2>2. \A s \in DOMAIN new \ DOMAIN lines : ~(s <= reader.last)
      BY <1>3, <1>4, <1>7, <2>1, NewIsLater
  <2> QED
      BY <1>4, <1>5, <2>2, ReadStays
<1> QED
    BY <1>9, <1>10, <1>11

(* A closing recorder's fragment is a row of an event that is shown.         *)
LEMMA FollowLeave == ASSUME Types, FollowInv, NEW v \in Viewers, Leave(v) PROVE FollowInv'
<1> SUFFICES ASSUME row.job = 1, row.complete = "no", faults = 0
             PROVE  /\ Follows(DOMAIN lines')
                    /\ \A w \in Viewers : rec'[w].open = "yes" => Shown(DOMAIN lines', rec'[w].pos)
                    /\ ReadOK(reader, lines')
    BY DEF Leave, FollowInv
<1>1. /\ Follows(DOMAIN lines) /\ ReadOK(reader, lines)
      /\ \A w \in Viewers : rec[w].open = "yes" => Shown(DOMAIN lines, rec[w].pos)
    BY DEF FollowInv
<1>2. rec[v] \in RecRecord /\ rec[v].open = "yes" /\ RecOK(rec[v], row.job) /\ rec[v].job \in Jobs
    BY DEF Leave, Types, RecRecord
<1>3. rec[v].job = 1
    BY <1>2, StreamsAre DEF RecOK
<1>4. \A w \in Viewers : rec'[w].open = "yes" => rec'[w] = rec[w] /\ rec[w].open = "yes"
  <2>1. rec' = [rec EXCEPT ![v] = Idle] /\ Idle.open = "no"
      BY DEF Leave, Idle
  <2> QED
      BY <2>1 DEF Types
<1>5. CASE rec[v].buffer = "none"
    BY <1>1, <1>4, <1>5 DEF Leave
<1>6. CASE rec[v].buffer # "none"
  <2> DEFINE p == rec[v].pos
             q == p * Stride + Stride - 1
             new == [s \in {q} |-> Fragment(rec[v].buffer)]
  <2>1. p \in 1..Len(Streams[1]) /\ rec[v].base = p * Stride /\ Len(Streams[1]) \in Nat
    <3>1. p \in Nat
        BY <1>2 DEF RecRecord
    <3> QED
        BY <1>2, <1>3, <1>6, <3>1, StreamsAre DEF RecOK
  <2>2. lines' = Appended(lines, new)
      BY <1>6, <2>1 DEF Leave
  <2>3. new[q].t = "text" /\ DOMAIN new = {q}
      BY DEF Fragment
  <2>4. Within(q, p)
    <3> DEFINE base == p * Stride
    <3>1. base \in Nat /\ Stride \in Nat \ {0}
        BY <2>1, StridesAre
    <3> HIDE DEF base
    <3>2. base + Stride - 1 \in Nat /\ base <= base + Stride - 1 /\ base + Stride - 1 < base + Stride
        BY <3>1
    <3> QED
        BY <3>2 DEF Within, base
  <2> HIDE DEF q, new
  <2>5. DOMAIN lines' = DOMAIN lines \cup {q}
      BY <2>2, <2>3 DEF Appended
  <2>6. \A n : Shown(DOMAIN lines, n) => Shown(DOMAIN lines', n)
      BY <2>5, ShownGrows
  <2>7. Follows(DOMAIN lines')
    <3> SUFFICES ASSUME NEW s \in DOMAIN lines'
                 PROVE  \E e \in 1..Len(Streams[1]) : Within(s, e) /\ Shown(DOMAIN lines', e)
        BY DEF Follows
    <3>1. CASE s \in DOMAIN lines
        BY <1>1, <2>6, <3>1 DEF Follows
    <3>2. CASE s = q
        BY <1>1, <1>2, <2>1, <2>4, <2>6, <3>2
    <3> QED
        BY <2>5, <3>1, <3>2
  <2>8. ReadOK(reader, lines')
    <3>1. \A s \in DOMAIN new \ DOMAIN lines : new[s].t = "text"
        BY <2>3
    <3> QED
        BY <1>1, <2>2, <3>1, ReadStays
  <2> QED
      BY <1>1, <1>4, <2>6, <2>7, <2>8
<1> QED
    BY <1>5, <1>6

LEMMA FollowSend == ASSUME Types, FollowInv, SendLines PROVE FollowInv'
<1> SUFFICES ASSUME row.job = 1, row.complete = "no", faults = 0 PROVE ReadOK(reader', lines)
    BY DEF SendLines, FollowInv
<1> DEFINE old == reader.last
           page == Page(old)
           sent1 == page \cup {old}
<1>1. Follows(DOMAIN lines) /\ ReadOK(reader, lines)
    BY DEF FollowInv
<1>2. reader'.last = Greatest(sent1) /\ reader'.got = reader.got \cup page
    BY DEF SendLines
<1>3. DOMAIN lines \in SUBSET Nat /\ old \in Nat /\ old \in DOMAIN lines \cup {0}
    BY <1>1 DEF Follows, Within, ReadOK
<1>4. 1 \in Jobs
    BY StreamsAre DEF Types, RowRecord
<1>5. \E b \in Nat : \A s \in DOMAIN lines : s <= b
  <2>1. Len(Streams[1]) \in Nat /\ Len(Streams[1]) + 1 \in Nat
      BY <1>4, StreamsAre
  <2>2. ASSUME NEW s \in DOMAIN lines PROVE s <= (Len(Streams[1]) + 1) * Stride
    <3>1. PICK e \in 1..Len(Streams[1]) : Within(s, e)
        BY <1>1 DEF Follows
    <3>2. e \in Nat /\ e < Len(Streams[1]) + 1
        BY <2>1
    <3>3. e * Stride + Stride <= (Len(Streams[1]) + 1) * Stride
        BY <2>1, <3>2, Strides
    <3>4. e * Stride \in Nat /\ Stride \in Nat /\ (Len(Streams[1]) + 1) * Stride \in Nat
        BY <2>1, <3>2, StridesAre
    <3> DEFINE ae == e * Stride
               all == (Len(Streams[1]) + 1) * Stride
    <3>5. s < ae + Stride /\ s \in Nat /\ ae + Stride <= all /\ ae \in Nat /\ all \in Nat
        BY <3>1, <3>3, <3>4 DEF Within
    <3> HIDE DEF ae, all
    <3>6. s <= all
        BY <3>4, <3>5
    <3> QED
        BY <3>6 DEF all
  <2>3. (Len(Streams[1]) + 1) * Stride \in Nat
      BY <2>1, StridesAre
  <2> QED
      BY <2>2, <2>3
<1>6. page \in SUBSET DOMAIN lines
    BY DEF Page, After
<1>7. /\ Greatest(sent1) \in sent1 /\ Greatest(sent1) \in Nat
      /\ \A s \in sent1 : s <= Greatest(sent1)
  <2>1. PICK b \in Nat : \A s \in DOMAIN lines : s <= b
      BY <1>5
  <2>2. sent1 \in SUBSET Nat /\ \A s \in sent1 : s <= b + old
      BY <1>3, <1>6, <2>1
  <2>3. b + old \in Nat
      BY <1>3
  <2> HIDE DEF sent1
  <2>4. /\ Greatest(sent1) \in sent1 \cup {0} /\ Greatest(sent1) \in Nat
        /\ \A s \in sent1 : s <= Greatest(sent1)
      BY <2>2, <2>3, GreatestIs
  <2>5. old \in sent1
      BY DEF sent1
  <2>6. Greatest(sent1) = 0 => old = 0
      BY <1>3, <2>4, <2>5
  <2> QED
      BY <2>4, <2>5, <2>6
<1>8. ASSUME NEW s \in DOMAIN lines, s <= Greatest(sent1), lines[s].t # "text"
      PROVE  s \in reader.got \cup page
  <2>1. CASE s <= old
      BY <1>1, <1>8, <2>1 DEF ReadOK
  <2>2. CASE ~(s <= old)
    <3>1. s \in Nat /\ s > old /\ s \in After(old)
        BY <1>3, <1>8, <2>2 DEF After
    <3>2. Greatest(sent1) \in page
        BY <1>3, <1>7, <1>8, <2>2, <3>1
    <3>3. Below(After(old), Greatest(sent1)) < PageSize
        BY <3>2 DEF Page
    <3>4. After(old) \in SUBSET Nat
        BY <1>3 DEF After
    <3>5. Below(After(old), s) <= Below(After(old), Greatest(sent1))
        BY <1>7, <1>8, <3>1, <3>4, BelowGrows
    <3>6. Below(After(old), s) \in Nat /\ Below(After(old), Greatest(sent1)) \in Nat /\ PageSize \in Nat
        BY <1>7, <3>1, <3>4, BelowIs, SessionLogAssumption
    <3>7. Below(After(old), s) < PageSize
        BY <3>3, <3>5, <3>6
    <3> QED
        BY <3>1, <3>7 DEF Page
  <2> QED
      BY <2>1, <2>2
<1>9. Greatest(sent1) \in DOMAIN lines \cup {0}
    BY <1>3, <1>6, <1>7
<1>10. reader' \in ReaderRecord
  <2>1. reader.got \cup page \in SUBSET Nat
      BY <1>1, <1>3, <1>6 DEF ReadOK, ReaderRecord
  <2>2. reader' = [pc |-> "row", last |-> Greatest(sent1), got |-> reader.got \cup page]
      BY DEF SendLines
  <2> QED
      BY <1>7, <2>1, <2>2 DEF ReaderRecord
<1> HIDE DEF page, sent1
<1> QED
    BY <1>2, <1>8, <1>9, <1>10 DEF ReadOK

LEMMA FollowNext == Types /\ FollowInv /\ [Next]_vars => FollowInv'
<1> SUFFICES ASSUME Types, FollowInv, [Next]_vars PROVE FollowInv'
    OBVIOUS
<1>1. ASSUME NEW v \in Viewers, Connect(v) PROVE FollowInv'
  <2> SUFFICES ASSUME row.job = 1, row.complete = "no", faults = 0
               PROVE  \A w \in Viewers : rec'[w].open = "yes" => Shown(DOMAIN lines, rec'[w].pos)
      BY <1>1 DEF Connect, FollowInv
  <2> DEFINE r == [Idle EXCEPT !.open = "yes", !.job = row.job]
  <2>1. r.pos = 0 /\ \A w \in Viewers : rec'[w] = r \/ rec'[w] = rec[w]
      BY <1>1 DEF Connect, Types, Idle
  <2> HIDE DEF r
  <2>2. Shown(DOMAIN lines, 0)
      BY DEF Shown
  <2> QED
      BY <2>1, <2>2 DEF FollowInv
<1>2. ASSUME \E v \in Viewers : PushFails(v) PROVE FollowInv'
    BY <1>2 DEF PushFails, FollowInv, Types
<1>3. ASSUME EndFails PROVE FollowInv'
    BY <1>3 DEF EndFails, FollowInv, Types
<1>4. ASSUME Emit \/ EndRead \/ ProofRead PROVE FollowInv'
    BY <1>4 DEF Emit, EndRead, ProofRead, FollowInv
<1>5. ASSUME EndWrite PROVE FollowInv'
  <2>1. row'.complete = "yes"
      BY <1>5 DEF EndWrite, Completed, Types, RowRecord
  <2> QED
      BY <2>1 DEF FollowInv
<1>6. ASSUME ProofWrite PROVE FollowInv'
    BY <1>6 DEF ProofWrite, FollowInv, Types
<1>7. ASSUME NextJob PROVE FollowInv'
  <2>1. row'.job = row.job + 1 /\ row.job \in Nat /\ row.job >= 1
      BY <1>7, StreamsAre DEF NextJob, Types, RowRecord
  <2> QED
      BY <2>1 DEF FollowInv
<1>8. ASSUME Retain PROVE FollowInv'
  <2>1. row'.complete = "yes"
      BY <1>8 DEF Retain, Types, RowRecord
  <2> QED
      BY <2>1 DEF FollowInv
<1>9. ASSUME ReadRow \/ Reconnect PROVE FollowInv'
  <2> SUFFICES ASSUME row.job = 1, row.complete = "no", faults = 0, ReadOK(reader, lines)
               PROVE  ReadOK(reader', lines)
      BY <1>9 DEF ReadRow, Reconnect, FollowInv
  <2>1. reader' \in ReaderRecord /\ reader'.last = reader.last /\ reader'.got = reader.got
      BY <1>9 DEF ReadRow, Reconnect, ReadOK, ReaderRecord
  <2> QED
      BY <2>1 DEF ReadOK
<1>10. ASSUME UNCHANGED vars PROVE FollowInv'
    BY <1>10 DEF vars, FollowInv, ReadOK
<1> QED
    BY <1>1, <1>2, <1>3, <1>4, <1>5, <1>6, <1>7, <1>8, <1>9, <1>10, FollowPush, FollowLeave, FollowSend DEF Next

(* Whoever writes the rows, in whatever order they connect, read, leave in   *)
(* the middle of a line and come again: while no statement failed and until  *)
(* the session is completed, a reader that polls by seq (http/task-events.js)*)
(* misses no whole line.                                                     *)
THEOREM ReaderMissesNothing == Spec => []ReaderFollows
<1>1. Init => FollowInv
  <2> SUFFICES ASSUME Init PROVE FollowInv
      OBVIOUS
  <2>1. DOMAIN lines = {} /\ reader.last = 0 /\ reader \in ReaderRecord
      BY DEF Init, Nothing, ReaderRecord
  <2>2. \A v \in Viewers : rec[v].open = "no"
      BY DEF Init, Idle
  <2> QED
      BY <2>1, <2>2 DEF FollowInv, Follows, ReadOK
<1>2. FollowInv => ReaderFollows
    BY DEF FollowInv, ReadOK, ReaderFollows
<1> QED
    BY <1>1, <1>2, TypesInitial, TypesNext, FollowNext, PTL DEF Spec

-----------------------------------------------------------------------------
(* Where the rows are.  A line of the harness is at one of the first seqs of *)
(* an event or at the last one, any other row at the first; so what follows  *)
(* the last line of the harness is free, but for the marker of an event.     *)

HarnessTypes == {"line", "text", "proof"}

RowOK(s, b, n) ==
    \E k \in Nat, o \in 0..(Stride - 1) :
        /\ s = k * Stride + o
        /\ b.t \in HarnessTypes => o <= n \/ o = Stride - 1
        /\ b.t \notin HarnessTypes => o = 0

Shaped(rows, n) == \A s \in DOMAIN rows : RowOK(s, rows[s], n)

Bounded(S) == \E b \in Nat : \A s \in S : s <= b

LEMMA HarnessIs == ASSUME NEW rows, NEW s PROVE s \in Harness(rows) <=> s \in DOMAIN rows /\ rows[s].t \in HarnessTypes
    BY DEF Harness, HarnessTypes

LEMMA SeqIs == ASSUME NEW k \in Nat, NEW o \in Nat PROVE k * Stride + o \in Nat
    BY StridesAre

LEMMA RowIsNat == ASSUME NEW s, NEW b, NEW n, RowOK(s, b, n) PROVE s \in Nat
<1>1. PICK k \in Nat, o \in 0..(Stride - 1) : s = k * Stride + o
    BY DEF RowOK
<1>2. o \in Nat
    BY <1>1, StridesAre
<1> QED
    BY <1>1, <1>2, SeqIs

(* A seq is at one place of one event.                                       *)
LEMMA OnePlace ==
    ASSUME NEW k \in Nat, NEW l \in Nat, NEW o \in 0..(Stride - 1), NEW p \in 0..(Stride - 1),
           k * Stride + o = l * Stride + p
    PROVE  o = p
<1> DEFINE a == k * Stride
           b == l * Stride
<1>1. a \in Nat /\ b \in Nat /\ Stride \in Nat \ {0}
    BY StridesAre
<1>2. k < l => a + Stride <= b
    BY Strides
<1>3. l < k => b + Stride <= a
    BY Strides
<1>4. k = l => a = b
    OBVIOUS
<1>5. k < l \/ l < k \/ k = l
    OBVIOUS
<1>6. a + o = b + p
    OBVIOUS
<1> HIDE DEF a, b
<1> QED
    BY <1>1, <1>2, <1>3, <1>4, <1>5, <1>6

LEMMA BoundedIsFinite == ASSUME NEW S \in SUBSET Nat, Bounded(S) PROVE IsFiniteSet(S)
<1>1. PICK b \in Nat : \A s \in S : s <= b
    BY DEF Bounded
<1>2. S \in SUBSET (0..b)
  <2>1. \A s \in S : s \in 0..b
      BY <1>1
  <2> QED
      BY <2>1, Zenon
<1>3. IsFiniteSet(0..b)
    BY <1>1, FS_Interval
<1> QED
    BY <1>2, <1>3, FS_Subset

LEMMA BoundedTogether == ASSUME NEW S \in SUBSET Nat, NEW T \in SUBSET Nat, Bounded(S), Bounded(T) PROVE Bounded(S \cup T)
<1>1. PICK b \in Nat : \A s \in S : s <= b
    BY DEF Bounded
<1>2. PICK c \in Nat : \A s \in T : s <= c
    BY DEF Bounded
<1>3. \A s \in S \cup T : s <= b + c
    BY <1>1, <1>2
<1>4. b + c \in Nat
    BY <1>1, <1>2
<1> QED
    BY <1>3, <1>4 DEF Bounded

LEMMA ShapedAppend ==
    ASSUME NEW old, NEW new, NEW n \in Nat, NEW w \in Nat, n <= w, Shaped(old, n), Shaped(new, w)
    PROVE  Shaped(Appended(old, new), w)
<1>1. \A s \in DOMAIN old : RowOK(s, old[s], w)
  <2> SUFFICES ASSUME NEW s \in DOMAIN old PROVE RowOK(s, old[s], w)
      OBVIOUS
  <2>1. PICK k \in Nat, o \in 0..(Stride - 1) :
            /\ s = k * Stride + o
            /\ old[s].t \in HarnessTypes => o <= n \/ o = Stride - 1
            /\ old[s].t \notin HarnessTypes => o = 0
      BY DEF Shaped, RowOK
  <2>2. o <= n => o <= w
      BY <2>1, StridesAre
  <2> QED
      BY <2>1, <2>2 DEF RowOK
<1> QED
    BY <1>1 DEF Shaped, Appended

(* The first free seq after the last line of the harness.                    *)
LEMMA FreeAfterHarness ==
    ASSUME NEW rows, NEW u \in Nat, u + 1 < Stride, Shaped(rows, u), Bounded(DOMAIN rows)
    PROVE  LET g == Greatest(Harness(rows))
               f == FirstFree(rows, g + 1)
           IN  /\ f \in Nat /\ f > g /\ f \notin DOMAIN rows
               /\ \E k \in Nat : \E o \in 0..(u + 1) : f = k * Stride + o
               /\ \A k \in Nat : \A o \in 1..(Stride - 1) : k * Stride + o > g => k * Stride + o \notin DOMAIN rows
<1> DEFINE g == Greatest(Harness(rows))
           card == Cardinality(DOMAIN rows)
           f == FirstFree(rows, g + 1)
<1>1. DOMAIN rows \in SUBSET Nat
    BY RowIsNat DEF Shaped
<1>2. Harness(rows) \in SUBSET DOMAIN rows
    BY DEF Harness
<1>3. g \in Harness(rows) \cup {0} /\ g \in Nat /\ \A s \in Harness(rows) : s <= g
  <2>1. PICK b \in Nat : \A s \in Harness(rows) : s <= b
      BY <1>2 DEF Bounded
  <2>2. Harness(rows) \in SUBSET Nat
      BY <1>1, <1>2
  <2> QED
      BY <2>1, <2>2, GreatestIs
<1>4. card \in Nat /\ IsFiniteSet(DOMAIN rows)
    BY <1>1, BoundedIsFinite, FS_CardinalityType
<1> HIDE DEF g, card
<1>5. \A k \in Nat : \A o \in 1..(Stride - 1) : k * Stride + o > g => k * Stride + o \notin DOMAIN rows
  <2> SUFFICES ASSUME NEW k \in Nat, NEW o \in 1..(Stride - 1), k * Stride + o > g, k * Stride + o \in DOMAIN rows
               PROVE  FALSE
      OBVIOUS
  <2> DEFINE s == k * Stride + o
  <2>1. s \in DOMAIN rows /\ s \in Nat /\ s > g
      BY <1>1
  <2>2. PICK l \in Nat, p \in 0..(Stride - 1) : s = l * Stride + p /\ (rows[s].t \notin HarnessTypes => p = 0)
      BY <2>1 DEF Shaped, RowOK
  <2>3. o \in 0..(Stride - 1) /\ o # 0
      BY StridesAre
  <2>4. o = p
      BY <2>2, <2>3, OnePlace
  <2> HIDE DEF s
  <2>5. s \in Harness(rows)
      BY <2>1, <2>2, <2>3, <2>4, HarnessIs
  <2> QED
      BY <1>3, <2>1, <2>5
<1>6. PICK k \in Nat, o \in 0..(Stride - 1) : g = k * Stride + o /\ (o <= u \/ o = Stride - 1)
  <2>1. CASE g \in Harness(rows)
    <3>1. g \in DOMAIN rows /\ rows[g].t \in HarnessTypes
        BY <2>1, HarnessIs
    <3> QED
        BY <3>1 DEF Shaped, RowOK
  <2>2. CASE g = 0
    <3>1. 0 * Stride + 0 = 0 /\ 0 \in 0..(Stride - 1)
        BY StridesAre
    <3> QED
        BY <2>2, <3>1
  <2> QED
      BY <1>3, <2>1, <2>2
<1>7. ASSUME NEW s \in (g + 1)..(g + 1 + card), s \notin DOMAIN rows, \A r \in (g + 1)..(s - 1) : r \in DOMAIN rows
      PROVE  f = s
  <2> DEFINE P(t) == t \notin DOMAIN rows /\ \A r \in (g + 1)..(t - 1) : r \in DOMAIN rows
  <2>1. f \in (g + 1)..(g + 1 + card) /\ P(f)
    <3>1. f = CHOOSE t \in (g + 1)..(g + 1 + card) : P(t)
        BY DEF FirstFree, card
    <3>2. \E t \in (g + 1)..(g + 1 + card) : P(t)
        BY <1>7
    <3> HIDE DEF P
    <3> QED
        BY <3>1, <3>2
  <2>2. s \in Nat /\ f \in Nat
      BY <1>3, <1>4, <2>1
  <2>3. ~(s < f)
    <3> SUFFICES ASSUME s < f PROVE FALSE
        OBVIOUS
    <3>1. s \in (g + 1)..(f - 1)
        BY <1>3, <1>4, <2>2
    <3> QED
        BY <1>7, <2>1, <3>1
  <2>4. ~(f < s)
    <3> SUFFICES ASSUME f < s PROVE FALSE
        OBVIOUS
    <3>1. f \in (g + 1)..(s - 1)
        BY <1>3, <1>4, <2>1, <2>2
    <3> QED
        BY <1>7, <2>1, <3>1
  <2> QED
      BY <2>2, <2>3, <2>4
<1>8. g + 1 \notin DOMAIN rows => f = g + 1
  <2> SUFFICES ASSUME g + 1 \notin DOMAIN rows PROVE f = g + 1
      OBVIOUS
  <2>1. g + 1 \in (g + 1)..(g + 1 + card)
      BY <1>3, <1>4
  <2>2. \A r \in (g + 1)..(g + 1 - 1) : r \in DOMAIN rows
      BY <1>3
  <2> QED
      BY <1>7, <2>1, <2>2
<1> DEFINE at == k * Stride
           l == k + 1
           next == l * Stride
<1>9. at \in Nat /\ next \in Nat /\ next = at + Stride /\ l \in Nat /\ Stride \in Nat \ {0}
    BY <1>6, StridesAre
<1>10. CASE o <= u
  <2>1. o + 1 \in 1..(Stride - 1) /\ o + 1 \in 0..(u + 1)
      BY <1>9, <1>10
  <2>2. g + 1 = k * Stride + (o + 1)
      BY <1>6, <1>9
  <2>3. g + 1 \notin DOMAIN rows
      BY <1>3, <1>5, <1>6, <2>1, <2>2
  <2> QED
      BY <1>3, <1>5, <1>6, <1>8, <2>1, <2>2, <2>3 DEF g
<1>11. CASE o = Stride - 1
  <2> HIDE DEF l
  <2>1. g + 1 = next + 0 /\ g + 2 = next + 1
      BY <1>6, <1>9, <1>11
  <2>2. 0 \in 0..(u + 1) /\ 1 \in 0..(u + 1) /\ 1 \in 1..(Stride - 1)
      BY <1>9
  <2>3. g + 2 \notin DOMAIN rows
    <3>1. l * Stride + 1 > g
        BY <1>3, <2>1
    <3> QED
        BY <1>5, <1>9, <2>1, <2>2, <3>1
  <2>4. CASE g + 1 \notin DOMAIN rows
    <3>1. f = l * Stride + 0
        BY <1>8, <2>1, <2>4
    <3>2. f > g /\ f \in Nat /\ f \notin DOMAIN rows
        BY <1>3, <1>8, <2>4
    <3> QED
        BY <1>5, <1>9, <2>2, <3>1, <3>2 DEF g
  <2>5. CASE g + 1 \in DOMAIN rows
    <3>1. card # 0
      <4>1. DOMAIN rows # {}
          BY <2>5
      <4> QED
          BY <1>4, <4>1, FS_EmptySet DEF card
    <3>2. g + 2 \in (g + 1)..(g + 1 + card)
        BY <1>3, <1>4, <3>1
    <3>3. f = g + 2
      <4> DEFINE t == g + 2
      <4>1. t \in (g + 1)..(g + 1 + card)
          BY <3>2
      <4>2. t \notin DOMAIN rows
          BY <2>3
      <4>3. \A r \in (g + 1)..(t - 1) : r \in DOMAIN rows
        <5>1. \A r \in (g + 1)..(t - 1) : r = g + 1
            BY <1>3
        <5> QED
            BY <2>5, <5>1
      <4> HIDE DEF t
      <4>4. f = t
          BY <1>7, <4>1, <4>2, <4>3
      <4> QED
          BY <4>4 DEF t
    <3>4. f = l * Stride + 1 /\ f > g /\ f \in Nat /\ f \notin DOMAIN rows
        BY <1>3, <2>1, <2>3, <3>3
    <3> QED
        BY <1>5, <1>9, <2>2, <3>4 DEF g
  <2> QED
      BY <2>4, <2>5
<1> QED
    BY <1>6, <1>10, <1>11

(* The back-fill: each missing line gets a seq of its own where no row is,   *)
(* and all lines of the log are then among the rows.                         *)
LEMMA BackfillShows ==
    ASSUME NEW rows, NEW u \in Nat, NEW w \in Nat, NEW log \in Seq(Contents),
           u + Len(log) <= w, w + 1 < Stride, Shaped(rows, u), Bounded(DOMAIN rows),
           NEW m \in [DOMAIN log -> {0} \cup Harness(rows)], Matches(rows, log, m)
    PROVE  LET new == Backfilled(rows, log, m)
           IN  /\ Shaped(new, w) /\ Bounded(DOMAIN new)
               /\ \A s \in DOMAIN new : s \notin DOMAIN rows
               /\ \A i \in DOMAIN log : \/ \E s \in DOMAIN rows : rows[s] = Line(log[i])
                                        \/ \E s \in DOMAIN new : new[s] = Line(log[i])
<1> DEFINE g == Greatest(Harness(rows))
           f == FirstFree(rows, g + 1)
           miss == Missing(m)
           at(i) == f + Below(miss, i)
           new == Backfilled(rows, log, m)
<1>1. DOMAIN log = 1..Len(log) /\ Len(log) \in Nat /\ DOMAIN m = DOMAIN log
    OBVIOUS
<1>2. miss \in SUBSET (1..Len(log)) /\ miss \in SUBSET Nat /\ \A i \in DOMAIN log : i \in miss <=> m[i] = 0
    BY <1>1 DEF Missing
<1>3. u + 1 < Stride
    BY <1>1, StridesAre
<1>4. /\ f \in Nat /\ f > g /\ f \notin DOMAIN rows
      /\ \E k \in Nat : \E o \in 0..(u + 1) : f = k * Stride + o
      /\ \A k \in Nat : \A o \in 1..(Stride - 1) : k * Stride + o > g => k * Stride + o \notin DOMAIN rows
    BY <1>3, FreeAfterHarness
<1>5. g \in Nat
  <2>1. DOMAIN rows \in SUBSET Nat /\ Harness(rows) \in SUBSET DOMAIN rows
      BY RowIsNat DEF Shaped, Harness
  <2>2. PICK b \in Nat : \A s \in Harness(rows) : s <= b
      BY <2>1 DEF Bounded
  <2>3. Harness(rows) \in SUBSET Nat
      BY <2>1
  <2> QED
      BY <2>2, <2>3, GreatestIs
<1>6. \A i : Place(rows, m, i) = at(i)
    BY DEF Place
<1> HIDE DEF g, f, miss
<1>7. \A i \in miss : Below(miss, i) \in Nat /\ Below(miss, i) < Len(log)
  <2> SUFFICES ASSUME NEW i \in miss PROVE Below(miss, i) \in Nat /\ Below(miss, i) < Len(log)
      OBVIOUS
  <2>1. i \in Nat /\ 1 <= i /\ i <= Len(log)
      BY <1>1, <1>2
  <2>2. {r \in miss : r < i} \in SUBSET (1..(i - 1))
    <3>1. \A r \in miss : r < i => r \in 1..(i - 1)
        BY <1>1, <1>2, <2>1
    <3> QED
        BY <3>1, Zenon
  <2>3. IsFiniteSet(1..(i - 1)) /\ Cardinality(1..(i - 1)) = i - 1
    <3> DEFINE j == i - 1
    <3>1. j \in Nat /\ 1 \in Int /\ j \in Int
        BY <2>1
    <3> HIDE DEF j
    <3>2. IsFiniteSet(1..j) /\ Cardinality(1..j) = IF 1 > j THEN 0 ELSE j - 1 + 1
        BY <3>1, FS_Interval
    <3>3. Cardinality(1..j) = j
        BY <3>1, <3>2
    <3> QED
        BY <3>2, <3>3 DEF j
  <2>4. Below(miss, i) <= i - 1
    <3>1. Cardinality({r \in miss : r < i}) <= Cardinality(1..(i - 1))
        BY <2>2, <2>3, FS_Subset
    <3> QED
        BY <2>3, <3>1 DEF Below
  <2>5. Below(miss, i) \in Nat
      BY <1>2, <2>1, BelowIs
  <2> QED
      BY <1>1, <2>1, <2>4, <2>5
<1>8. \A i, j \in miss : at(i) = at(j) => i = j
  <2> SUFFICES ASSUME NEW i \in miss, NEW j \in miss, at(i) = at(j) PROVE i = j
      OBVIOUS
  <2>1. i \in Nat /\ j \in Nat
      BY <1>2
  <2>2. i < j => Below(miss, i) < Below(miss, j)
      BY <1>2, <2>1, BelowCounts
  <2>3. j < i => Below(miss, j) < Below(miss, i)
      BY <1>2, <2>1, BelowCounts
  <2>4. Below(miss, i) = Below(miss, j)
      BY <1>4, <1>7
  <2> QED
      BY <1>7, <2>1, <2>2, <2>3, <2>4
<1>9. DOMAIN new = {at(i) : i \in miss}
    BY <1>6 DEF Backfilled, miss
<1>10. \A i \in miss : new[at(i)] = Line(log[i])
  <2> SUFFICES ASSUME NEW i \in miss PROVE new[at(i)] = Line(log[i])
      OBVIOUS
  <2>1. at(i) \in DOMAIN new
      BY <1>9
  <2>2. new[at(i)] = Line(log[CHOOSE j \in miss : at(j) = at(i)])
      BY <1>6, <2>1 DEF Backfilled, miss
  <2>3. (CHOOSE j \in miss : at(j) = at(i)) = i
      BY <1>8
  <2> QED
      BY <2>2, <2>3
<1> HIDE DEF new
<1>11. PICK k \in Nat, o \in 0..(u + 1) : f = k * Stride + o
    BY <1>4
<1>12. \A i \in miss : /\ at(i) = k * Stride + (o + Below(miss, i)) /\ o + Below(miss, i) \in 0..(Stride - 1)
                       /\ o + Below(miss, i) <= w /\ at(i) \in Nat /\ at(i) >= f
  <2> SUFFICES ASSUME NEW i \in miss
               PROVE  /\ at(i) = k * Stride + (o + Below(miss, i)) /\ o + Below(miss, i) \in 0..(Stride - 1)
                      /\ o + Below(miss, i) <= w /\ at(i) \in Nat /\ at(i) >= f
      OBVIOUS
  <2> DEFINE base == k * Stride
             more == Below(miss, i)
  <2>1. base \in Nat /\ more \in Nat /\ more < Len(log) /\ Stride \in Nat /\ o \in Nat /\ o <= u + 1 /\ f = base + o
      BY <1>7, <1>11, StridesAre
  <2> HIDE DEF base, more
  <2>2. f + more = base + (o + more) /\ o + more \in 0..(Stride - 1) /\ o + more <= w /\ f + more \in Nat /\ f + more >= f
      BY <1>1, <2>1
  <2> QED
      BY <2>2 DEF base, more
<1>13. \A i \in miss : RowOK(at(i), Line(log[i]), w) /\ at(i) \notin DOMAIN rows
  <2> SUFFICES ASSUME NEW i \in miss PROVE RowOK(at(i), Line(log[i]), w) /\ at(i) \notin DOMAIN rows
      OBVIOUS
  <2> DEFINE p == o + Below(miss, i)
             q == at(i)
  <2>1. q = k * Stride + p /\ p \in 0..(Stride - 1) /\ p <= w /\ q \in Nat /\ q >= f
      BY <1>12
  <2>2. q = f \/ p \in 1..(Stride - 1)
    <3>1. Below(miss, i) \in Nat /\ o \in Nat /\ Stride \in Nat
        BY <1>7, <1>11, StridesAre
    <3>2. p = 0 => Below(miss, i) = 0
        BY <3>1
    <3>3. p = 0 => q = f
        BY <1>4, <3>2
    <3> QED
        BY <2>1, <3>1, <3>3
  <2> HIDE DEF p, q
  <2>3. q > g
      BY <1>4, <1>5, <2>1
  <2>4. q \notin DOMAIN rows
      BY <1>4, <2>1, <2>2, <2>3
  <2>5. Line(log[i]).t \in HarnessTypes
      BY DEF Line, HarnessTypes
  <2>6. RowOK(q, Line(log[i]), w)
      BY <2>1, <2>5 DEF RowOK
  <2> QED
      BY <2>4, <2>6 DEF q
<1> HIDE DEF at
<1>14. Shaped(new, w) /\ \A s \in DOMAIN new : s \notin DOMAIN rows
    BY <1>9, <1>10, <1>13 DEF Shaped
<1>15. Bounded(DOMAIN new)
  <2>1. \A i \in miss : at(i) <= f + Len(log)
      BY <1>1, <1>4, <1>7 DEF at
  <2>2. f + Len(log) \in Nat
      BY <1>1, <1>4
  <2> QED
      BY <1>9, <2>1, <2>2 DEF Bounded
<1>16. ASSUME NEW i \in DOMAIN log
       PROVE  \/ \E s \in DOMAIN rows : rows[s] = Line(log[i])
              \/ \E s \in DOMAIN new : new[s] = Line(log[i])
  <2>1. CASE m[i] = 0
      BY <1>2, <1>9, <1>10, <2>1
  <2>2. CASE m[i] # 0
    <3>1. m[i] \in Hits(rows, log, m, i)
        BY <2>2 DEF Matches
    <3> QED
        BY <3>1 DEF Hits, Harness
  <2> QED
      BY <2>1, <2>2
<1> QED
    BY <1>14, <1>15, <1>16 DEF new

-----------------------------------------------------------------------------
(* The refinement.  While a result may still be reconciled, the rows there   *)
(* are, and those the back-fill has read of them, are shaped as it needs     *)
(* them, with the room the jobs so far have used; and what is stored goes on *)
(* from what it read.                                                        *)

Used == CHOOSE used \in [0..Len(Streams) -> 0..Stride] : FitsIn(used)
JobsEnded == IF row.state = "running" THEN row.job - 1 ELSE row.job

(* A result may be reconciled with the rows, now or in a later turn.         *)
Open == row.kind = "conductor" \/ row.complete = "no"

Ready(rows, i) == Shaped(rows, Used[i]) /\ Bounded(DOMAIN rows)

ViewInv ==
    /\ fin = [pc |-> fin.pc, rows |-> fin.rows, log |-> fin.log]
    /\ fin.pc = "read" => View!Continues(fin.rows, lines)
    /\ Open => Ready(lines, JobsEnded)
    /\ Open /\ fin.pc = "read" => Ready(fin.rows, JobsEnded)
    /\ proofs.pc = "read" => ~Open

LEMMA UsedIs ==
    /\ \A i \in 0..Len(Streams) :
         /\ Used[i] \in Nat /\ Used[i] + 1 < Stride
         /\ \A j \in Jobs : \A k \in 1..Len(Streams[j]) : Len(Streams[j][k].done) <= Used[i]
    /\ \A j \in Jobs : Used[j - 1] + Len(Logs[j]) <= Used[j]
<1>1. Used \in [0..Len(Streams) -> 0..Stride] /\ FitsIn(Used)
    BY StrideAssumption DEF Used
<1>2. \A i \in 0..Len(Streams) : Used[i] \in Nat
    BY <1>1, StridesAre
<1>3. \A j \in Jobs : 1..Len(Streams[j]) = DOMAIN Streams[j]
  <2>1. Streams \in Seq(Seq(Event))
      BY SessionLogAssumption DEF Event
  <2> QED
      BY <2>1 DEF Jobs
<1> HIDE DEF Used
<1> QED
    BY <1>1, <1>2, <1>3 DEF FitsIn

LEMMA EndedIs == Types => row.job \in Jobs /\ JobsEnded \in 0..Len(Streams) /\ row.job - 1 \in 0..Len(Streams)
<1> SUFFICES ASSUME Types PROVE row.job \in Jobs /\ JobsEnded \in 0..Len(Streams) /\ row.job - 1 \in 0..Len(Streams)
    OBVIOUS
<1>1. row.job \in Jobs
    BY DEF Types, RowRecord
<1> QED
    BY <1>1, StreamsAre DEF JobsEnded

(* What a recorder writes is shaped like the rest.                           *)
LEMMA RecordsShaped ==
    ASSUME NEW i \in 0..Len(Streams), NEW v \in Viewers, rec[v].job \in Jobs,
           NEW k \in 1..Len(Streams[rec[v].job])
    PROVE  Shaped(Records(v, k), Used[i]) /\ Bounded(DOMAIN Records(v, k)) /\ DOMAIN Records(v, k) \in SUBSET Nat
<1> DEFINE e == Streams[rec[v].job][k]
           new == Records(v, k)
           base == k * Stride
<1>1. e \in Event /\ Len(e.done) < Stride /\ Len(e.done) <= Used[i] /\ Used[i] \in Nat
    BY StreamsAre, UsedIs
<1>2. k \in Nat /\ base \in Nat /\ Stride \in Nat \ {0}
    BY StreamsAre, StridesAre
<1>3. DOMAIN e.done = 1..Len(e.done) /\ Len(e.done) \in Nat
    BY <1>1 DEF Event
<1>4. CASE e.type = "output"
  <2>1. new = [s \in {base + n - 1 : n \in DOMAIN e.done} |-> Line(e.done[s - base + 1])]
      BY <1>4 DEF Records, Base
  <2>2. ASSUME NEW s \in DOMAIN new
        PROVE  \E o \in 0..(Stride - 1) : s = base + o /\ o <= Used[i] /\ new[s].t = "line" /\ s <= base + Stride
    <3>1. PICK n \in DOMAIN e.done : s = base + n - 1
        BY <2>1, <2>2
    <3> HIDE DEF base, e
    <3>2. n - 1 \in 0..(Stride - 1) /\ n - 1 <= Used[i] /\ s = base + (n - 1) /\ s <= base + Stride
        BY <1>1, <1>2, <1>3, <3>1
    <3>3. new[s].t = "line"
        BY <2>1, <2>2 DEF Line
    <3> QED
        BY <3>2, <3>3
  <2>3. Shaped(new, Used[i])
      BY <1>2, <2>2 DEF Shaped, RowOK, HarnessTypes
  <2>4. base + Stride \in Nat
      BY <1>2
  <2>5. DOMAIN new \in SUBSET Nat
      BY <2>3, RowIsNat DEF Shaped
  <2> QED
      BY <2>2, <2>3, <2>4, <2>5 DEF Bounded
<1>5. CASE e.type # "output"
  <2>1. new = [s \in {base} |-> Marker(e.type)]
      BY <1>5 DEF Records, Base
  <2>2. Marker(e.type).t \notin HarnessTypes
      BY <1>1, <1>5 DEF Marker, HarnessTypes, Event
  <2>3. base = k * Stride + 0 /\ 0 \in 0..(Stride - 1) /\ base <= base
      BY <1>2
  <2> HIDE DEF base
  <2>4. DOMAIN new = {base} /\ new[base].t \notin HarnessTypes
      BY <2>1, <2>2
  <2> HIDE DEF new
  <2>5. Shaped(new, Used[i])
      BY <1>2, <2>3, <2>4 DEF Shaped, RowOK
  <2> QED
      BY <1>2, <2>3, <2>4, <2>5 DEF Bounded, new
<1> QED
    BY <1>4, <1>5

LEMMA AppendedContinues == ASSUME NEW old, NEW new PROVE View!Continues(old, Appended(old, new))
    BY DEF View!Continues, Appended

LEMMA ContinuesOn ==
    ASSUME NEW a, NEW b, NEW c, View!Continues(a, b), View!Continues(b, c) PROVE View!Continues(a, c)
    BY DEF View!Continues

(* Rows of recorders and fragments keep the invariant.                       *)
LEMMA ViewWrites ==
    ASSUME Types, ViewInv, NEW new, lines' = Appended(lines, new), UNCHANGED <<row, fin, proofs>>,
           Open => Ready(new, JobsEnded)
    PROVE  ViewInv'
<1>1. JobsEnded' = JobsEnded /\ Used' = Used /\ Open' = Open
    BY DEF JobsEnded, Used, FitsIn, Jobs, Open
<1>2. Used[JobsEnded] \in Nat
    BY EndedIs, UsedIs
<1>3. Open => Ready(lines', JobsEnded)
  <2> SUFFICES ASSUME Open PROVE Ready(lines', JobsEnded)
      OBVIOUS
  <2>1. /\ Shaped(lines, Used[JobsEnded]) /\ Bounded(DOMAIN lines)
        /\ Shaped(new, Used[JobsEnded]) /\ Bounded(DOMAIN new)
      BY DEF ViewInv, Ready
  <2> HIDE DEF Used, JobsEnded
  <2>2. Shaped(lines', Used[JobsEnded])
      BY <1>2, <2>1, ShapedAppend
  <2>3. DOMAIN lines \in SUBSET Nat /\ DOMAIN new \in SUBSET Nat
      BY <2>1, RowIsNat DEF Shaped
  <2>4. Bounded(DOMAIN lines')
      BY <2>1, <2>3, BoundedTogether DEF Appended
  <2> QED
      BY <2>2, <2>4 DEF Ready
<1>4. fin.pc = "read" => View!Continues(fin.rows, lines')
    BY AppendedContinues, ContinuesOn DEF ViewInv
<1> HIDE DEF JobsEnded, Used, Open
<1> QED
    BY <1>1, <1>3, <1>4 DEF ViewInv, Ready

LEMMA ViewSame ==
    ASSUME ViewInv, UNCHANGED <<lines, row>>,
           fin' = fin \/ fin' = [pc |-> "idle", rows |-> Nothing, log |-> fin.log]
                      \/ fin' = [pc |-> "read", rows |-> lines, log |-> fin.log],
           proofs' = proofs \/ proofs'.pc # "read" \/ ~Open
    PROVE  ViewInv'
<1>1. JobsEnded' = JobsEnded /\ Used' = Used /\ Open' = Open
    BY DEF JobsEnded, Used, FitsIn, Jobs, Open
<1>2. View!Continues(lines, lines)
    BY DEF View!Continues
<1> HIDE DEF JobsEnded, Used, Open
<1> QED
    BY <1>1, <1>2 DEF ViewInv, Ready

LEMMA ViewInitial == Init => ViewInv
<1> SUFFICES ASSUME Init PROVE ViewInv
    OBVIOUS
<1>1. DOMAIN lines = {} /\ fin.pc = "idle" /\ row.job = 1 /\ proofs.pc = "idle"
    BY DEF Init, Nothing
<1>2. fin = [pc |-> fin.pc, rows |-> fin.rows, log |-> fin.log]
    BY DEF Init
<1>3. Ready(lines, JobsEnded)
    BY <1>1 DEF Ready, Shaped, Bounded
<1> QED
    BY <1>1, <1>2, <1>3 DEF ViewInv

LEMMA ViewLeave == ASSUME Types, ViewInv, NEW v \in Viewers, Leave(v) PROVE ViewInv'
<1>1. UNCHANGED <<row, fin, proofs>>
    BY DEF Leave
<1>2. CASE rec[v].buffer = "none"
    BY <1>1, <1>2, ViewSame DEF Leave
<1>3. CASE rec[v].buffer # "none"
  <2> DEFINE base == rec[v].pos * Stride
             q == base + Stride - 1
             new == [s \in {q} |-> Fragment(rec[v].buffer)]
  <2>1. rec[v] \in RecRecord /\ RecOK(rec[v], row.job) /\ rec[v].open = "yes" /\ rec[v].pos \in Nat
      BY DEF Leave, Types, RecRecord
  <2>2. rec[v].base = base /\ base \in Nat /\ Stride \in Nat \ {0}
      BY <1>3, <2>1, StridesAre DEF RecOK
  <2>3. lines' = Appended(lines, new)
      BY <1>3, <2>2 DEF Leave
  <2>4. new[q].t \in HarnessTypes /\ DOMAIN new = {q}
      BY DEF Fragment, HarnessTypes
  <2>5. q = base + (Stride - 1) /\ Stride - 1 \in 0..(Stride - 1) /\ q \in Nat /\ q <= q
    <3> HIDE DEF base
    <3> QED
        BY <2>2
  <2>6. RowOK(q, new[q], Used[JobsEnded])
      BY <2>1, <2>4, <2>5 DEF RowOK
  <2> HIDE DEF q, new
  <2>7. Ready(new, JobsEnded)
      BY <2>4, <2>5, <2>6 DEF Ready, Shaped, Bounded
  <2> QED
      BY <1>1, <2>3, <2>7, ViewWrites
<1> QED
    BY <1>2, <1>3

LEMMA ViewPush == ASSUME Types, ViewInv, NEW v \in Viewers, Push(v) PROVE ViewInv'
<1>1. UNCHANGED <<row, fin, proofs>>
    BY DEF Push
<1>2. rec[v].job \in Jobs /\ rec[v].pos + 1 \in 1..Len(Streams[rec[v].job])
    BY NextEvent DEF Push
<1>3. JobsEnded \in 0..Len(Streams)
    BY EndedIs
<1> DEFINE k == rec[v].pos + 1
           new == Records(v, k)
<1>4. Ready(new, JobsEnded)
    BY <1>2, <1>3, RecordsShaped DEF Ready
<1>5. lines' = Appended(lines, new)
    BY DEF Push
<1> HIDE DEF new
<1> QED
    BY <1>1, <1>4, <1>5, ViewWrites

(* A line of the log that the rows do not show was to be written where a     *)
(* recorder had written since they were read: each at a seq of its own.      *)
LEMMA Displaced ==
    ASSUME NEW rows, NEW now, NEW new, NEW ls, View!Continues(rows, now),
           \A l \in ls : (\E s \in DOMAIN rows : rows[s] = l) \/ (\E s \in DOMAIN new : new[s] = l),
           \A s \in DOMAIN new : s \notin DOMAIN rows
    PROVE  View!NoMoreThan(View!LeftOut(ls, Appended(now, new)), DOMAIN now \ DOMAIN rows)
<1> DEFINE then == Appended(now, new)
           out == View!LeftOut(ls, then)
           at == [l \in out |-> CHOOSE s \in DOMAIN new : new[s] = l]
<1>1. ASSUME NEW l \in out
      PROVE  at[l] \in DOMAIN new /\ new[at[l]] = l /\ at[l] \in DOMAIN now \ DOMAIN rows
  <2>1. l \in ls /\ \A s \in DOMAIN then : then[s] # l
      BY DEF View!LeftOut
  <2>2. \A s \in DOMAIN now : now[s] # l
      BY <2>1 DEF Appended
  <2>3. \A s \in DOMAIN rows : rows[s] # l
      BY <2>2 DEF View!Continues
  <2>4. \E s \in DOMAIN new : new[s] = l
      BY <2>1, <2>3
  <2>5. at[l] \in DOMAIN new /\ new[at[l]] = l
      BY <2>4
  <2> HIDE DEF at
  <2>6. at[l] \in DOMAIN now
    <3> SUFFICES ASSUME at[l] \notin DOMAIN now PROVE FALSE
        OBVIOUS
    <3>1. at[l] \in DOMAIN then /\ then[at[l]] = l
        BY <2>5 DEF Appended
    <3> QED
        BY <2>1, <3>1
  <2> QED
      BY <2>5, <2>6
<1>2. at \in [out -> DOMAIN now \ DOMAIN rows]
    BY <1>1
<1> HIDE DEF at, out
<1>3. \A l, o \in out : at[l] = at[o] => l = o
    BY <1>1
<1> QED
    BY <1>2, <1>3 DEF View!NoMoreThan, out

(* The end of a job that completes the session.                              *)
LEMMA EndWrites ==
    ASSUME Types, ViewInv, EndWrite, row.complete = "no"
    PROVE  /\ row.state = "running" /\ row.job \in Jobs
           /\ Shaped(lines, Used[row.job - 1]) /\ Bounded(DOMAIN lines)
           /\ Shaped(fin.rows, Used[row.job - 1]) /\ Bounded(DOMAIN fin.rows)
           /\ View!Continues(fin.rows, lines)
           /\ \E m \in [DOMAIN Logs[row.job] -> {0} \cup Harness(fin.rows)] :
                /\ Matches(fin.rows, Logs[row.job], m)
                /\ lines' = Appended(lines, Backfilled(fin.rows, Logs[row.job], m))
<1>1. row.state = "running" /\ row.job \in Jobs /\ fin.pc = "read"
    BY DEF EndWrite, Types, RowRecord
<1>2. Open
    BY DEF Open
<1>3. JobsEnded = row.job - 1
    BY <1>1 DEF JobsEnded
<1> HIDE DEF Open, JobsEnded, Used
<1>4. Ready(lines, row.job - 1) /\ Ready(fin.rows, row.job - 1) /\ View!Continues(fin.rows, lines)
    BY <1>1, <1>2, <1>3 DEF ViewInv
<1> QED
    BY <1>1, <1>4 DEF EndWrite, Completed, Ready

LEMMA BackfillKeeps ==
    ASSUME Types, ViewInv, EndWrite, row.complete = "no"
    PROVE  /\ Shaped(lines', Used[row.job]) /\ Bounded(DOMAIN lines')
           /\ View!Continues(lines, lines')
           /\ View!NoMoreThan(View!LeftOut({Line(x) : x \in ToSet(Logs[row.job])}, lines'),
                              DOMAIN lines \ DOMAIN fin.rows)
<1> DEFINE log == Logs[row.job]
           rows == fin.rows
           u == Used[row.job - 1]
           w == Used[row.job]
<1>1. PICK m \in [DOMAIN log -> {0} \cup Harness(rows)] :
          Matches(rows, log, m) /\ lines' = Appended(lines, Backfilled(rows, log, m))
    BY EndWrites
<1>2. row.job \in Jobs /\ row.job - 1 \in 0..Len(Streams) /\ row.job \in 0..Len(Streams)
    BY EndedIs, StreamsAre
<1>3. u \in Nat /\ w \in Nat /\ log \in Seq(Contents) /\ u + Len(log) <= w /\ w + 1 < Stride
    BY <1>2, UsedIs, StreamsAre
<1>4. /\ Shaped(lines, u) /\ Bounded(DOMAIN lines)
      /\ Shaped(rows, u) /\ Bounded(DOMAIN rows) /\ View!Continues(rows, lines)
    BY EndWrites
<1> DEFINE new == Backfilled(rows, log, m)
<1> HIDE DEF u, w, log, rows
<1>5. /\ Shaped(new, w) /\ Bounded(DOMAIN new)
      /\ \A s \in DOMAIN new : s \notin DOMAIN rows
      /\ \A i \in DOMAIN log : \/ \E s \in DOMAIN rows : rows[s] = Line(log[i])
                               \/ \E s \in DOMAIN new : new[s] = Line(log[i])
    BY <1>1, <1>3, <1>4, BackfillShows
<1>6. lines' = Appended(lines, new)
    BY <1>1
<1> HIDE DEF new
<1>7. u <= w
  <2>1. Len(log) \in Nat
      BY <1>3
  <2> QED
      BY <1>3, <2>1
<1>8. Shaped(lines', w)
    BY <1>3, <1>4, <1>5, <1>6, <1>7, ShapedAppend
<1>9. DOMAIN lines' = DOMAIN lines \cup DOMAIN new
    BY <1>6 DEF Appended
<1>10. Bounded(DOMAIN lines')
  <2>1. DOMAIN lines \in SUBSET Nat /\ DOMAIN new \in SUBSET Nat
      BY <1>4, <1>5, RowIsNat DEF Shaped
  <2> QED
      BY <1>4, <1>5, <1>9, <2>1, BoundedTogether
<1>11. \A l \in {Line(x) : x \in ToSet(log)} :
          (\E s \in DOMAIN rows : rows[s] = l) \/ (\E s \in DOMAIN new : new[s] = l)
  <2>1. \A x \in ToSet(log) : \E i \in DOMAIN log : x = log[i]
      BY DEF ToSet
  <2> QED
      BY <1>5, <2>1
<1>12. View!NoMoreThan(View!LeftOut({Line(x) : x \in ToSet(log)}, Appended(lines, new)), DOMAIN lines \ DOMAIN rows)
  <2> DEFINE ls == {Line(x) : x \in ToSet(log)}
  <2>1. \A l \in ls : (\E s \in DOMAIN rows : rows[s] = l) \/ (\E s \in DOMAIN new : new[s] = l)
      BY <1>11
  <2> HIDE DEF ls
  <2>2. View!NoMoreThan(View!LeftOut(ls, Appended(lines, new)), DOMAIN lines \ DOMAIN rows)
      BY <1>4, <1>5, <2>1, Displaced
  <2> QED
      BY <2>2 DEF ls
<1>13. View!Continues(lines, lines')
    BY <1>6, AppendedContinues
<1> QED
    BY <1>6, <1>8, <1>10, <1>12, <1>13 DEF w, log, rows

(* What EndWrite does to the row and the transaction.                        *)
LEMMA EndMoves ==
    ASSUME Types, EndWrite
    PROVE  /\ row.state = "running" /\ row'.kind = row.kind /\ row'.job = row.job
           /\ row'.state = "ended" /\ row'.complete = "yes" /\ proofs' = proofs
           /\ fin' = [pc |-> "idle", rows |-> Nothing,
                      log |-> IF row.complete = "yes" THEN fin.log ELSE Logs[row.job]]
           /\ row.complete = "yes" => lines' = lines
           /\ row.complete \in {"no", "yes"}
           /\ row.kind = "conductor" => row.complete = "no"
<1>1. row \in RowRecord /\ row.state = "running"
    BY DEF EndWrite, Types
<1>2. row.kind = "conductor" => row.complete = "no"
    BY <1>1 DEF Types
<1>3. row' = [row EXCEPT !.state = "ended", !.log = Logs[row.job], !.complete = "yes"]
    BY DEF EndWrite, Completed
<1>4. row'.kind = row.kind /\ row'.job = row.job /\ row'.state = "ended" /\ row'.complete = "yes"
    BY <1>1, <1>3 DEF RowRecord
<1>5. row.complete = "yes" => lines' = lines
    BY DEF EndWrite, Completed
<1>6. row.complete \in {"no", "yes"}
    BY <1>1 DEF RowRecord
<1> QED
    BY <1>1, <1>2, <1>4, <1>5, <1>6 DEF EndWrite

LEMMA ViewNext == Types /\ ViewInv /\ [Next]_vars => ViewInv'
<1> SUFFICES ASSUME Types, ViewInv, [Next]_vars PROVE ViewInv'
    OBVIOUS
<1>1. ASSUME EndWrite PROVE ViewInv'
  <2>1. JobsEnded' = row.job /\ Used' = Used /\ (Open' => row.kind = "conductor")
      BY <1>1, EndMoves DEF JobsEnded, Used, FitsIn, Jobs, Open
  <2>2. row.kind = "conductor" => Shaped(lines', Used[row.job]) /\ Bounded(DOMAIN lines')
      BY <1>1, EndMoves, BackfillKeeps
  <2>3. proofs.pc = "read" => ~Open'
      BY <1>1, EndMoves DEF ViewInv, Open
  <2>4. fin' = [pc |-> fin'.pc, rows |-> fin'.rows, log |-> fin'.log] /\ fin'.pc = "idle" /\ proofs' = proofs
      BY <1>1, EndMoves
  <2> HIDE DEF JobsEnded, Used, Open
  <2> QED
      BY <2>1, <2>2, <2>3, <2>4 DEF ViewInv, Ready
<1>2. ASSUME ProofWrite PROVE ViewInv'
  <2>1. ~Open /\ UNCHANGED <<row, fin>> /\ proofs'.pc = "done"
      BY <1>2 DEF ProofWrite, ViewInv
  <2>2. View!Continues(lines, lines')
      BY <1>2, AppendedContinues DEF ProofWrite
  <2>3. fin.pc = "read" => View!Continues(fin.rows, lines')
      BY <2>2, ContinuesOn DEF ViewInv
  <2>4. ~Open'
      BY <2>1 DEF Open
  <2> HIDE DEF Open
  <2> QED
      BY <2>1, <2>3, <2>4 DEF ViewInv
<1>3. ASSUME NextJob PROVE ViewInv'
  <2>1. /\ row.state # "running" /\ fin.pc # "read" /\ UNCHANGED <<lines, fin>>
        /\ row'.kind = row.kind /\ row'.job = row.job + 1 /\ row'.state = "running"
      BY <1>3 DEF NextJob, Types, RowRecord
  <2>2. row.kind # "conductor" => row.complete = "yes" /\ row'.complete = row.complete
      BY <1>3 DEF NextJob, Types, RowRecord
  <2>3. row.kind = "conductor" => proofs.pc = "idle"
      BY DEF Types
  <2>4. proofs' = proofs \/ proofs'.pc = "idle"
      BY <1>3 DEF NextJob
  <2>5. row.job \in Nat
      BY EndedIs, StreamsAre
  <2>6. JobsEnded' = JobsEnded /\ Used' = Used
      BY <2>1, <2>5 DEF JobsEnded, Used, FitsIn, Jobs
  <2>7. Open' = Open
      BY <2>1, <2>2 DEF Open
  <2> HIDE DEF JobsEnded, Used, Open
  <2> QED
      BY <2>1, <2>4, <2>6, <2>7 DEF ViewInv, Ready
<1>4. ASSUME Retain PROVE ViewInv'
  <2>1. DOMAIN lines' = {}
      BY <1>4 DEF Retain, Nothing
  <2>2. Ready(lines, JobsEnded)'
      BY <2>1 DEF Ready, Shaped, Bounded
  <2>3. fin' = fin /\ fin.pc # "read" /\ proofs' = proofs /\ proofs.pc # "read"
      BY <1>4 DEF Retain, Types
  <2> HIDE DEF JobsEnded, Used, Open
  <2> QED
      BY <2>2, <2>3 DEF ViewInv
<1>5. ASSUME EndRead \/ EndFails PROVE ViewInv'
  <2>1. \/ fin' = [pc |-> "idle", rows |-> Nothing, log |-> fin.log]
        \/ fin' = [pc |-> "read", rows |-> lines, log |-> fin.log]
      BY <1>5 DEF EndRead, EndFails, ViewInv
  <2>2. UNCHANGED <<lines, row, proofs>>
      BY <1>5 DEF EndRead, EndFails
  <2> QED
      BY <2>1, <2>2, ViewSame
<1>6. ASSUME ProofRead PROVE ViewInv'
  <2>1. ~Open
      BY <1>6 DEF ProofRead, Types, Open
  <2> QED
      BY <1>6, <2>1, ViewSame DEF ProofRead
<1>7. ASSUME Emit \/ SendLines \/ ReadRow \/ Reconnect PROVE ViewInv'
    BY <1>7, ViewSame DEF Emit, SendLines, ReadRow, Reconnect
<1>8. ASSUME \E v \in Viewers : Connect(v) \/ PushFails(v) PROVE ViewInv'
    BY <1>8, ViewSame DEF Connect, PushFails
<1>9. ASSUME UNCHANGED vars PROVE ViewInv'
    BY <1>9, ViewSame DEF vars
<1> QED
    BY <1>1, <1>2, <1>3, <1>4, <1>5, <1>6, <1>7, <1>8, <1>9, ViewPush, ViewLeave DEF Next

(* Every step is one of the view's, or none.                                 *)
LEMMA ViewStarts == Init => View!Init
<1> SUFFICES ASSUME Init PROVE View!Init
    OBVIOUS
<1>1. row.complete = "no" /\ fin.log = <<>> /\ fin.pc = "idle"
    BY DEF Init
<1>2. {Line(x) : x \in ToSet(fin.log)} = {}
    BY <1>1 DEF ToSet
<1>3. lines = [s \in {} |-> CHOOSE b \in Bodies : TRUE]
    BY DEF Init, Nothing
<1> QED
    BY <1>1, <1>2, <1>3 DEF View!Init

(* The view's variables that a step leaves alone.                            *)
LEMMA LogSame == ASSUME fin'.log = fin.log PROVE UNCHANGED {Line(x) : x \in ToSet(fin.log)}
    BY DEF Line, ToSet

LEMMA LookedSame ==
    ASSUME fin' = fin \/ (fin.pc # "read" /\ fin'.pc # "read")
    PROVE  UNCHANGED (IF fin.pc = "read" THEN {fin.rows} ELSE {})
    OBVIOUS

LEMMA ViewSteps == Types /\ ViewInv /\ [Next]_vars => [View!Next]_View!vars
<1> SUFFICES ASSUME Types, ViewInv, [Next]_vars PROVE [View!Next]_View!vars
    OBVIOUS
<1>1. ASSUME EndWrite PROVE View!Next
  <2>1. fin'.pc = "idle" /\ fin.pc = "read" /\ row'.complete = "yes" /\ row.complete \in {"no", "yes"}
      BY <1>1, EndMoves DEF EndWrite
  <2>2. CASE row.complete = "yes"
    <3>1. UNCHANGED <<lines, row.complete, fin.log>>
        BY <1>1, <2>2, EndMoves
    <3> QED
        BY <2>1, <3>1, LogSame DEF View!Next, View!LookAway
  <2>3. CASE row.complete = "no"
    <3>1. fin'.log = Logs[row.job]
        BY <1>1, <2>3, EndMoves
    <3>2. {Line(x) : x \in ToSet(fin.log)}' = {Line(x) : x \in ToSet(Logs[row.job])}
        BY <3>1 DEF Line, ToSet
    <3>3. /\ View!Continues(lines, lines')
          /\ View!NoMoreThan(View!LeftOut({Line(x) : x \in ToSet(Logs[row.job])}, lines'),
                             DOMAIN lines \ DOMAIN fin.rows)
        BY <1>1, <2>3, BackfillKeeps
    <3>4. View!Reconcile
        BY <2>1, <2>3, <3>2, <3>3 DEF View!Reconcile
    <3> QED
        BY <3>4 DEF View!Next
  <2> QED
      BY <2>1, <2>2, <2>3
<1>2. ASSUME ProofWrite \/ \E v \in Viewers : Push(v) \/ Leave(v) PROVE View!Next
  <2>1. View!Continues(lines, lines)
      BY DEF View!Continues
  <2>2. lines' = lines \/ \E new : lines' = Appended(lines, new)
      BY <1>2 DEF ProofWrite, Push, Leave
  <2>3. View!Continues(lines, lines')
      BY <2>1, <2>2, AppendedContinues
  <2>4. UNCHANGED <<row, fin>>
      BY <1>2 DEF ProofWrite, Push, Leave
  <2> QED
      BY <2>4, <2>3, LogSame, LookedSame DEF View!Next, View!Write
<1>3. ASSUME NextJob PROVE View!Next \/ UNCHANGED View!vars
  <2>1. UNCHANGED <<lines, fin>>
      BY <1>3 DEF NextJob
  <2>2. row'.complete = "no" \/ row'.complete = row.complete
      BY <1>3 DEF NextJob, Types, RowRecord
  <2> QED
      BY <2>1, <2>2, LogSame, LookedSame DEF View!Next, View!Resume, View!vars
<1>4. ASSUME Retain PROVE View!Next
  <2>1. row.complete = "yes" /\ row'.complete = row.complete /\ fin' = fin /\ fin.pc # "read"
      BY <1>4 DEF Retain, Types, RowRecord
  <2>2. DOMAIN lines' = {}
      BY <1>4 DEF Retain, Nothing
  <2> QED
      BY <2>1, <2>2, LogSame, LookedSame DEF View!Next, View!Forget
<1>5. ASSUME EndRead PROVE View!Next
  <2>1. fin'.pc = "read" /\ fin'.rows = lines /\ fin'.log = fin.log /\ UNCHANGED <<lines, row>>
      BY <1>5 DEF EndRead, ViewInv
  <2> QED
      BY <2>1, LogSame DEF View!Next, View!Look
<1>6. ASSUME EndFails PROVE View!Next
  <2>1. fin'.pc = "idle" /\ fin'.log = fin.log /\ UNCHANGED <<lines, row>>
      BY <1>6 DEF EndFails, ViewInv
  <2> QED
      BY <2>1, LogSame DEF View!Next, View!LookAway
<1>7. ASSUME UNCHANGED <<lines, row, fin>> PROVE UNCHANGED View!vars
    BY <1>7, LogSame, LookedSame DEF View!vars
<1>8. ASSUME \/ Emit \/ ProofRead \/ SendLines \/ ReadRow \/ Reconnect
             \/ \E v \in Viewers : Connect(v) \/ PushFails(v)
      PROVE  UNCHANGED <<lines, row, fin>>
    BY <1>8 DEF Emit, ProofRead, SendLines, ReadRow, Reconnect, Connect, PushFails
<1>9. ASSUME UNCHANGED vars PROVE UNCHANGED <<lines, row, fin>>
    BY <1>9 DEF vars
<1> QED
    BY <1>1, <1>2, <1>3, <1>4, <1>5, <1>6, <1>7, <1>8, <1>9 DEF Next

(* The stored session is the session its readers are promised, for any       *)
(* streams, logs and number of recorders, which write between the            *)
(* back-fill's read and its insert as they will, and for any number of turns *)
(* or attempts: a row stays where and what it is, session_complete_at is set *)
(* with every line of that result among the rows but for as many as rows     *)
(* were written since the read, and rows go only all together.               *)
THEOREM StoredSessionIsAsPromised == Spec => ImplementsView
<1>1. Types /\ ViewInv /\ [Next]_vars => ViewInv'
    BY ViewNext
<1>2. Types /\ ViewInv /\ [Next]_vars => [View!Next]_View!vars
    BY ViewSteps
<1> QED
    BY <1>1, <1>2, ViewInitial, ViewStarts, TypesInitial, TypesNext, PTL DEF Spec, ImplementsView, View!Spec
=============================================================================
