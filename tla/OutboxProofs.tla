---------------------------- MODULE OutboxProofs ----------------------------
(* What holds of the relay for every number of rows and publishers. *)
EXTENDS Outbox, FiniteSetTheorems, TLAPS

AtPost == {"post", "mark", "fail"}

(* A publisher between two POSTs or in one is where its fields say it is, and a
   row it is about to mark is one OpenVibe.Events took. *)
PublisherOK ==
    \A p \in Publishers :
        /\ pub[p].pc \in AtPost <=> pub[p].sending \in Events
        /\ pub[p].sending \notin pub[p].batch
        /\ pub[p].pc = "mark" => pub[p].sending \in arrived
        /\ pub[p].pc # "post" => pub[p].left = 0
        /\ pub[p].pc = "idle" => pub[p].batch = {}

(* The attempts of a row are its failed sends, and a publisher read no more. *)
CountOK ==
    \A e \in Events : /\ row[e].attempts = tries[e]
                      /\ \A p \in Publishers : pub[p].read[e] <= tries[e]

(* The inductive invariant of the counts: both properties rest on it. *)
TriesInv == TypeOK /\ PublisherOK /\ CountOK /\ PublishedArrived /\ DeadTriedEnough

LEMMA BackoffType ==
    ASSUME NEW a \in Nat PROVE Backoff(a) \in 0..MaxBackoff
<1>1. (1 + IF a > 6 THEN 6 ELSE a) \in 1..7  OBVIOUS
<1>2. \A i \in 1..7 : Doubled[i] \in Nat  BY DEF Doubled
<1> QED  BY <1>1, <1>2, OutboxAssumption DEF Backoff

LEMMA AgesKnown == 0 \in Ages /\ Unclaimed \in Ages /\ \A a \in Ages : a \in Int /\ (a \notin {Unclaimed, Lease + 1} => a + 1 \in Ages)
BY OutboxAssumption DEF Ages, Unclaimed

(* What the statements write on a row keeps its type. *)
LEMMA RowEdits ==
    ASSUME NEW r \in OutboxRow, NEW a \in Ages
    PROVE  /\ [r EXCEPT !.age = a] \in OutboxRow
           /\ \A n \in Nat, d \in {"no", "refused", "failed"} :
                 [r EXCEPT !.attempts = n, !.age = a, !.dead = d] \in OutboxRow
           /\ \A n \in Nat, w \in 0..MaxBackoff : [r EXCEPT !.attempts = n, !.age = a, !.wait = w] \in OutboxRow
           /\ \A w \in 0..MaxBackoff : [r EXCEPT !.wait = w, !.age = a] \in OutboxRow
BY DEF OutboxRow

LEMMA PublisherEdits ==
    ASSUME NEW r \in Publisher, NEW pc \in {"idle", "next", "post", "mark", "fail"}
    PROVE  /\ [r EXCEPT !.pc = pc] \in Publisher
           /\ \A l \in 0..SendTimeout : [r EXCEPT !.left = l] \in Publisher
           /\ \A l \in 0..SendTimeout, x \in {"no", "refused", "failed"} :
                 [r EXCEPT !.pc = pc, !.left = l, !.error = x] \in Publisher
           /\ \A e \in Events, l \in 0..SendTimeout :
                 [r EXCEPT !.pc = pc, !.sending = e, !.left = l, !.batch = @ \ {e}] \in Publisher
           /\ \A l \in 0..SendTimeout, t \in 0..(Lease + 1) : [r EXCEPT !.left = l, !.held = t] \in Publisher
           /\ \A S \in SUBSET Events, f \in [Events -> Nat] :
                 [r EXCEPT !.pc = pc, !.batch = S, !.read = f] \in Publisher
BY DEF Publisher

LEMMA IdleType == Idle \in Publisher
BY OutboxAssumption DEF Idle, Publisher

LEMMA InitTries == Init => TriesInv
<1> SUFFICES ASSUME Init PROVE TriesInv  OBVIOUS
<1>1. NewRow \in OutboxRow  BY AgesKnown, OutboxAssumption DEF NewRow, OutboxRow
<1>2. TypeOK  BY <1>1, IdleType DEF Init, TypeOK
<1>3. PublisherOK  BY DEF Init, PublisherOK, Idle, AtPost, Events
<1>4. CountOK  BY DEF Init, CountOK, Idle, NewRow
<1> QED  BY <1>2, <1>3, <1>4 DEF Init, TriesInv, PublishedArrived, DeadTriedEnough, NewRow

LEMMA RestType ==
    ASSUME TypeOK, PublisherOK, NEW p \in Publishers, pub[p].pc \in {"mark", "fail"}
    PROVE  /\ Rest(p) \in Publisher
           /\ Rest(p).pc \in {"idle", "next"} /\ Rest(p).sending = 0 /\ Rest(p).left = 0
           /\ Rest(p).batch = pub[p].batch /\ (Rest(p).pc = "idle" => Rest(p).batch = {})
           /\ \A e \in Events : Rest(p).read[e] \in {0, pub[p].read[e]}
<1>1. pub[p] \in Publisher /\ pub[p].left = 0  BY DEF TypeOK, PublisherOK
<1>2. CASE pub[p].batch = {}  BY <1>1, <1>2, IdleType DEF Rest, Idle
<1>3. CASE pub[p].batch # {}  BY <1>1, <1>3 DEF Rest, Publisher
<1> QED  BY <1>2, <1>3

LEMMA WriteStep == ASSUME TriesInv, NEW e \in Events, Write(e) PROVE TriesInv'
BY DEF TriesInv, TypeOK, PublisherOK, CountOK, PublishedArrived, DeadTriedEnough, Write, OutboxRow

LEMMA ClaimStep == ASSUME TriesInv, NEW p \in Publishers, Claim(p) PROVE TriesInv'
<1> PICK S \in SUBSET Events :
        /\ row' = [e \in Events |-> IF e \in S THEN [row[e] EXCEPT !.age = 0] ELSE row[e]]
        /\ pub' = [pub EXCEPT ![p] = [Idle EXCEPT !.pc = "next", !.batch = S,
                                                  !.read = [e \in Events |-> IF e \in S THEN row[e].attempts ELSE 0]]]
    BY DEF Claim
<1> USE DEF TriesInv
<1>1. row' \in [Events -> OutboxRow]
    BY RowEdits, AgesKnown DEF TypeOK
<1> DEFINE f == [e \in Events |-> IF e \in S THEN row[e].attempts ELSE 0]
<1>2. pub'[p] \in Publisher /\ pub'[p].pc = "next" /\ pub'[p].batch = S /\ pub'[p].sending = 0
      /\ pub'[p].left = 0 /\ pub'[p].read = f
  <2>1. f \in [Events -> Nat]  BY DEF TypeOK, OutboxRow
  <2> HIDE DEF f
  <2>2. pub'[p] = [Idle EXCEPT !.pc = "next", !.batch = S, !.read = f]  BY DEF TypeOK, f
  <2>3. pub'[p] \in Publisher
    <3>1. \A g \in [Events -> Nat] : [Idle EXCEPT !.pc = "next", !.batch = S, !.read = g] \in Publisher
        BY IdleType DEF Publisher
    <3> QED  BY <2>1, <2>2, <3>1
  <2>4. \A g : LET x == [Idle EXCEPT !.pc = "next", !.batch = S, !.read = g]
               IN  x.pc = "next" /\ x.batch = S /\ x.sending = 0 /\ x.left = 0 /\ x.read = g
      BY DEF Idle
  <2> QED  BY <2>2, <2>3, <2>4
<1>3. TypeOK'
    BY <1>1, <1>2 DEF TypeOK, Claim
<1>4. PublisherOK'
    BY <1>2 DEF TypeOK, PublisherOK, Claim, Events, AtPost
<1>5. \A e \in Events : row'[e].attempts = row[e].attempts /\ row'[e].dead = row[e].dead
    BY DEF TypeOK, OutboxRow
<1>6. CountOK'
  <2> SUFFICES ASSUME NEW e \in Events, NEW q \in Publishers
               PROVE  row'[e].attempts = tries'[e] /\ pub'[q].read[e] <= tries'[e]
      BY DEF CountOK
  <2>1. tries' = tries /\ tries[e] \in Nat  BY DEF Claim, TypeOK
  <2>2. CASE q = p  BY <2>1, <2>2, <1>2, <1>5 DEF CountOK
  <2>3. CASE q # p  BY <2>1, <2>3, <1>5 DEF CountOK, TypeOK
  <2> QED  BY <2>2, <2>3
<1>7. PublishedArrived' /\ DeadTriedEnough'
    BY <1>5 DEF PublishedArrived, DeadTriedEnough, Claim
<1> QED  BY <1>3, <1>4, <1>6, <1>7

LEMMA PostStep == ASSUME TriesInv, NEW p \in Publishers, Post(p) PROVE TriesInv'
<1> PICK e \in pub[p].batch :
        pub' = [pub EXCEPT ![p] = [pub[p] EXCEPT !.pc = "post", !.sending = e, !.left = SendTimeout,
                                                 !.batch = @ \ {e}]]
    BY DEF Post
<1>0. UNCHANGED <<row, written, published, arrived, tries, late, faults>>  BY DEF Post
<1> USE DEF TriesInv
<1>1. e \in Events  BY DEF TypeOK, Publisher
<1>2. TypeOK'
  <2>1. SendTimeout \in 0..SendTimeout  BY OutboxAssumption
  <2>2. [pub[p] EXCEPT !.pc = "post", !.sending = e, !.left = SendTimeout,
                      !.batch = @ \ {e}] \in Publisher
    <3>1. pub[p] \in Publisher  BY DEF TypeOK
    <3> QED  BY <1>1, <2>1, <3>1 DEF Publisher
  <2> QED  BY <1>0, <2>2 DEF TypeOK
<1>3. PublisherOK'  BY <1>1 DEF PublisherOK, TypeOK, Publisher, Post, AtPost
<1>4. CountOK'  BY DEF CountOK, TypeOK, Publisher, Post
<1> QED  BY <1>2, <1>3, <1>4 DEF PublishedArrived, DeadTriedEnough, Post

LEMMA AnswerStep == ASSUME TriesInv, NEW p \in Publishers, Answer(p) PROVE TriesInv'
<1> PICK a \in Answers :
        /\ arrived' = IF a \in {"ok", "lost"} THEN arrived \cup {pub[p].sending} ELSE arrived
        /\ pub' = [pub EXCEPT ![p] = [pub[p] EXCEPT !.pc = AfterAnswer(a), !.left = 0,
                                               !.error = IF a = "refused" THEN a ELSE "failed"]]
    BY DEF Answer
<1> USE DEF TriesInv
<1>1. AfterAnswer(a) \in {"mark", "fail"} /\ (AfterAnswer(a) = "mark" => a = "ok")  BY DEF AfterAnswer
<1>2. pub[p].pc = "post" /\ pub[p].sending \in Events  BY DEF Answer, PublisherOK, AtPost
<1>3. TypeOK'
  <2>1. 0 \in 0..SendTimeout  BY OutboxAssumption
  <2> QED  BY <1>1, <1>2, <2>1, PublisherEdits DEF TypeOK, Answer
<1>4. PublisherOK'
  <2>1. /\ pub'[p].pc = AfterAnswer(a) /\ pub'[p].sending = pub[p].sending /\ pub'[p].batch = pub[p].batch
        /\ pub'[p].left = 0 /\ arrived \subseteq arrived' /\ (a = "ok" => pub[p].sending \in arrived')
        /\ \A q \in Publishers \ {p} : pub'[q] = pub[q]
      BY DEF TypeOK, Publisher
  <2> QED  BY <1>1, <1>2, <2>1 DEF PublisherOK, AtPost
<1>5. CountOK'  BY DEF CountOK, TypeOK, Publisher, Answer
<1> QED  BY <1>3, <1>4, <1>5 DEF PublishedArrived, DeadTriedEnough, Answer

LEMMA MarkStep == ASSUME TriesInv, NEW p \in Publishers, Mark(p) PROVE TriesInv'
<1> USE DEF TriesInv
<1>1. pub[p].sending \in Events /\ pub[p].sending \in arrived  BY DEF Mark, PublisherOK, AtPost
<1>2. CASE /\ row' = [row EXCEPT ![pub[p].sending].age = Unclaimed]
           /\ published' = published \cup {pub[p].sending}
           /\ pub' = [pub EXCEPT ![p] = Rest(p)]
           /\ UNCHANGED faults
  <2>1. TypeOK'
    <3>1. row[pub[p].sending] \in OutboxRow  BY <1>1 DEF TypeOK
    <3>2. [row[pub[p].sending] EXCEPT !.age = Unclaimed] \in OutboxRow  BY <3>1, RowEdits, AgesKnown
    <3>3. Rest(p) \in Publisher  BY RestType DEF Mark
    <3> QED  BY <1>1, <1>2, <3>2, <3>3 DEF TypeOK, Mark
  <2>2. PublisherOK'
    <3>1. Rest(p).pc \in {"idle", "next"} /\ Rest(p).sending = 0 /\ Rest(p).left = 0 /\ Rest(p).batch \subseteq Events
          /\ (Rest(p).pc = "idle" => Rest(p).batch = {})
        BY RestType DEF Mark, TypeOK, Publisher
    <3> QED  BY <1>2, <3>1 DEF PublisherOK, TypeOK, Mark, AtPost, Events
  <2>3. CountOK'
    <3>1. \A e \in Events : Rest(p).read[e] \in {0, pub[p].read[e]}  BY RestType DEF Mark
    <3>2. \A e \in Events : tries[e] \in Nat /\ row'[e].attempts = row[e].attempts
        BY <1>2 DEF TypeOK, OutboxRow
    <3> QED  BY <1>2, <3>1, <3>2 DEF CountOK, TypeOK, Mark
  <2>4. PublishedArrived' /\ DeadTriedEnough'
      BY <1>1, <1>2 DEF PublishedArrived, DeadTriedEnough, TypeOK, OutboxRow, Mark
  <2> QED  BY <2>1, <2>2, <2>3, <2>4
<1>3. CASE Fault /\ pub' = [pub EXCEPT ![p].pc = "fail"] /\ UNCHANGED <<row, published>>
  <2>1. TypeOK'
    <3>1. pub[p] \in Publisher  BY DEF TypeOK
    <3>2. [pub[p] EXCEPT !.pc = "fail"] \in Publisher  BY <3>1 DEF Publisher
    <3> QED  BY <1>3, <3>2 DEF TypeOK, Mark, Fault
  <2>2. PublisherOK' /\ CountOK'  BY <1>3 DEF PublisherOK, CountOK, TypeOK, Publisher, Mark, AtPost
  <2> QED  BY <1>3, <2>1, <2>2 DEF PublishedArrived, DeadTriedEnough, Mark
<1> QED  BY <1>2, <1>3 DEF Mark

LEMMA FailStep == ASSUME TriesInv, NEW p \in Publishers, Fail(p) PROVE TriesInv'
<1> USE DEF TriesInv
<1> DEFINE e == pub[p].sending
           n == pub[p].read[e] + 1
           by == pub[p].error
<1>1. e \in Events /\ n \in Nat /\ by \in {"no", "refused", "failed"}
    BY DEF Fail, PublisherOK, AtPost, TypeOK, Publisher
<1>2. /\ row' = [row EXCEPT ![e] = IF Dead(n, by)
                                   THEN [row[e] EXCEPT !.attempts = @ + 1, !.age = Unclaimed, !.dead = by]
                                   ELSE [row[e] EXCEPT !.attempts = @ + 1, !.age = Unclaimed, !.wait = Backoff(n)]]
      /\ tries' = [tries EXCEPT ![e] = @ + 1]
      /\ pub' = [pub EXCEPT ![p] = Rest(p)] /\ arrived' = arrived /\ faults' = faults
      /\ written' = written /\ published' = published
    BY DEF Fail
<1>3. Backoff(n) \in 0..MaxBackoff  BY <1>1, BackoffType
<1> HIDE DEF n, by
<1>5. TypeOK'
  <2>1. row[e] \in OutboxRow /\ row[e].attempts + 1 \in Nat  BY <1>1 DEF TypeOK, OutboxRow
  <2>2. row' \in [Events -> OutboxRow]
    <3>1. [row[e] EXCEPT !.attempts = row[e].attempts + 1, !.age = Unclaimed, !.dead = by] \in OutboxRow
        BY <1>1, <2>1, RowEdits, AgesKnown
    <3>2. [row[e] EXCEPT !.attempts = row[e].attempts + 1, !.age = Unclaimed, !.wait = Backoff(n)] \in OutboxRow
        BY <1>3, <2>1, RowEdits, AgesKnown
    <3>3. row' = [row EXCEPT ![e] = row'[e]]  BY <1>1, <1>2 DEF TypeOK
    <3>4. row'[e] \in OutboxRow  BY <1>1, <1>2, <3>1, <3>2 DEF TypeOK
    <3> QED  BY <1>1, <3>3, <3>4 DEF TypeOK
  <2> QED  BY <2>2, <1>1, <1>2, RestType DEF TypeOK, Fail
<1>6. PublisherOK'
  <2>1. Rest(p).pc \in {"idle", "next"} /\ Rest(p).sending = 0 /\ Rest(p).left = 0 /\ Rest(p).batch \subseteq Events
          /\ (Rest(p).pc = "idle" => Rest(p).batch = {})
      BY RestType DEF Fail, TypeOK, Publisher
  <2> QED  BY <1>2, <2>1 DEF PublisherOK, TypeOK, AtPost, Events
<1>7. /\ row'[e].attempts = row[e].attempts + 1
      /\ row'[e].dead # "no" => row'[e].dead = row[e].dead \/ (Dead(n, by) /\ row'[e].dead = by)
      /\ \A d \in Events \ {e} : row'[d] = row[d] /\ tries'[d] = tries[d]
      /\ tries'[e] = tries[e] + 1 /\ \A d \in Events : tries[d] \in Nat
    BY <1>1, <1>2 DEF TypeOK, OutboxRow
<1>8. CountOK'
  <2>1. \A d \in Events : Rest(p).read[d] \in {0, pub[p].read[d]}  BY RestType DEF Fail
  <2>2. \A q \in Publishers, d \in Events : pub'[q].read[d] \in {0, pub[q].read[d]}
      BY <1>2, <2>1 DEF TypeOK
  <2>3. \A d \in Events : tries'[d] >= tries[d] /\ row'[d].attempts = tries'[d]
      BY <1>1, <1>7 DEF CountOK
  <2>4. \A q \in Publishers, d \in Events : pub[q].read[d] \in Nat /\ tries'[d] \in Nat
      BY <1>7 DEF TypeOK, Publisher
  <2> QED  BY <1>7, <2>2, <2>3, <2>4 DEF CountOK
<1>9. PublishedArrived'  BY <1>2 DEF PublishedArrived
<1>10. DeadTriedEnough'
  <2> SUFFICES ASSUME NEW d \in Events, row'[d].dead # "no"
               PROVE  tries'[d] >= IF row'[d].dead = "refused" THEN DeadAfterRefusals ELSE DeadAfterAttempts
      BY DEF DeadTriedEnough
  <2>1. CASE d # e  BY <2>1, <1>7 DEF DeadTriedEnough
  <2>2. CASE d = e /\ row'[d].dead = row[d].dead
      BY <2>2, <1>1, <1>7, OutboxAssumption DEF DeadTriedEnough
  <2>3. CASE d = e /\ Dead(n, by) /\ row'[d].dead = by
    <3>1. tries'[e] >= n  BY <1>1, <1>7 DEF CountOK, n, TypeOK, Publisher
    <3> QED  BY <2>3, <3>1, <1>1, <1>7, OutboxAssumption DEF Dead
  <2> QED  BY <2>1, <2>2, <2>3, <1>7
<1> QED  BY <1>5, <1>6, <1>8, <1>9, <1>10

LEMMA AbandonStep == ASSUME TriesInv, NEW p \in Publishers, Abandon(p) PROVE TriesInv'
<1> USE DEF TriesInv
<1>2. TypeOK'  BY IdleType DEF TypeOK, Abandon, Fault
<1>3. PublisherOK'  BY DEF PublisherOK, TypeOK, Abandon, Idle, AtPost, Events
<1>4. CountOK'  BY DEF CountOK, TypeOK, Abandon, Idle
<1> QED  BY <1>2, <1>3, <1>4 DEF PublishedArrived, DeadTriedEnough, Abandon

LEMMA TickStep == ASSUME TriesInv, Tick PROVE TriesInv'
<1> USE DEF TriesInv
<1>1. row' \in [Events -> OutboxRow] /\ \A e \in Events : /\ row'[e].attempts = row[e].attempts
                                                          /\ row'[e].dead = row[e].dead
  <2> SUFFICES ASSUME NEW e \in Events
               PROVE  row'[e] \in OutboxRow /\ row'[e].attempts = row[e].attempts /\ row'[e].dead = row[e].dead
      BY DEF Tick
  <2> DEFINE w == IF row[e].wait = 0 THEN 0 ELSE row[e].wait - 1
             a == IF row[e].age = Unclaimed THEN row[e].age ELSE Older(row[e].age)
  <2>1. row[e] \in OutboxRow  BY DEF TypeOK
  <2>2. w \in 0..MaxBackoff  BY <2>1, OutboxAssumption DEF OutboxRow
  <2>3. a \in Ages  BY <2>1, AgesKnown DEF OutboxRow, Older
  <2>4. row'[e] = [row[e] EXCEPT !.wait = w, !.age = a]  BY DEF Tick
  <2> HIDE DEF w, a
  <2> QED  BY <2>1, <2>2, <2>3, <2>4 DEF OutboxRow
<1>2. /\ pub' \in [Publishers -> Publisher]
      /\ \A p \in Publishers : /\ pub'[p].pc = pub[p].pc /\ pub'[p].batch = pub[p].batch /\ pub'[p].read = pub[p].read
                               /\ pub'[p].sending = pub[p].sending
                               /\ pub'[p].left = IF pub[p].left = 0 THEN 0 ELSE pub[p].left - 1
  <2> SUFFICES ASSUME NEW p \in Publishers
               PROVE  /\ pub'[p] \in Publisher
                      /\ pub'[p].pc = pub[p].pc /\ pub'[p].batch = pub[p].batch /\ pub'[p].read = pub[p].read
                      /\ pub'[p].sending = pub[p].sending
                      /\ pub'[p].left = IF pub[p].left = 0 THEN 0 ELSE pub[p].left - 1
      BY DEF Tick
  <2> DEFINE l == IF pub[p].left = 0 THEN 0 ELSE pub[p].left - 1
             t == IF pub[p].pc = "idle" THEN 0 ELSE Older(pub[p].held)
  <2>1. pub[p] \in Publisher  BY DEF TypeOK
  <2>2. l \in 0..SendTimeout  BY <2>1, OutboxAssumption DEF Publisher
  <2>3. pub'[p] = [pub[p] EXCEPT !.left = l, !.held = t]  BY DEF Tick
  <2>6. t \in 0..(Lease + 1)  BY <2>1, OutboxAssumption DEF Publisher, Older
  <2> HIDE DEF t
  <2>4. pub'[p].left = l  BY <2>1, <2>3 DEF Publisher
  <2> HIDE DEF l
  <2>5. /\ pub'[p] \in Publisher
        /\ pub'[p].pc = pub[p].pc /\ pub'[p].batch = pub[p].batch /\ pub'[p].read = pub[p].read
        /\ pub'[p].sending = pub[p].sending
      BY <2>1, <2>2, <2>3, <2>6 DEF Publisher
  <2> QED  BY <2>4, <2>5 DEF l
<1>3. TypeOK'
  <2>1. late' \subseteq Events  BY DEF TypeOK, Tick
  <2> QED  BY <1>1, <1>2, <2>1 DEF TypeOK, Tick
<1>4. PublisherOK'
  <2>1. arrived' = arrived  BY DEF Tick
  <2>2. \A p \in Publishers : pub[p].left = 0 => pub'[p].left = 0  BY <1>2
  <2> QED  BY <1>2, <2>1, <2>2 DEF PublisherOK
<1>5. CountOK'  BY <1>1, <1>2 DEF CountOK, Tick
<1> QED  BY <1>1, <1>3, <1>4, <1>5 DEF PublishedArrived, DeadTriedEnough, Tick

LEMMA TriesStep == TriesInv /\ [Next]_vars => TriesInv'
<1> SUFFICES ASSUME TriesInv, [Next]_vars PROVE TriesInv'  OBVIOUS
<1>1. CASE \E e \in Events : Write(e)  BY <1>1, WriteStep
<1>2. CASE \E p \in Publishers : Runs(p)
    BY <1>2, ClaimStep, PostStep, AnswerStep, MarkStep, FailStep DEF Runs
<1>3. CASE \E p \in Publishers : Abandon(p)  BY <1>3, AbandonStep
<1>4. CASE Tick  BY <1>4, TickStep
<1>5. CASE UNCHANGED vars
    BY <1>5 DEF vars, TriesInv, TypeOK, PublisherOK, CountOK, PublishedArrived, DeadTriedEnough
<1> QED  BY <1>1, <1>2, <1>3, <1>4, <1>5 DEF Next

(* Whatever the publishers, the batch and the lease, the counts hold. *)
THEOREM Counted == Spec => []TriesInv
<1>1. Init => TriesInv  BY InitTries
<1>2. TriesInv /\ [Next]_vars => TriesInv'  BY TriesStep
<1> QED  BY <1>1, <1>2, PTL DEF Spec

(* Every value the publishers write is of its type (TypeOK). *)
THEOREM OutboxTypes == Spec => []TypeOK
<1>1. TriesInv => TypeOK  BY DEF TriesInv
<1> QED  BY <1>1, Counted, PTL

(* An event that is marked published has arrived, also when leases expire under
   a publisher and two of them send one row (send). *)
THEOREM MarkedHasArrived == Spec => []PublishedArrived
<1>1. TriesInv => PublishedArrived  BY DEF TriesInv
<1> QED  BY <1>1, Counted, PTL

(* No event is given up before it had its tries, also when two publishers count
   them at once (runOnce). *)
THEOREM GivenUpLate == Spec => []DeadTriedEnough
<1>1. TriesInv => DeadTriedEnough  BY DEF TriesInv
<1> QED  BY <1>1, Counted, PTL

-------------------------------------------------------------------------------
(* A row that is not late is claimed as long ago as the publisher claimed it that
   has it in its hands, which is within the lease. *)
LeaseOK ==
    \A p \in Publishers, e \in Events :
        e \in InHand(pub[p]) /\ e \notin late
            => row[e].age = pub[p].held /\ pub[p].held <= Lease

(* A row that is not late is in one hand only. *)
Alone ==
    \A p, q \in Publishers, e \in Events :
        e \in InHand(pub[p]) /\ e \in InHand(pub[q]) /\ e \notin late => p = q

(* The inductive invariant of the lease. *)
LeaseInv == TriesInv /\ LeaseOK /\ Alone

(* A step of p after which it holds no row it did not hold, and which leaves
   alone the ages of the rows in hand and the time of the claims. *)
LEMMA FewerInHand ==
    ASSUME LeaseInv, late' = late,
           \A q \in Publishers : InHand(pub'[q]) \subseteq InHand(pub[q]),
           \A q \in Publishers, e \in Events :
              e \in InHand(pub'[q]) => pub'[q].held = pub[q].held,
           \A q \in Publishers, e \in Events :
              e \in InHand(pub'[q]) /\ e \notin late => row'[e].age = row[e].age
    PROVE  LeaseOK' /\ Alone'
<1>1. LeaseOK'  BY DEF LeaseInv, LeaseOK
<1>2. Alone'  BY DEF LeaseInv, Alone
<1> QED  BY <1>1, <1>2

(* claim takes no row that is in another publisher's hands and not late. *)
LEMMA ClaimLease == ASSUME LeaseInv, NEW p \in Publishers, Claim(p) PROVE LeaseOK' /\ Alone'
<1> PICK S \in SUBSET Events :
        /\ \A e \in S : Claimable(e)
        /\ row' = [e \in Events |-> IF e \in S THEN [row[e] EXCEPT !.age = 0] ELSE row[e]]
        /\ pub' = [pub EXCEPT ![p] = [Idle EXCEPT !.pc = "next", !.batch = S,
                                                  !.read = [e \in Events |-> IF e \in S THEN row[e].attempts ELSE 0]]]
    BY DEF Claim, Due
<1>1. /\ pub'[p].batch = S /\ pub'[p].sending = 0 /\ pub'[p].held = 0
      /\ \A q \in Publishers \ {p} : pub'[q] = pub[q]
    BY DEF LeaseInv, TriesInv, TypeOK, Idle
<1>2. InHand(pub'[p]) = S /\ late' = late  BY <1>1 DEF InHand, Events, Claim
<1>3. \A e \in Events : row[e].age \in Int /\ row'[e].age = IF e \in S THEN 0 ELSE row[e].age
    BY AgesKnown DEF LeaseInv, TriesInv, TypeOK, OutboxRow
<1>4. \A q \in Publishers, e \in Events : e \in InHand(pub[q]) /\ e \notin late => e \notin S
  <2> SUFFICES ASSUME NEW q \in Publishers, NEW e \in Events, e \in InHand(pub[q]), e \notin late
               PROVE  ~Claimable(e)
      OBVIOUS
  <2>1. row[e].age = pub[q].held /\ pub[q].held <= Lease  BY DEF LeaseInv, LeaseOK
  <2>2. pub[q].held \in Nat  BY OutboxAssumption DEF LeaseInv, TriesInv, TypeOK, Publisher
  <2> QED  BY <2>1, <2>2, OutboxAssumption DEF Claimable, Unclaimed
<1>5. LeaseOK'
  <2> SUFFICES ASSUME NEW q \in Publishers, NEW e \in Events, e \in InHand(pub'[q]), e \notin late
               PROVE  row'[e].age = pub'[q].held /\ pub'[q].held <= Lease
      BY <1>2 DEF LeaseOK
  <2>1. CASE q = p  BY <2>1, <1>1, <1>2, <1>3, OutboxAssumption
  <2>2. CASE q # p
    <3>1. e \in InHand(pub[q]) /\ pub'[q] = pub[q] /\ row'[e].age = row[e].age  BY <2>2, <1>1, <1>3, <1>4
    <3> QED  BY <3>1 DEF LeaseInv, LeaseOK
  <2> QED  BY <2>1, <2>2
<1>6. Alone'
  <2> SUFFICES ASSUME NEW q \in Publishers, NEW r \in Publishers, NEW e \in Events,
                      e \in InHand(pub'[q]), e \in InHand(pub'[r]), e \notin late
               PROVE  q = r
      BY <1>2 DEF Alone
  <2>1. CASE q = p \/ r = p  BY <2>1, <1>1, <1>2, <1>4
  <2>2. CASE q # p /\ r # p  BY <2>2, <1>1 DEF LeaseInv, Alone
  <2> QED  BY <2>1, <2>2
<1> QED  BY <1>5, <1>6

(* The row that is sent was in the batch. *)
LEMMA PostLease == ASSUME LeaseInv, NEW p \in Publishers, Post(p) PROVE LeaseOK' /\ Alone'
<1> PICK e \in pub[p].batch :
        pub' = [pub EXCEPT ![p] = [pub[p] EXCEPT !.pc = "post", !.sending = e, !.left = SendTimeout,
                                                 !.batch = @ \ {e}]]
    BY DEF Post
<1>1. pub[p] \in Publisher  BY DEF LeaseInv, TriesInv, TypeOK
<1>2. pub'[p].batch = pub[p].batch \ {e} /\ pub'[p].sending = e /\ pub'[p].held = pub[p].held
    BY <1>1 DEF LeaseInv, TriesInv, TypeOK, Publisher
<1>3. \A q \in Publishers \ {p} : pub'[q] = pub[q]  BY DEF LeaseInv, TriesInv, TypeOK
<1>4. \A q \in Publishers : InHand(pub'[q]) \subseteq InHand(pub[q]) /\ pub'[q].held = pub[q].held
    BY <1>2, <1>3 DEF InHand
<1> QED  BY <1>4, FewerInHand DEF Post

LEMMA AnswerLease == ASSUME LeaseInv, NEW p \in Publishers, Answer(p) PROVE LeaseOK' /\ Alone'
<1> PICK a \in Answers :
        pub' = [pub EXCEPT ![p] = [pub[p] EXCEPT !.pc = AfterAnswer(a), !.left = 0,
                                                 !.error = IF a = "refused" THEN a ELSE "failed"]]
    BY DEF Answer
<1>1. \A q \in Publishers : /\ pub'[q].batch = pub[q].batch /\ pub'[q].sending = pub[q].sending
                            /\ pub'[q].held = pub[q].held
    BY DEF LeaseInv, TriesInv, TypeOK, Publisher
<1>2. \A q \in Publishers : InHand(pub'[q]) = InHand(pub[q])  BY <1>1 DEF InHand
<1> QED  BY <1>1, <1>2, FewerInHand DEF Answer

(* The row that was sent leaves its publisher's hands; its claim is wiped, which
   nobody else has who is not late. *)
LEMMA GivenBack ==
    ASSUME LeaseInv, NEW p \in Publishers, pub[p].pc \in {"mark", "fail"},
           pub' = [pub EXCEPT ![p] = Rest(p)], late' = late,
           \A e \in Events : e # pub[p].sending => row'[e].age = row[e].age
    PROVE  LeaseOK' /\ Alone'
<1>1. /\ pub[p] \in Publisher /\ pub[p].sending \in Events /\ pub[p].sending \notin pub[p].batch
    BY DEF LeaseInv, TriesInv, TypeOK, PublisherOK, AtPost
<1>2. pub'[p] = Rest(p) /\ \A q \in Publishers \ {p} : pub'[q] = pub[q]
    BY DEF LeaseInv, TriesInv, TypeOK
<1>3. /\ InHand(Rest(p)) = InHand(pub[p]) \ {pub[p].sending}
      /\ pub[p].batch # {} => Rest(p).held = pub[p].held
  <2>1. CASE pub[p].batch = {}  BY <2>1, <1>1 DEF InHand, Rest, Idle, Events
  <2>2. CASE pub[p].batch # {}
    <3>1. Rest(p).batch = pub[p].batch /\ Rest(p).sending = 0 /\ Rest(p).held = pub[p].held
        BY <2>2, <1>1 DEF Rest, Publisher
    <3> QED  BY <1>1, <3>1 DEF InHand, Events
  <2> QED  BY <2>1, <2>2
<1>4. \A q \in Publishers : InHand(pub'[q]) \subseteq InHand(pub[q])  BY <1>2, <1>3
<1>5. \A q \in Publishers, e \in Events : e \in InHand(pub'[q]) => pub'[q].held = pub[q].held
  <2>1. \A e \in Events : e \in InHand(Rest(p)) => pub[p].batch # {}  BY <1>3 DEF InHand
  <2> QED  BY <1>2, <1>3, <2>1
<1>6. \A q \in Publishers, e \in Events : e \in InHand(pub'[q]) /\ e \notin late => row'[e].age = row[e].age
  <2>1. pub[p].sending \in InHand(pub[p])  BY <1>1 DEF InHand
  <2>2. \A q \in Publishers : pub[p].sending \in InHand(pub'[q]) => pub[p].sending \in late
      BY <1>1, <1>2, <1>3, <1>4, <2>1 DEF LeaseInv, Alone
  <2> QED  BY <2>2
<1> QED  BY <1>4, <1>5, <1>6, FewerInHand

LEMMA MarkLease == ASSUME LeaseInv, NEW p \in Publishers, Mark(p) PROVE LeaseOK' /\ Alone'
<1>1. CASE row' = [row EXCEPT ![pub[p].sending].age = Unclaimed] /\ pub' = [pub EXCEPT ![p] = Rest(p)]
  <2>1. \A e \in Events : e # pub[p].sending => row'[e].age = row[e].age
      BY <1>1 DEF LeaseInv, TriesInv, TypeOK
  <2> QED  BY <1>1, <2>1, GivenBack DEF Mark
<1>2. CASE row' = row /\ pub' = [pub EXCEPT ![p].pc = "fail"]
  <2>1. \A q \in Publishers : /\ pub'[q].batch = pub[q].batch /\ pub'[q].sending = pub[q].sending
                              /\ pub'[q].held = pub[q].held
      BY <1>2 DEF LeaseInv, TriesInv, TypeOK, Publisher
  <2>2. \A q \in Publishers : InHand(pub'[q]) = InHand(pub[q])  BY <2>1 DEF InHand
  <2> QED  BY <1>2, <2>1, <2>2, FewerInHand DEF Mark
<1> QED  BY <1>1, <1>2 DEF Mark

LEMMA FailLease == ASSUME LeaseInv, NEW p \in Publishers, Fail(p) PROVE LeaseOK' /\ Alone'
<1>1. \A e \in Events : e # pub[p].sending => row'[e].age = row[e].age
    BY DEF Fail, LeaseInv, TriesInv, TypeOK
<1> QED  BY <1>1, GivenBack DEF Fail

LEMMA AbandonLease == ASSUME LeaseInv, NEW p \in Publishers, Abandon(p) PROVE LeaseOK' /\ Alone'
<1>1. row' = row /\ late' = late /\ pub'[p] = Idle /\ \A q \in Publishers \ {p} : pub'[q] = pub[q]
    BY DEF Abandon, LeaseInv, TriesInv, TypeOK
<1>2. InHand(pub'[p]) = {}  BY <1>1 DEF InHand, Idle, Events
<1>3. /\ \A q \in Publishers : InHand(pub'[q]) \subseteq InHand(pub[q])
      /\ \A q \in Publishers, e \in Events : e \in InHand(pub'[q]) => pub'[q].held = pub[q].held
  BY <1>1, <1>2
<1> QED  BY <1>1, <1>3, FewerInHand

(* While time passes, a row in hand ages with its claim, or it is late. *)
LEMMA TickLease == ASSUME LeaseInv, Tick PROVE LeaseOK' /\ Alone'
<1>1. \A p \in Publishers : pub[p] \in Publisher /\ pub[p].held \in Nat
    BY OutboxAssumption DEF LeaseInv, TriesInv, TypeOK, Publisher
<1>2. \A p \in Publishers : /\ pub'[p].batch = pub[p].batch /\ pub'[p].sending = pub[p].sending
                            /\ pub[p].pc # "idle" => pub'[p].held = Older(pub[p].held)
  <2> SUFFICES ASSUME NEW p \in Publishers
               PROVE  /\ pub'[p].batch = pub[p].batch /\ pub'[p].sending = pub[p].sending
                      /\ pub[p].pc # "idle" => pub'[p].held = Older(pub[p].held)
      OBVIOUS
  <2> DEFINE l == IF pub[p].left = 0 THEN 0 ELSE pub[p].left - 1
             t == IF pub[p].pc = "idle" THEN 0 ELSE Older(pub[p].held)
  <2>1. pub'[p] = [pub[p] EXCEPT !.left = l, !.held = t]  BY DEF Tick
  <2> HIDE DEF l
  <2>2. pub'[p].batch = pub[p].batch /\ pub'[p].sending = pub[p].sending /\ pub'[p].held = t
    <3> HIDE DEF t
    <3> QED  BY <1>1, <2>1 DEF Publisher
  <2> QED  BY <2>2
<1>3. \A p \in Publishers : InHand(pub'[p]) = InHand(pub[p])  BY <1>2 DEF InHand
<1>4. late \subseteq late'  BY DEF Tick
<1>5. Alone'  BY <1>3, <1>4 DEF LeaseInv, Alone
<1>6. LeaseOK'
  <2> SUFFICES ASSUME NEW p \in Publishers, NEW e \in Events, e \in InHand(pub'[p]), e \notin late'
               PROVE  row'[e].age = pub'[p].held /\ pub'[p].held <= Lease
      BY DEF LeaseOK
  <2>1. e \in InHand(pub[p]) /\ e \notin late  BY <1>3, <1>4
  <2>2. row[e].age = pub[p].held /\ pub[p].held <= Lease  BY <2>1 DEF LeaseInv, LeaseOK
  <2>3. Older(pub[p].held) <= Lease
    <3>1. ~(Older(pub[p].held) > Lease)  BY <2>1 DEF Tick
    <3> QED  BY <1>1, <3>1, OutboxAssumption DEF Older
  <2>4. pub[p].pc # "idle"
      BY <2>1 DEF LeaseInv, TriesInv, PublisherOK, AtPost, InHand, Events
  <2>5. row'[e].age = Older(row[e].age)
    <3> DEFINE w == IF row[e].wait = 0 THEN 0 ELSE row[e].wait - 1
               a == IF row[e].age = Unclaimed THEN row[e].age ELSE Older(row[e].age)
    <3>1. row'[e] = [row[e] EXCEPT !.wait = w, !.age = a] /\ row[e] \in OutboxRow
        BY DEF Tick, LeaseInv, TriesInv, TypeOK
    <3> HIDE DEF w
    <3>2. row'[e].age = a
      <4> HIDE DEF a
      <4> QED  BY <3>1 DEF OutboxRow
    <3>3. row[e].age # Unclaimed  BY <1>1, <2>2 DEF Unclaimed
    <3> QED  BY <3>2, <3>3
  <2> QED  BY <1>2, <2>2, <2>3, <2>4, <2>5
<1> QED  BY <1>5, <1>6

LEMMA LeaseStep == LeaseInv /\ [Next]_vars => LeaseInv'
<1> SUFFICES ASSUME LeaseInv, [Next]_vars PROVE LeaseInv'  OBVIOUS
<1>1. TriesInv'  BY TriesStep DEF LeaseInv
<1>2. CASE \E e \in Events : Write(e)
    BY <1>1, <1>2 DEF LeaseInv, LeaseOK, Alone, Write
<1>3. CASE \E p \in Publishers : Runs(p)
    BY <1>1, <1>3, ClaimLease, PostLease, AnswerLease, MarkLease, FailLease DEF Runs, LeaseInv
<1>4. CASE \E p \in Publishers : Abandon(p)  BY <1>1, <1>4, AbandonLease DEF LeaseInv
<1>5. CASE Tick  BY <1>1, <1>5, TickLease DEF LeaseInv
<1>6. CASE UNCHANGED vars  BY <1>1, <1>6 DEF vars, LeaseInv, LeaseOK, Alone
<1> QED  BY <1>2, <1>3, <1>4, <1>5, <1>6 DEF Next

(* Two publishers send one row at once only when one had it in its hands for
   longer than the lease, whatever the batch, the timeout and the lease, however
   many publishers there are and whenever they die (claim). *)
THEOREM LeaseProtects == Spec => []TwoOnlyWhenLate
<1>1. Init => LeaseInv
  <2> SUFFICES ASSUME Init PROVE LeaseInv  OBVIOUS
  <2>1. \A p \in Publishers : InHand(pub[p]) = {}  BY DEF Init, InHand, Idle, Events
  <2> QED  BY <2>1, InitTries DEF LeaseInv, LeaseOK, Alone
<1>2. LeaseInv => TwoOnlyWhenLate
  <2> SUFFICES ASSUME LeaseInv, NEW p \in Publishers, NEW q \in Publishers, p # q, SendSame(p, q)
               PROVE  pub[p].sending \in late
      BY DEF TwoOnlyWhenLate
  <2>1. pub[p].sending \in Events /\ pub[q].sending = pub[p].sending
      BY DEF SendSame, LeaseInv, TriesInv, PublisherOK, AtPost
  <2>2. pub[p].sending \in InHand(pub[p]) /\ pub[p].sending \in InHand(pub[q])  BY <2>1 DEF InHand
  <2> QED  BY <2>1, <2>2 DEF LeaseInv, Alone
<1> QED  BY <1>1, <1>2, LeaseStep, PTL DEF Spec
===============================================================================
