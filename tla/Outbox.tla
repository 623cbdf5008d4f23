-------------------------------- MODULE Outbox --------------------------------
(***************************************************************************)
(* The relay of codes_outbox to OpenVibe.Events (server/events/outbox.js    *)
(* createPublisher): publishers claim due rows under a lease, send each one *)
(* under its fixed event id, and record what came of it.                    *)
(*                                                                          *)
(* Event n is the n-th row written. Time is relative: a row's wait is what  *)
(* is left until its next_attempt_at, its age how long ago it was claimed.  *)
(* A POST takes SendTimeout at most; what a publisher does between two      *)
(* POSTs (its token, its statements) takes no time or any time (MayDawdle). *)
(***************************************************************************)
EXTENDS Integers, FiniteSets

CONSTANTS
    MaxEvents,          \* bound: rows of the outbox
    Publishers,         \* the processes that relay it
    Batch,              \* runOnce's limit: the rows of one claim
    Lease,              \* how long a claim holds
    SendTimeout,        \* how long a POST may take
    MaxBackoff,         \* the longest wait of a row that failed (MAX_BACKOFF_MS)
    DeadAfterRefusals, DeadAfterAttempts,
    Answers,            \* what a POST may come to
    MayDawdle,          \* time may pass between two POSTs of a batch
    MaxFaults           \* bound: crashes and failed statements together

ASSUME OutboxAssumption ==
    /\ MaxEvents \in Nat /\ Batch \in Nat \ {0} /\ Lease \in Nat /\ SendTimeout \in Nat
    /\ MaxBackoff \in Nat \ {0} /\ MaxFaults \in Nat
    /\ DeadAfterRefusals \in Nat \ {0} /\ DeadAfterAttempts \in Nat \ {0}
    /\ MayDawdle \in BOOLEAN
    /\ Answers \subseteq {"ok", "lost", "failed", "refused"}

Events == 1..MaxEvents

VARIABLES
    row,        \* codes_outbox: what a row carries
    written,    \* ... the rows that are there
    published,  \* ... the rows with a published_at
    pub,        \* the publishers
    arrived,    \* the events OpenVibe.Events holds
    tries,      \* how often the sending of an event failed (history)
    late,       \* the rows that were in a publisher's hands past its lease (history)
    faults

vars == <<row, written, published, pub, arrived, tries, late, faults>>

Unclaimed == -1
Ages == Unclaimed..(Lease + 1)      \* since the claim; past the lease, no longer counted
OutboxRow == [dead : {"no", "refused", "failed"}, attempts : Nat, wait : 0..MaxBackoff, age : Ages]
NewRow == [dead |-> "no", attempts |-> 0, wait |-> 0, age |-> Unclaimed]

(* A publisher: the rows it still has to send, each with the attempts it read,
   the one it is sending and what that came to, and the time since its claim
   (past the lease, no longer counted). *)
Publisher == [pc : {"idle", "next", "post", "mark", "fail"}, batch : SUBSET Events,
              read : [Events -> Nat], sending : Events \cup {0}, left : 0..SendTimeout,
              error : {"no", "refused", "failed"}, held : 0..(Lease + 1)]
Idle == [pc |-> "idle", batch |-> {}, read |-> [e \in Events |-> 0], sending |-> 0, left |-> 0,
         error |-> "no", held |-> 0]

(* The rows in a publisher's hands. *)
InHand(r) == r.batch \cup ({r.sending} \cap Events)

Doubled == <<1, 2, 4, 8, 16, 32, 64>>

(* backoffMs, in units of five seconds. *)
Backoff(attempts) ==
    LET wait == Doubled[1 + IF attempts > 6 THEN 6 ELSE attempts]
    IN  IF wait > MaxBackoff THEN MaxBackoff ELSE wait

(* What is neither published nor dead. *)
Pending(e) == e \in written \ published /\ row[e].dead = "no"

(* Mutant: a claim holds until its publisher gives it up. *)
NotClaimed(e) == row[e].age = Unclaimed

(* Mutant: another publisher's claim is not looked at. *)
ClaimIgnored(e) == TRUE

(* No claim, or one older than the lease. *)
Claimable(e) == row[e].age = Unclaimed \/ row[e].age > Lease

Due(e) == Pending(e) /\ row[e].wait = 0 /\ Claimable(e)

Fault == faults < MaxFaults /\ faults' = faults + 1

-------------------------------------------------------------------------------
(* emitTask, emitAgentStep: a row, due at once. *)
Write(e) ==
    /\ e \notin written /\ 1..(e - 1) \subseteq written
    /\ written' = written \cup {e}
    /\ UNCHANGED <<row, published, pub, arrived, tries, late, faults>>

(* claim: the oldest due rows, at most Batch of them; they come back in no
   particular order. *)
Claim(p) ==
    /\ pub[p].pc = "idle"
    /\ \E S \in SUBSET {e \in Events : Due(e)} :
        /\ S # {} /\ Cardinality(S) <= Batch
        /\ \A e \in {e \in Events : Due(e)} \ S : Cardinality(S) = Batch /\ \A d \in S : d < e
        /\ row' = [e \in Events |-> IF e \in S THEN [row[e] EXCEPT !.age = 0] ELSE row[e]]
        /\ pub' = [pub EXCEPT ![p] = [Idle EXCEPT !.pc = "next", !.batch = S,
                                                  !.read = [e \in Events |-> IF e \in S THEN row[e].attempts ELSE 0]]]
    /\ UNCHANGED <<written, published, arrived, tries, late, faults>>

(* send: the POST of a row of the batch begins. *)
Post(p) ==
    /\ pub[p].pc = "next"
    /\ \E e \in pub[p].batch :
        pub' = [pub EXCEPT ![p] = [pub[p] EXCEPT !.pc = "post", !.sending = e, !.left = SendTimeout,
                                                 !.batch = @ \ {e}]]
    /\ UNCHANGED <<row, written, published, arrived, tries, late, faults>>

(* send: a 2xx publishes the row, anything else is a failure. *)
AfterAnswer(a) == IF a = "ok" THEN "mark" ELSE "fail"

(* OpenVibe.Events takes the event and says so, takes it and the answer is
   lost, is not reached, or refuses it (a 4xx). *)
Answer(p) ==
    /\ pub[p].pc = "post"
    /\ \E a \in Answers :
        /\ arrived' = IF a \in {"ok", "lost"} THEN arrived \cup {pub[p].sending} ELSE arrived
        /\ pub' = [pub EXCEPT ![p] = [pub[p] EXCEPT !.pc = AfterAnswer(a), !.left = 0,
                                                    !.error = IF a = "refused" THEN a ELSE "failed"]]
    /\ UNCHANGED <<row, written, published, tries, late, faults>>

(* runOnce: on to the next row of the batch. *)
Rest(p) == IF pub[p].batch = {} THEN Idle ELSE [pub[p] EXCEPT !.pc = "next", !.sending = 0, !.error = "no"]

(* send: the row is published; a statement that fails counts as a failed send. *)
Mark(p) ==
    /\ pub[p].pc = "mark"
    /\ \/ /\ row' = [row EXCEPT ![pub[p].sending].age = Unclaimed]
          /\ published' = published \cup {pub[p].sending}
          /\ pub' = [pub EXCEPT ![p] = Rest(p)]
          /\ UNCHANGED faults
       \/ /\ Fault
          /\ pub' = [pub EXCEPT ![p].pc = "fail"]
          /\ UNCHANGED <<row, published>>
    /\ UNCHANGED <<written, arrived, tries, late>>

(* runOnce: the attempts, this one counted, are enough to give the event up. *)
Dead(attempts, error) == attempts >= IF error = "refused" THEN DeadAfterRefusals ELSE DeadAfterAttempts

(* runOnce: the failure of a send is recorded, with a wait or as the last one. *)
Fail(p) ==
    /\ pub[p].pc = "fail"
    /\ LET e == pub[p].sending
           attempts == pub[p].read[e] + 1
       IN  /\ row' = [row EXCEPT ![e] =
                        IF Dead(attempts, pub[p].error)
                        THEN [row[e] EXCEPT !.attempts = @ + 1, !.age = Unclaimed, !.dead = pub[p].error]
                        ELSE [row[e] EXCEPT !.attempts = @ + 1, !.age = Unclaimed, !.wait = Backoff(attempts)]]
           /\ tries' = [tries EXCEPT ![e] = @ + 1]
    /\ pub' = [pub EXCEPT ![p] = Rest(p)]
    /\ UNCHANGED <<written, published, arrived, late, faults>>

(* The publisher dies, or the statement that records a failure fails: the rest
   of its batch stays claimed. *)
Abandon(p) ==
    /\ pub[p].pc # "idle" /\ Fault
    /\ pub' = [pub EXCEPT ![p] = Idle]
    /\ UNCHANGED <<row, written, published, arrived, tries, late>>

(* A time that is counted up to one past the lease. *)
Older(t) == IF t = Lease + 1 THEN t ELSE t + 1

(* Time passes, never past the timeout of a POST. *)
Tick ==
    /\ \A p \in Publishers :
            \/ pub[p].pc = "idle"
            \/ pub[p].pc = "post" /\ pub[p].left > 0
            \/ pub[p].pc # "post" /\ MayDawdle
    /\ row' = [e \in Events |->
                 [row[e] EXCEPT !.wait = IF @ = 0 THEN 0 ELSE @ - 1,
                                !.age = IF @ = Unclaimed THEN @ ELSE Older(@)]]
    /\ pub' = [p \in Publishers |->
                 [pub[p] EXCEPT !.left = IF @ = 0 THEN 0 ELSE @ - 1,
                                !.held = IF pub[p].pc = "idle" THEN 0 ELSE Older(@)]]
    /\ late' = late \cup {e \in Events : \E p \in Publishers :
                             e \in InHand(pub[p]) /\ Older(pub[p].held) > Lease}
    /\ UNCHANGED <<written, published, arrived, tries, faults>>

Init ==
    /\ row = [e \in Events |-> NewRow] /\ written = {} /\ published = {}
    /\ pub = [p \in Publishers |-> Idle]
    /\ arrived = {} /\ tries = [e \in Events |-> 0] /\ late = {} /\ faults = 0

Runs(p) == Claim(p) \/ Post(p) \/ Answer(p) \/ Mark(p) \/ Fail(p)

Next ==
    \/ \E e \in Events : Write(e)
    \/ \E p \in Publishers : Runs(p) \/ Abandon(p)
    \/ Tick

Spec == Init /\ [][Next]_vars

(* Fairness: a publisher's timer chain (schedule) keeps calling runOnce and its
   awaits come back, a POST at the latest at its timeout; time goes on. *)
Fairness == (\A p \in Publishers : WF_vars(Runs(p))) /\ WF_vars(Tick)

FairSpec == Spec /\ Fairness

-------------------------------------------------------------------------------
TypeOK ==
    /\ row \in [Events -> OutboxRow] /\ written \subseteq Events /\ published \subseteq Events
    /\ pub \in [Publishers -> Publisher]
    /\ arrived \subseteq Events
    /\ tries \in [Events -> Nat] /\ late \subseteq Events
    /\ faults \in Nat

(* A row marked published is an event OpenVibe.Events has, whichever publisher
   marked it and whatever failed before (send). *)
PublishedArrived == published \subseteq arrived

(* An event is given up only after as many failed sends as its last failure
   calls for, also when two publishers hold it with attempts read at different
   times (runOnce, deadAfter). *)
DeadTriedEnough ==
    \A e \in Events :
        row[e].dead # "no" =>
            tries[e] >= IF row[e].dead = "refused" THEN DeadAfterRefusals ELSE DeadAfterAttempts

(* Publishers p and q are sending one row. *)
SendSame(p, q) == pub[p].pc = "post" /\ pub[q].pc = "post" /\ pub[p].sending = pub[q].sending

(* A claim keeps a row to its publisher for as long as the lease: two processes
   send a row at once only when one has had it in its hands for longer than the
   lease, whoever died, failed or gave a row back meanwhile (claim, runOnce). *)
TwoOnlyWhenLate ==
    \A p, q \in Publishers : p # q /\ SendSame(p, q) => pub[p].sending \in late

(* Two processes never send one row at once (the comment on the short lease). It
   does not hold: a batch of POSTs may outlast the lease. *)
NeverTwoAtOnce == \A p, q \in Publishers : SendSame(p, q) => p = q

(* A dead event is not sent again (the comment on DEAD_AFTER_ATTEMPTS). *)
DeadIsNotSent ==
    [][\A p \in Publishers, e \in Events :
          Post(p) /\ pub'[p].sending = e => row[e].dead = "no"]_vars

(* No event stays in the outbox: also when publishers die with claims in their
   hands, every row written is published or given up (the lease, the backoff
   and the two limits together). *)
EverySettles == \A e \in Events : e \in written ~> ~Pending(e)
===============================================================================
