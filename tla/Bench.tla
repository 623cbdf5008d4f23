-------------------------------- MODULE Bench --------------------------------
(***************************************************************************)
(* Benchmark runs (http/tasks-api.js POST /benchmarks/:id/run, bench.js,   *)
(* bench-publisher.js).  One request starts a matrix of tasks one after    *)
(* the other, group by group (model, harness, repetition), and each group  *)
(* is one published run.  The tasks of a group end while later cells are   *)
(* still being started; each end asks the publisher whether the group is   *)
(* whole.  The publisher's memory of what it is publishing is a set of     *)
(* this process.                                                           *)
(***************************************************************************)
EXTENDS Naturals, FiniteSets

CONSTANTS
    Sessions,     \* the requests of one person
    Groups,       \* models x harnesses x repetitions of each
    TaskCount,    \* tasks of the benchmark
    MaxActive,    \* runs a person may have active at once (3)
    DailyTasks,   \* config.bench.dailyTasks
    MaxFaults     \* bound: statements and posts that fail, restarts of Codes

VARIABLES
    session,     \* where each request is, and the cells it has started
    cell,        \* the row of each cell: "none" until its insert
    publisher,   \* onTaskTerminal of each cell's end, with the siblings it read
    publishing,  \* the groups this process publishes, or has
    published,   \* what Bench was sent
    today,       \* benchmark rows made since midnight
    failures

bvars == <<session, cell, publisher, publishing, published, today, failures>>

Total == Groups * TaskCount
Cells == Sessions \X (1..Total)

(* expandMatrix: the tasks are the inner loop.                              *)
GroupOf(x) == <<x[1], (x[2] - 1) \div TaskCount>>
Siblings(x) == {y \in Cells : GroupOf(y) = GroupOf(x)}

Quiet == [pc |-> "none", rows |-> {}]

InitBench ==
    /\ session = [s \in Sessions |-> [pc |-> "idle", n |-> 0]]
    /\ cell = [x \in Cells |-> "none"]
    /\ publisher = [x \in Cells |-> Quiet]
    /\ publishing = {}
    /\ published = {}
    /\ today = 0
    /\ failures = 0

At(s, pc) == session[s].pc = pc
Goes(s, pc) == session' = [session EXCEPT ![s].pc = pc]
Fault == failures < MaxFaults /\ failures' = failures + 1

(* The guard, the person's token, the body and the definition of the        *)
(* benchmark: refused, or a matrix.                                         *)
Ask(s) ==
    /\ At(s, "idle")
    /\ Goes(s, "count") \/ Goes(s, "refused")
    /\ UNCHANGED <<cell, publisher, publishing, published, today, failures>>

Ended(x) == cell[x] \in {"ended", "failed"}

(* A session with a row that has not ended (its own rolled-back work is not *)
(* seen by others).                                                         *)
Active == {s \in Sessions : \E n \in 1..Total : cell[<<s, n>>] \in {"queued", "failing", "running"}}

Count(s) ==
    /\ At(s, "count")
    /\ Goes(s, IF Cardinality(Active) >= MaxActive THEN "refused" ELSE "daily")
    /\ UNCHANGED <<cell, publisher, publishing, published, today, failures>>

(* The day's cap, then the person's bench project at the Network.           *)
Daily(s) ==
    /\ At(s, "daily")
    /\ \/ today + Total > DailyTasks /\ Goes(s, "refused")
       \/ today + Total <= DailyTasks /\ (Goes(s, "start") \/ Goes(s, "refused"))
    /\ UNCHANGED <<cell, publisher, publishing, published, today, failures>>

Midnight ==
    /\ today > 0
    /\ today' = 0
    /\ UNCHANGED <<session, cell, publisher, publishing, published, failures>>

(* The loop over the matrix: taskStore.start inserts the row ...            *)
Here(s) == <<s, session[s].n>>

Start(s) ==
    /\ At(s, "start")
    /\ session' = [session EXCEPT ![s] = [pc |-> "submit", n |-> session[s].n + 1]]
    /\ cell' = [cell EXCEPT ![<<s, session[s].n + 1>>] = "queued"]
    /\ today' = today + 1
    /\ UNCHANGED <<publisher, publishing, published, failures>>

Onward(s) == Goes(s, IF session[s].n = Total THEN "done" ELSE "start")

(* ... and submits its job.                                                 *)
Submit(s) ==
    /\ At(s, "submit")
    /\ cell' = [cell EXCEPT ![Here(s)] = "running"]
    /\ Onward(s)
    /\ UNCHANGED <<publisher, publishing, published, today, failures>>

(* A submit that Run refuses: the row fails and its publisher runs inside   *)
(* the same transaction, so only it sees the row as failed until it is done.*)
SubmitFails(s) ==
    /\ At(s, "submit")
    /\ Fault
    /\ cell' = [cell EXCEPT ![Here(s)] = "failing"]
    /\ publisher' = [publisher EXCEPT ![Here(s)] = [Quiet EXCEPT !.pc = "has"]]
    /\ Goes(s, "failing")
    /\ UNCHANGED <<publishing, published, today>>

Commit(s) ==
    /\ At(s, "failing")
    /\ publisher[Here(s)].pc = "none"
    /\ cell' = [cell EXCEPT ![Here(s)] = "failed"]
    /\ Onward(s)
    /\ UNCHANGED <<publisher, publishing, published, today, failures>>

(* A start throws: "Codes started n of total tasks"; the rest never starts. *)
Throws(s) ==
    /\ At(s, "start")
    /\ Fault
    /\ Goes(s, "502")
    /\ UNCHANGED <<cell, publisher, publishing, published, today>>

(* A job ends, is stopped or expires: the update commits, then the          *)
(* publisher hears of it.  A benchmark's task has no follow-up (afterEnd).  *)
Ends(x) ==
    /\ cell[x] = "running"
    /\ cell' = [cell EXCEPT ![x] = "ended"]
    /\ publisher' = [publisher EXCEPT ![x] = [Quiet EXCEPT !.pc = "has"]]
    /\ UNCHANGED <<session, publishing, published, today, failures>>

(* Another report of a task that has ended (a late event, the read beside   *)
(* it) changes nothing and asks the publisher again.                        *)
Again(x) ==
    /\ cell[x] = "ended"
    /\ publisher[x].pc = "none"
    /\ publisher' = [publisher EXCEPT ![x] = [Quiet EXCEPT !.pc = "has"]]
    /\ UNCHANGED <<session, cell, publishing, published, today, failures>>

(* onTaskTerminal: publishing.has, before the siblings are read.            *)
Has(x) ==
    /\ publisher[x].pc = "has"
    /\ publisher' = [publisher EXCEPT ![x].pc = IF GroupOf(x) \in publishing THEN "none" ELSE "read"]
    /\ UNCHANGED <<session, cell, publishing, published, today, failures>>

(* What x's publisher sees of its siblings.                                 *)
Rows(x) == {y \in Siblings(x) : cell[y] # "none"}
Terminal(x, y) == Ended(y) \/ (y = x /\ cell[y] = "failing")

WholeSoFar(x) == \A y \in Rows(x) : Terminal(x, y)

Whole(x) ==
    /\ Cardinality(Rows(x)) >= TaskCount
    /\ \A y \in Rows(x) : Terminal(x, y)

Read(x) ==
    /\ publisher[x].pc = "read"
    /\ \/ /\ Whole(x)
          /\ publishing' = publishing \cup {GroupOf(x)}
          /\ publisher' = [publisher EXCEPT ![x] = [pc |-> "post", rows |-> Rows(x)]]
       \/ /\ ~Whole(x)
          /\ publisher' = [publisher EXCEPT ![x] = Quiet]
          /\ UNCHANGED publishing
    /\ UNCHANGED <<session, cell, published, today, failures>>

Sent(x) == [group |-> GroupOf(x), rows |-> publisher[x].rows]

Post(x) ==
    /\ publisher[x].pc = "post"
    /\ published' = published \cup {Sent(x)}
    /\ publisher' = [publisher EXCEPT ![x] = Quiet]
    /\ UNCHANGED <<session, cell, publishing, today, failures>>

(* Bench refuses it, does not answer, or its answer is lost: the error is   *)
(* logged, the group leaves the set, and only another report tries again.   *)
PostFails(x) ==
    /\ publisher[x].pc = "post"
    /\ Fault
    /\ published' \in {published, published \cup {Sent(x)}}
    /\ publishing' = publishing \ {GroupOf(x)}
    /\ publisher' = [publisher EXCEPT ![x] = Quiet]
    /\ UNCHANGED <<session, cell, today>>

Restart ==
    /\ Fault
    /\ session' = [s \in Sessions |-> IF session[s].pc \in {"idle", "done", "refused", "502"} THEN session[s]
                                      ELSE [session[s] EXCEPT !.pc = "502"]]
    /\ cell' = [x \in Cells |-> IF cell[x] = "failing" THEN "queued" ELSE cell[x]]
    /\ publisher' = [x \in Cells |-> Quiet]
    /\ publishing' = {}
    /\ UNCHANGED <<published, today>>

NextBench ==
    \/ \E s \in Sessions :
        \/ Ask(s) \/ Count(s) \/ Daily(s) \/ Start(s) \/ Submit(s) \/ SubmitFails(s) \/ Commit(s) \/ Throws(s)
    \/ \E x \in Cells : Ends(x) \/ Again(x) \/ Has(x) \/ Read(x) \/ Post(x) \/ PostFails(x)
    \/ Midnight
    \/ Restart

Spec == InitBench /\ [][NextBench]_bvars

-----------------------------------------------------------------------------

TypeOK ==
    /\ session \in [Sessions -> [pc : {"idle", "count", "daily", "start", "submit", "failing", "done", "refused", "502"},
                                 n : 0..Total]]
    /\ cell \in [Cells -> {"none", "queued", "failing", "running", "ended", "failed"}]
    /\ publisher \in [Cells -> [pc : {"none", "has", "read", "post"}, rows : SUBSET Cells]]
    /\ publishing \subseteq {GroupOf(x) : x \in Cells}
    /\ published \subseteq [group : {GroupOf(x) : x \in Cells}, rows : SUBSET Cells]
    /\ today \in Nat
    /\ failures \in 0..MaxFaults

(* What Bench is sent of a run has every task of its group, none of them    *)
(* still to be started or at work, though the tasks end while later cells   *)
(* are being started and two ends may publish at once.                      *)
PublishedWhole ==
    \A p \in published :
        /\ p.rows = {x \in Cells : GroupOf(x) = p.group}
        /\ \A x \in p.rows : cell[x] # "none" /\ cell[x] # "running"

(* "A person may have at most three benchmark runs active" (tasks-api.js).  *)
ActiveIsBounded == Cardinality(Active) <= MaxActive

(* A run's result is sent once.                                             *)
NotSentTwice ==
    \A x, y \in Cells : x # y /\ GroupOf(x) = GroupOf(y) => ~(publisher[x].pc = "post" /\ publisher[y].pc = "post")

(* Where nothing failed, a run whose tasks have all ended has been sent to  *)
(* Bench, or the end of one of them is still on its way to the publisher:   *)
(* no order of the ends leaves a whole run unsent.                          *)
WholeIsSent ==
    \A s \in Sessions : (\A n \in 1..Total : Ended(<<s, n>>)) /\ failures = 0 =>
        \A n \in 1..Total :
            \/ \E p \in published : p.group = GroupOf(<<s, n>>)
            \/ \E y \in Siblings(<<s, n>>) : publisher[y].pc # "none"
=============================================================================
