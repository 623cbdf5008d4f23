------------------------------ MODULE SessionLog ------------------------------
(***************************************************************************)
(* A task's session (server/domain/session-lines.js): the lines of its     *)
(* jobs, keyed by the place of their event in Run's stream.                *)
(*                                                                         *)
(*  - A recorder per open page (http/run.js, the events route) or per turn *)
(*    (conductor.js `pump`) reads a job's stream from its start and writes *)
(*    each event's lines; a row that is there wins.  Its statement may     *)
(*    fail, and its connection may close in the middle of a line.          *)
(*  - The end of the job is recorded in one transaction that back-fills    *)
(*    what the stream missed from the machine's result.  It locks the      *)
(*    task, not the lines: it reads them, and recorders write on, before   *)
(*    its own insert.                                                      *)
(*  - A reader (http/task-events.js) polls for lines after the last seq it *)
(*    sent and closes once the task has ended.                             *)
(*                                                                         *)
(* Events are numbered within their job's stream (run-pages.test.js).  A   *)
(* line is its content; formatting, clipping to 64 KB, pictures and secret *)
(* redaction do not tell lines apart here.                                 *)
(***************************************************************************)
EXTENDS Naturals, Sequences, FiniteSets, SequencesExt

CONSTANTS
    Viewers,       \* recorders that may be open at once
    Streams,       \* per job: its events, [type, done, cut] (see Output)
    Logs,          \* per job: the lines of the log its result has, 4000 at most (sessionLogOf)
    JobsOf,        \* bound, per kind of task ("conductor", "task"): the jobs it has, 0 for none such
    Stride,        \* SEQ_STRIDE: an event's lines and what is back-filled after them fit in it
    PageSize,      \* lines a reader is sent at once (500)
    MaxFaults      \* bound: statements that fail

VARIABLES
    lines,     \* codes_session_lines: seq -> body
    row,       \* run_tasks: its kind, the job it follows, running, ended or gone (ended so
               \* long ago that its lines were deleted), session_complete_at set or
               \* not, its result's log
    sent,      \* events of the row's job that Run has
    rec,       \* the recorders
    fin,       \* recordState's transaction: idle, or the rows it read; and (history) the log
               \* that session_complete_at was set from
    proofs,    \* the proof items recorded, and their seq when read but not yet appended
    reader,
    faults

vars == <<lines, row, sent, rec, fin, proofs, reader, faults>>

Jobs == DOMAIN Streams
NoLine == [t |-> "none", of |-> "none"]
Line(x) == [t |-> "line", of |-> x]
Fragment(x) == [t |-> "text", of |-> x]    \* the first half of line x, kept as words
Marker(type) == [t |-> type, of |-> "none"]
ProofLine == [t |-> "proof", of |-> "none"]
Contents == UNION {ToSet(Logs[j]) : j \in Jobs}
                \cup UNION {UNION {ToSet(Streams[j][k].done) : k \in DOMAIN Streams[j]} : j \in Jobs}
Bodies == [t : {"line", "text"}, of : Contents] \cup {Marker("state"), Marker("end"), ProofLine}

(* An event carries whole lines and perhaps the beginning of one: a chunk    *)
(* of Run's has fewer lines than SEQ_STRIDE (session-lines.js:24).          *)
ASSUME SessionLogAssumption ==
    /\ Stride \in Nat \ {0} /\ PageSize \in Nat /\ MaxFaults \in Nat
    /\ Streams \in Seq(Seq([type : {"output", "state", "end"}, done : Seq(Contents), cut : Contents \cup {"none"}]))
    /\ \A j \in Jobs : \A k \in DOMAIN Streams[j] : Len(Streams[j][k].done) < Stride
    /\ Logs \in [Jobs -> Seq(Contents)]
    /\ JobsOf \in [{"conductor", "task"} -> 0..Len(Streams)]

(* What the back-fill adds stays within an event's seqs: used[j] is above    *)
(* what an event brings and what the logs of the first j jobs may add to it. *)
FitsIn(used) ==
    /\ \A i \in 0..Len(Streams) :
        /\ \A j \in Jobs : \A k \in DOMAIN Streams[j] : Len(Streams[j][k].done) <= used[i]
        /\ used[i] + 1 < Stride
    /\ \A j \in Jobs : used[j - 1] + Len(Logs[j]) <= used[j]

(* The code's 250,000 seqs hold an event's 66,000 lines (session-lines.js:24) *)
(* and the 4000 of each of 45 results.                                       *)
ASSUME StrideAssumption == \E used \in [0..Len(Streams) -> 0..Stride] : FitsIn(used)

Nothing == [s \in {} |-> NoLine]

Idle == [open |-> "no", job |-> 1, pos |-> 0, buffer |-> "none", base |-> 0]

Init ==
    /\ lines = Nothing
    /\ \E k \in {k \in DOMAIN JobsOf : JobsOf[k] > 0} :
        row = [kind |-> k, job |-> 1, state |-> "running", complete |-> "no", log |-> <<>>]
    /\ sent = 0
    /\ rec = [v \in Viewers |-> Idle]
    /\ fin = [pc |-> "idle", rows |-> Nothing, log |-> <<>>]
    /\ proofs = [pc |-> "idle", seq |-> 0]
    /\ reader = [pc |-> "lines", last |-> 0, got |-> {}]
    /\ faults = 0

(* INSERT ... ON CONFLICT (task_id, seq) DO NOTHING.                        *)
Appended(old, new) ==
    [s \in DOMAIN old \cup DOMAIN new |-> IF s \in DOMAIN old THEN old[s] ELSE new[s]]

-----------------------------------------------------------------------------
(* Run (external): a job's stream grows event by event.                     *)

Emit ==
    /\ row.state = "running"
    /\ sent < Len(Streams[row.job])
    /\ sent' = sent + 1
    /\ UNCHANGED <<lines, row, rec, fin, proofs, reader, faults>>

JobOver == sent = Len(Streams[row.job])

-----------------------------------------------------------------------------
(* The recorder of one connection.                                          *)

(* A page that opens, or a turn that starts, reads the stream of the job    *)
(* the row follows, from its first event.                                   *)
Connect(v) ==
    /\ rec[v].open = "no"
    /\ row.state # "gone"
    /\ rec' = [rec EXCEPT ![v] = [Idle EXCEPT !.open = "yes", !.job = row.job]]
    /\ UNCHANGED <<lines, row, sent, fin, proofs, reader, faults>>

(* recordsOf: an output event completes the lines in `done`, the first of   *)
(* them with what was buffered, and leaves the beginning of `cut` in the    *)
(* buffer; state and end events are lines of their own.                     *)
Base(v, k) == k * Stride

Records(v, k) ==
    LET e == Streams[rec[v].job][k] IN
    IF e.type = "output"
    THEN [s \in {Base(v, k) + i - 1 : i \in DOMAIN e.done} |-> Line(e.done[s - Base(v, k) + 1])]
    ELSE [s \in {Base(v, k)} |-> Marker(e.type)]

BufferAfter(v, k) ==
    LET e == Streams[rec[v].job][k] IN IF e.type = "output" THEN e.cut ELSE rec[v].buffer

HasNext(v) ==
    /\ rec[v].open = "yes"
    /\ rec[v].pos < IF rec[v].job = row.job THEN sent ELSE Len(Streams[rec[v].job])

Pushed(v) ==
    rec' = [rec EXCEPT ![v].pos = @ + 1,
                       ![v].buffer = BufferAfter(v, rec[v].pos + 1),
                       ![v].base = Base(v, rec[v].pos + 1)]

Push(v) ==
    /\ HasNext(v)
    /\ lines' = Appended(lines, Records(v, rec[v].pos + 1))
    /\ Pushed(v)
    /\ UNCHANGED <<row, sent, fin, proofs, reader, faults>>

(* The statement fails: it is logged, and the recorder reads on.            *)
PushFails(v) ==
    /\ HasNext(v)
    /\ faults < MaxFaults
    /\ faults' = faults + 1
    /\ Pushed(v)
    /\ UNCHANGED <<lines, row, sent, fin, proofs, reader>>

(* The connection closes, at the stream's end or before: flush writes what  *)
(* the buffer holds as the last line of the last event.                     *)
Leave(v) ==
    /\ rec[v].open = "yes"
    /\ lines' = IF rec[v].buffer = "none" THEN lines
                ELSE Appended(lines, [s \in {rec[v].base + Stride - 1} |-> Fragment(rec[v].buffer)])
    /\ rec' = [rec EXCEPT ![v] = Idle]
    /\ UNCHANGED <<row, sent, fin, proofs, reader, faults>>

-----------------------------------------------------------------------------
(* recordState: the event, a refresh or the recorder whose stream ended     *)
(* records the end and completes the session, in one transaction.           *)

EndRead ==
    /\ fin.pc = "idle"
    /\ JobOver
    /\ row.state = "running"
    /\ fin' = [fin EXCEPT !.pc = "read", !.rows = lines]
    /\ UNCHANGED <<lines, row, sent, rec, proofs, reader, faults>>

Harness(rows) == {s \in DOMAIN rows : rows[s].t \in {"line", "text", "proof"}}
Below(S, s) == Cardinality({r \in S : r < s})
Greatest(S) == CHOOSE s \in S \cup {0} : \A o \in S : o <= s

(* What each line of the log is matched with: the first line of the harness *)
(* that is the same and comes after all that were matched before, or 0.     *)
Hits(rows, log, m, i) ==
    {s \in Harness(rows) : rows[s] = Line(log[i]) /\ \A k \in 1..(i - 1) : s > m[k]}
Matches(rows, log, m) ==
    \A i \in DOMAIN log :
        IF Hits(rows, log, m, i) = {} THEN m[i] = 0
        ELSE m[i] \in Hits(rows, log, m, i) /\ \A s \in Hits(rows, log, m, i) : m[i] <= s
Missing(m) == {i \in DOMAIN m : m[i] = 0}

(* The missing go after the last line of the harness, one after the other   *)
(* from the first free seq.                                                 *)
FirstFree(rows, from) ==
    CHOOSE s \in from..(from + Cardinality(DOMAIN rows)) :
        /\ s \notin DOMAIN rows
        /\ \A r \in from..(s - 1) : r \in DOMAIN rows
Place(rows, m, i) == FirstFree(rows, Greatest(Harness(rows)) + 1) + Below(Missing(m), i)

Backfilled(rows, log, m) ==
    [s \in {Place(rows, m, i) : i \in Missing(m)} |->
        Line(log[CHOOSE i \in Missing(m) : Place(rows, m, i) = s])]

CompletedOnceEnded(log) ==
    /\ lines' = lines
    /\ row' = [row EXCEPT !.state = "ended", !.log = log, !.complete = "yes"]

Completed(log) ==
    /\ IF row.complete = "yes" THEN lines' = lines
       ELSE \E m \in [DOMAIN log -> {0} \cup Harness(fin.rows)] :
                Matches(fin.rows, log, m) /\ lines' = Appended(lines, Backfilled(fin.rows, log, m))
    /\ row' = [row EXCEPT !.state = "ended", !.log = log, !.complete = "yes"]

EndWrite ==
    /\ fin.pc = "read"
    /\ Completed(Logs[row.job])
    /\ fin' = [pc |-> "idle", rows |-> Nothing, log |-> IF row.complete = "yes" THEN fin.log ELSE Logs[row.job]]
    /\ UNCHANGED <<sent, rec, proofs, reader, faults>>

(* A statement of the transaction fails: it is rolled back, and the next    *)
(* event or refresh tries again.                                            *)
EndFails ==
    /\ fin.pc = "read"
    /\ faults < MaxFaults
    /\ faults' = faults + 1
    /\ fin' = [fin EXCEPT !.pc = "idle", !.rows = Nothing]
    /\ UNCHANGED <<lines, row, sent, rec, proofs, reader>>

(* recordProof, after the end of a job that is not a conductor's turn: one  *)
(* line after all that are there; the seq is read in one statement and      *)
(* written in another.                                                      *)
ProofRead ==
    /\ row.kind = "task"
    /\ row.state = "ended"
    /\ proofs.pc = "idle"
    /\ proofs' = [pc |-> "read", seq |-> Greatest(DOMAIN lines) + 1]
    /\ UNCHANGED <<lines, row, sent, rec, fin, reader, faults>>

ProofWrite ==
    /\ proofs.pc = "read"
    /\ lines' = Appended(lines, [s \in {proofs.seq} |-> ProofLine])
    /\ proofs' = [pc |-> "done", seq |-> 0]
    /\ UNCHANGED <<row, sent, rec, fin, reader, faults>>

(* The next job of the task: a conductor's next turn clears                 *)
(* session_complete_at, a follow-up or a continue does not.                 *)
NextJob ==
    /\ row.state # "running"
    /\ row.job < JobsOf[row.kind]
    /\ row' = [row EXCEPT !.job = @ + 1, !.state = "running",
                          !.complete = IF row.kind = "conductor" THEN "no" ELSE @]
    /\ sent' = 0
    /\ proofs' = IF proofs.pc = "done" THEN [pc |-> "idle", seq |-> 0] ELSE proofs
    /\ UNCHANGED <<lines, rec, fin, reader, faults>>

(* retentionOnce: the lines of a task that ended long ago are deleted; no   *)
(* page of it has been open for as long.                                    *)
Retain ==
    /\ row.state = "ended"
    /\ \A v \in Viewers : rec[v].open = "no"
    /\ proofs.pc # "read"
    /\ reader.pc = "closed"
    /\ lines' = Nothing
    /\ row' = [row EXCEPT !.state = "gone"]
    /\ UNCHANGED <<sent, rec, fin, proofs, reader, faults>>

-----------------------------------------------------------------------------
(* The reader: a tick sends the lines after the last one, a page at a time, *)
(* then reads the task's row and closes when it has ended.                  *)

After(last) == {s \in DOMAIN lines : s > last}
PageNewest(last) == {s \in After(last) : Cardinality({r \in After(last) : r > s}) < PageSize}
Page(last) == {s \in After(last) : Below(After(last), s) < PageSize}

SendLines ==
    /\ reader.pc = "lines"
    /\ reader' = [pc |-> "row", last |-> Greatest(Page(reader.last) \cup {reader.last}),
                  got |-> reader.got \cup Page(reader.last)]
    /\ UNCHANGED <<lines, row, sent, rec, fin, proofs, faults>>

ReadRow ==
    /\ reader.pc = "row"
    /\ reader' = [reader EXCEPT !.pc = IF row.state = "ended" THEN "closed" ELSE "lines"]
    /\ UNCHANGED <<lines, row, sent, rec, fin, proofs, faults>>

(* It reconnects with the last seq it has as Last-Event-ID.                 *)
Reconnect ==
    /\ reader.pc = "closed"
    /\ row.state = "running"
    /\ reader' = [reader EXCEPT !.pc = "lines"]
    /\ UNCHANGED <<lines, row, sent, rec, fin, proofs, faults>>

Next ==
    \/ Emit
    \/ \E v \in Viewers : Connect(v) \/ Push(v) \/ PushFails(v) \/ Leave(v)
    \/ EndRead \/ EndWrite \/ EndFails
    \/ ProofRead \/ ProofWrite
    \/ NextJob
    \/ Retain
    \/ SendLines \/ ReadRow \/ Reconnect

Spec == Init /\ [][Next]_vars

-----------------------------------------------------------------------------

(* The session as its readers are promised it, with the table's rows as     *)
(* what is shown, the back-fill's read as the look, and the log that the    *)
(* session was completed from.                                              *)
View == INSTANCE SessionView WITH
    Keys <- Nat, shown <- lines, complete <- row.complete,
    looked <- IF fin.pc = "read" THEN {fin.rows} ELSE {},
    log <- {Line(x) : x \in ToSet(fin.log)}

(* The session keeps its promise while recorders come, go, fail and lag,    *)
(* write between the back-fill's two statements, the proof is written, old  *)
(* lines are deleted and the next turn or attempt runs: a row never moves   *)
(* or changes (a replay is a no-op on (task_id, seq)), and when             *)
(* session_complete_at is set the rows show the whole log but for as many   *)
(* lines as recorders wrote rows in between.                                *)
ImplementsView == View!Spec

(* Until the session is completed from a result, and while no statement     *)
(* failed, a reader that polls by seq has every whole line up to the last   *)
(* one it was sent, however many recorders write, leave in the middle of a  *)
(* line and reconnect.                                                      *)
ReaderFollows ==
    row.job = 1 /\ row.complete = "no" /\ faults = 0 =>
        \A s \in DOMAIN lines : s <= reader.last /\ lines[s].t # "text" => s \in reader.got

(* Not so: "the new seqs sit after the streamed output and before the        *)
(* terminal state/end line" (`backfill`).  Rows that are written below the   *)
(* last seq a reader was sent never reach it.                                *)
ReaderHasAll == reader.pc = "closed" /\ row.state = "ended" => DOMAIN lines \subseteq reader.got

(* Not so: "a reconnect or a second result never adds a line twice"          *)
(* (`backfill`).  A recorder that lags writes at its own seq what the        *)
(* back-fill has added at another.                                           *)
NoLineTwice ==
    \A s, t \in DOMAIN lines : s # t /\ lines[s].t = "line" => lines[s] # lines[t]

(* Not so: session_complete_at is "set once the machine's final result has   *)
(* been reconciled with the stream and any missing lines were back-filled"   *)
(* (migrations/0007_session_lines.sql).  A follow-up keeps the column, so    *)
(* its result is not reconciled.                                             *)
CompleteShowsTheResult ==
    row.state = "ended" /\ row.complete = "yes" =>
        \A x \in ToSet(row.log) : \E s \in DOMAIN lines : lines[s] = Line(x)
=============================================================================
