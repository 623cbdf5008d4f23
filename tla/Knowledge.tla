------------------------------ MODULE Knowledge ------------------------------
(***************************************************************************)
(* What a person's runs taught them (server/domain/knowledge.js, its page  *)
(* and its API).  afterEnd captures an ending's lessons and facts, one     *)
(* upsert after the other, and may do so twice (the event, a refresh);     *)
(* meanwhile the owner adds, edits, pins, shares and deletes rows, an edit *)
(* in two statements.  A text stands for all texts `normalize` makes equal.*)
(***************************************************************************)
EXTENDS Naturals, Sequences

CONSTANTS
    Says,          \* what a report or a person can write
    Secrets,       \* those of Says of which scrubbing leaves nothing
    Teams,         \* the projects the person belongs to
    Reports,       \* what endings report: [learned, facts, ok, failing, commands]
    Captures,      \* handlers that capture the ending
    MaxCapture,    \* rows one ending may add (6)
    MaxDays, MaxRows, MaxSeen    \* bounds: days, rows ever made, a row's `seen`

VARIABLES
    know,       \* codes_knowledge of the person
    made,       \* ids given out
    report,     \* the ending they capture
    capture,    \* what each handler has left to remember
    editing,    \* an edit between its SELECT and its UPDATE
    day

kvars == <<know, made, report, capture, editing, day>>

Kinds == {"lesson", "fact"}
None == [id |-> 0, kind |-> "lesson", text |-> <<>>]

InitKnow ==
    /\ know = {}
    /\ made = 0
    /\ report \in Reports
    /\ capture = [c \in Captures |-> [pc |-> "new", left |-> <<>>]]
    /\ editing = None
    /\ day = 1

(* captureTask: the Learned: and Fact: lines; of a run that did not succeed *)
(* why, and the command that failed; and at most two commands of the        *)
(* repository, each with the day they are captured.                         *)
Lines(kind, q) == [i \in DOMAIN q |-> [kind |-> kind, text |-> <<"said", q[i]>>]]
CommandLines(q) ==
    [i \in 1..(IF Len(q) > 2 THEN 2 ELSE Len(q)) |-> [kind |-> "fact", text |-> <<"command", q[i], day>>]]
Failure(r) ==
    IF r.ok THEN <<>>
    ELSE <<[kind |-> "lesson", text |-> <<"did not finish">>]>>
         \o [i \in DOMAIN r.failing |-> [kind |-> "lesson", text |-> <<"failed", r.failing[i]>>]]

Entries(r) ==
    LET all == Lines("lesson", r.learned) \o Lines("fact", r.facts) \o Failure(r) \o CommandLines(r.commands)
    IN SubSeq(all, 1, IF Len(all) > MaxCapture THEN MaxCapture ELSE Len(all))

(* remember: the row's key is its kind, repository and text; a row of that  *)
(* key is only seen once more, whoever wrote it.                            *)
Empty(text) == text[1] = "said" /\ text[2] \in Secrets
Key(kind, text) == <<kind, text>>

New(kind, text, team, pinned) ==
    [id |-> made + 1, kind |-> kind, text |-> text, key |-> Key(kind, text),
     team |-> team, pinned |-> pinned, seen |-> 1]

Same(row, kind, text) == row.kind = kind /\ row.key = Key(kind, text)
Raised(row) == [row EXCEPT !.seen = IF @ < MaxSeen THEN @ + 1 ELSE @]

Remember(kind, text, team, pinned) ==
    IF \E row \in know : Same(row, kind, text)
      THEN /\ know' = {IF Same(row, kind, text) THEN Raised(row) ELSE row : row \in know}
           /\ UNCHANGED made
      ELSE /\ made < MaxRows
           /\ know' = know \cup {New(kind, text, team, pinned)}
           /\ made' = made + 1

Begin(c) ==
    /\ capture[c].pc = "new"
    /\ capture' = [capture EXCEPT ![c] = [pc |-> "on", left |-> Entries(report)]]
    /\ UNCHANGED <<know, made, report, editing, day>>

(* One entry; one with nothing left after scrubbing is passed over.         *)
Capture(c) ==
    /\ capture[c].pc = "on" /\ capture[c].left # <<>>
    /\ LET e == Head(capture[c].left) IN
        IF Empty(e.text) THEN UNCHANGED <<know, made>> ELSE Remember(e.kind, e.text, "private", "no")
    /\ capture' = [capture EXCEPT ![c].left = Tail(@)]
    /\ UNCHANGED <<report, editing, day>>

(* POST /knowledge, the page's form and the API: the team is one of theirs. *)
Add(kind, say, team, pinned) ==
    /\ ~Empty(<<"said", say>>)
    /\ Remember(kind, <<"said", say>>, team, pinned)
    /\ UNCHANGED <<report, capture, editing, day>>

(* edit: reads the row, and then writes its text, kind and key by its id.   *)
(* A key another row has fails, and so does a row that is gone by now.      *)
EditRead(row, kind, say) ==
    /\ editing = None
    /\ ~Empty(<<"said", say>>)
    /\ editing' = [id |-> row.id, kind |-> kind, text |-> <<"said", say>>]
    /\ UNCHANGED <<know, made, report, capture, day>>

EditedOldKey(row) == [row EXCEPT !.text = editing.text, !.kind = editing.kind]

Edited(row) ==
    [row EXCEPT !.text = editing.text, !.kind = editing.kind, !.key = Key(editing.kind, editing.text)]

Taken == \E row \in know : row.id # editing.id /\ Same(row, editing.kind, editing.text)

EditWrite ==
    /\ editing # None
    /\ know' = IF Taken THEN know ELSE {IF row.id = editing.id THEN Edited(row) ELSE row : row \in know}
    /\ editing' = None
    /\ UNCHANGED <<made, report, capture, day>>

Changes(row, new) ==
    /\ know' = (know \ {row}) \cup {new}
    /\ UNCHANGED <<made, report, capture, editing, day>>

Pin(row, pinned) == Changes(row, [row EXCEPT !.pinned = pinned])
Share(row, team) == Changes(row, [row EXCEPT !.team = team])
Unshare(row) == Changes(row, [row EXCEPT !.team = "private"])

Remove(row) ==
    /\ know' = know \ {row}
    /\ UNCHANGED <<made, report, capture, editing, day>>

Midnight ==
    /\ day < MaxDays
    /\ day' = day + 1
    /\ UNCHANGED <<know, made, report, capture, editing>>

NextKnow ==
    \/ \E c \in Captures : Begin(c) \/ Capture(c)
    \/ \E kind \in Kinds, say \in Says, team \in Teams \cup {"private"}, pinned \in {"yes", "no"} :
            Add(kind, say, team, pinned)
    \/ \E row \in know, kind \in Kinds, say \in Says : EditRead(row, kind, say)
    \/ EditWrite
    \/ \E row \in know : \/ Remove(row) \/ Unshare(row)
                         \/ \E pinned \in {"yes", "no"} : Pin(row, pinned)
                         \/ \E team \in Teams : Share(row, team)
    \/ Midnight

Spec == InitKnow /\ [][NextKnow]_kvars

-----------------------------------------------------------------------------

(* No two rows of a person say the same thing, however captures, additions  *)
(* and edits interleave: a repeated text always finds the row that has it.  *)
NoTextTwice ==
    \A a, b \in know : a.kind = b.kind /\ a.text = b.text => a = b

(* An ending captured twice adds no second row (run-tasks.js:769): violated *)
(* when the two captures are on two days, as a command's fact names its day.*)
CapturedOnce ==
    \A a, b \in know : a # b /\ a.text[1] = "command" /\ b.text[1] = "command" => a.text[2] # b.text[2]
==============================================================================
