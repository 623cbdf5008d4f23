------------------------------ MODULE JobRunner ------------------------------
(***************************************************************************)
(* One attempt as the job runner runs it (engine/jobrunner.js): the        *)
(* harness prints lines, its feed (engine/adapters/) turns them into one   *)
(* shape, the transcript (engine/transcript.js) merges them into events,   *)
(* and the job lines (engine/joblines.js) of the events that are new go to *)
(* the page after every line.  A limit that was reached buys one more turn *)
(* of the same session.                                                    *)
(*                                                                         *)
(* What the agent says is a sequence of blocks, each of Pieces pieces; a   *)
(* piece is <<block, number>>.  Claude Code also streams the pieces before *)
(* the block, and may start a block's stream again.                        *)
(***************************************************************************)
EXTENDS Naturals, Sequences, FiniteSets, FiniteSetsExt, SequencesExt

CONSTANTS
    Harnesses,     \* "claude", "codex", "opencode"
    Says,          \* for each block of the attempt in order: "text" or "thinking"
    Pieces,        \* pieces of a block
    Calls,         \* the tool calls of the attempt
    StepLimit,     \* budget.steps, 0 for none
    Override,      \* opts.budgetOverride's steps, 0 for none
    MaxRestarts,   \* bound: streams that start again, and errors reported
    MaxTurns       \* bound: turns of runAttempt's recursion

VARIABLES
    harness,   \* opts.agent
    agent,     \* the CLI's side: blocks said, pieces streamed of the next, whether it broke off, faults
    events,    \* st.events
    from,      \* state.from of the pump
    lines,     \* the job lines, in the order they were sent
    turn       \* runAttempt: which call of the recursion, whether it runs, its steps

jvars == <<harness, agent, events, from, lines, turn>>

Block(b) == [i \in 1..Pieces |-> <<b, i>>]
Event(t, words, partial, id, pending) ==
    [t |-> t, words |-> words, partial |-> partial, mid |-> partial, id |-> id, pending |-> pending]
Plain(t, words) == Event(t, words, "no", "none", "no")

InitJob ==
    /\ harness \in Harnesses
    /\ agent = [said |-> 0, streamed |-> 0, broken |-> "no", faults |-> 0]
    /\ events = <<>>
    /\ from = 0
    /\ lines = <<>>
    /\ turn = [n |-> 1, st |-> "running", steps |-> 0, ok |-> "no"]

-----------------------------------------------------------------------------
(* transcript.js *)

LastOf(evs, P(_)) == LET s == {i \in DOMAIN evs : P(evs[i])} IN IF s = {} THEN 0 ELSE Max(s)

(* push: an error said again among the last three is dropped; thinking that  *)
(* follows thinking joins it, unless one of them keeps apart.                *)
Push(evs, ev) ==
    LET n == Len(evs) IN
    IF ev.t = "error" /\ \E i \in DOMAIN evs : i > n - 3 /\ evs[i].t = "error" /\ evs[i].words = ev.words THEN evs
    ELSE IF n > 0 /\ ev.t = "thinking" /\ evs[n].t = "thinking" /\ ev.mid = "no" /\ evs[n].mid = "no"
         THEN [evs EXCEPT ![n].words = @ \o ev.words]
    ELSE Append(evs, ev)

(* pushDelta: the last event of its kind grows while it is partial.          *)
PushDelta(evs, t, word) ==
    LET last == LastOf(evs, LAMBDA e : e.t = t) IN
    IF last # 0 /\ evs[last].partial = "yes"
    THEN [evs EXCEPT ![last].words = Append(@, word)]
    ELSE Append(evs, Event(t, <<word>>, "yes", "none", "no"))

(* An assistant message: the whole block takes the place of what streamed.   *)
WholePushed(evs, t, words) == Push(evs, Plain(t, words))

Whole(evs, t, words) ==
    LET p == LastOf(evs, LAMBDA e : e.t = t /\ e.partial = "yes") IN
    IF p # 0 THEN [evs EXCEPT ![p].words = words, ![p].partial = "no"] ELSE Push(evs, Plain(t, words))

AddTool(evs, id) == Push(evs, Event("tool", <<>>, "no", id, "yes"))

SetResult(evs, id) ==
    [i \in DOMAIN evs |-> IF evs[i].t = "tool" /\ evs[i].id = id THEN [evs[i] EXCEPT !.pending = "no"] ELSE evs[i]]

(* finalEv: a result that repeats the last message shows no text of its own; *)
(* nor does one that repeats an error just shown.                            *)
FinalEv(evs, words, t) ==
    LET last == LastOf(evs, LAMBDA e : e.t = "text")
        told == \E i \in DOMAIN evs : i > Len(evs) - 4 /\ evs[i].t = "error" /\ evs[i].words = words
    IN Append(evs, Plain(t, IF told \/ (last # 0 /\ evs[last].words = words) THEN <<>> ELSE words))

-----------------------------------------------------------------------------
(* joblines.js and the runner's pump *)

LinesOf(e) ==
    CASE e.t = "thinking" -> <<>>
      [] e.t = "tool" -> IF e.pending = "yes" THEN <<[t |-> "tool", words |-> <<>>, id |-> e.id]>>
                         ELSE <<[t |-> "tool", words |-> <<>>, id |-> e.id],
                                [t |-> "tool_result", words |-> <<>>, id |-> e.id]>>
      [] OTHER -> <<[t |-> e.t, words |-> e.words, id |-> "none"]>>

NewLines(evs) == FlattenSeq([i \in 1..(Len(evs) - from) |-> LinesOf(evs[from + i])])
Steps(ls) == Cardinality({i \in DOMAIN ls : ls[i].t = "tool"})

(* feed.line, then pump: the events after `from`, once.                      *)
Pumps(evs) ==
    /\ events' = evs
    /\ lines' = lines \o NewLines(evs)
    /\ from' = Len(evs)
    /\ turn' = [turn EXCEPT !.steps = @ + Steps(NewLines(evs))]

-----------------------------------------------------------------------------
(* The harness prints a line *)

Prints == turn.st = "running" /\ UNCHANGED harness
Next1 == agent.said + 1
Saying == agent.said < Len(Says)
Text(b) == Says[b] = "text"

(* Claude Code's stream_event.                                               *)
Delta ==
    /\ Prints
    /\ harness = "claude"
    /\ Saying /\ agent.streamed < Pieces
    /\ agent' = [agent EXCEPT !.streamed = @ + 1]
    /\ Pumps(PushDelta(events, Says[Next1], <<Next1, agent.streamed + 1>>))

(* The stream broke and the CLI asks the model again (until it has the block *)
(* or ends in an error).                                                     *)
Restart ==
    /\ Prints
    /\ agent.streamed > 0 /\ agent.faults < MaxRestarts
    /\ agent' = [agent EXCEPT !.streamed = 0, !.broken = "yes", !.faults = @ + 1]
    /\ UNCHANGED <<events, from, lines, turn>>

(* A whole block; Codex's feed leaves its reasoning out.                     *)
Message ==
    /\ Prints
    /\ Saying
    /\ harness = "claude" \/ Text(Next1)
    /\ agent' = [agent EXCEPT !.said = @ + 1, !.streamed = 0, !.broken = "no"]
    /\ Pumps(Whole(events, Says[Next1], Block(Next1)))

Unsaid ==
    /\ Prints
    /\ Saying
    /\ harness # "claude" /\ ~Text(Next1)
    /\ agent' = [agent EXCEPT !.said = @ + 1]
    /\ UNCHANGED <<events, from, lines, turn>>

Called == {e.id : e \in {events[i] : i \in DOMAIN events}} \ {"none"}
Waiting == {events[i].id : i \in {j \in DOMAIN events : events[j].pending = "yes"}}

(* A tool call and later its answer; OpenCode says both in one line, and its *)
(* feed makes two events of it before the pump runs.                         *)
ToolUse(c) ==
    /\ Prints
    /\ agent.streamed = 0
    /\ c \notin Called
    /\ Pumps(IF harness = "opencode" THEN SetResult(AddTool(events, c), c) ELSE AddTool(events, c))
    /\ UNCHANGED agent

ToolResult(c) ==
    /\ Prints
    /\ c \in Waiting
    /\ Pumps(SetResult(events, c))
    /\ UNCHANGED agent

ErrorWords == <<<<0, 0>>>>
ErrorSaid ==
    /\ Prints
    /\ agent.faults < MaxRestarts
    /\ agent' = [agent EXCEPT !.faults = @ + 1]
    /\ Pumps(Push(events, Plain("error", ErrorWords)))

-----------------------------------------------------------------------------
(* The end of the process: the feed's own end, the last pump, the budget *)

TextsSaid == {b \in 1..agent.said : Text(b)}
LastText == IF TextsSaid = {} THEN <<>> ELSE Block(Max(TextsSaid))
AllText == FlattenSeq([b \in 1..agent.said |-> IF Text(b) THEN Block(b) ELSE <<>>])

(* What the result says: Claude Code's and Codex's last message, all of      *)
(* OpenCode's texts; an error when there is none.                            *)
Answer == IF harness = "opencode" THEN AllText ELSE LastText
CutOff == IF harness = "codex" THEN [i \in DOMAIN events |-> [events[i] EXCEPT !.pending = "no"]] ELSE events

(* limitsFor: the task's limit, or the override's; evaluate and wrapUp.  The *)
(* wrap-up turn's own limits are none, but it inherits the override.         *)
Limit(n) == IF Override # 0 THEN Override ELSE IF n = 1 THEN StepLimit ELSE 0
Hit == Limit(turn.n) # 0 /\ turn.steps + Steps(NewLines(events)) >= Limit(turn.n)

Ends(evs, ok) ==
    /\ events' = evs
    /\ lines' = lines \o NewLines(evs)
    /\ from' = Len(evs)
    /\ turn' = [turn EXCEPT !.st = IF Hit /\ turn.n < MaxTurns THEN "wrap" ELSE "done",
                            !.ok = IF ok THEN "yes" ELSE @]
    /\ UNCHANGED <<harness, agent>>

Result ==
    /\ turn.st = "running"
    /\ agent.streamed = 0 /\ agent.broken = "no"
    /\ LET ok == Answer # <<>> IN
        Ends(FinalEv(CutOff, IF ok THEN Answer ELSE ErrorWords, "final"), ok)

(* The process ends without a result, in the middle of a block perhaps.      *)
Dies ==
    /\ turn.st = "running"
    /\ IF harness = "claude" /\ LastText # <<>> THEN Ends(CutOff, FALSE)
       ELSE Ends(FinalEv(CutOff, ErrorWords, "final"), FALSE)

(* runAttempt again: the same session, a log of its own.                     *)
WrapUpTurn ==
    /\ turn.st = "wrap"
    /\ turn' = [turn EXCEPT !.n = @ + 1, !.st = "running", !.steps = 0]
    /\ agent' = [agent EXCEPT !.said = 0, !.streamed = 0, !.broken = "no"]
    /\ events' = <<>>
    /\ from' = 0
    /\ lines' = <<>>
    /\ UNCHANGED harness

NextJob ==
    \/ Delta \/ Restart \/ Message \/ Unsaid \/ ErrorSaid
    \/ \E c \in Calls : ToolUse(c) \/ ToolResult(c)
    \/ Result \/ Dies \/ WrapUpTurn

Spec == InitJob /\ [][NextJob]_jvars

-----------------------------------------------------------------------------

Shown(b) == {p \in UNION {{k} \X DOMAIN events[k].words : k \in DOMAIN events} : events[p[1]].words[p[2]][1] = b}

(* The transcript shows what the agent said once: every piece of a block     *)
(* that is complete stands in exactly one place, whether it streamed,        *)
(* streamed twice, was merged with its neighbour or is also the result.      *)
(* (OpenCode's result is all of its texts again, and its last event shows    *)
(* them.)                                                                    *)
SaidOnce ==
    harness # "opencode" =>
        \A b \in 1..agent.said :
            (harness = "claude" \/ Text(b)) => Cardinality(Shown(b)) = Pieces

(* What a tool answered reaches the page (joblines.js:14).                   *)
AnswersAreShown ==
    \A c \in Calls :
        turn.st = "done" /\ c \in Called \ Waiting => \E i \in DOMAIN lines : lines[i].t = "tool_result" /\ lines[i].id = c

(* What the agent said reaches the page whole (joblines.js:12).              *)
TextsAreShown ==
    \A b \in TextsSaid : turn.st = "done" => \E i \in DOMAIN lines : \A j \in 1..Pieces : <<b, j>> \in Range(lines[i].words)
=============================================================================
