------------------------------ MODULE Settings -------------------------------
(***************************************************************************)
(* A person's choices (server/domain/user-settings.js): one row that every *)
(* save reads whole, changes where the request says and writes back whole, *)
(* in two statements without a lock.  The saves come from the settings     *)
(* page, the guided setup, the composer, the chat, the conductor form and  *)
(* the API, several tabs at once.                                          *)
(***************************************************************************)
EXTENDS Naturals, Sequences, FiniteSets

CONSTANTS
    Saves,      \* the saves of one person
    Agents      \* the agents that may lead; "claude" is the default

VARIABLES
    chosen,     \* the row of codes_user_settings
    save,       \* each save: what was sent, what it read and when it read and wrote
    writes      \* saves written so far

svars == <<chosen, save, writes>>

Models == {"opus", "own"}   \* Claude Code's default model, and an agent's own default (NULL)
Unsent == "unsent"

(* The columns: conductor_agent with conductor_model, the default agent and *)
(* machine, the safety level, the conductor's fallbacks with their switch   *)
(* point, and the ticks and limits of the settings page.                    *)
Fields == {"lead", "model", "agent", "machine", "safety", "fallbacks", "ticks"}
Defaults == [lead |-> "NULL", model |-> "NULL", agent |-> "auto", machine |-> "auto", safety |-> "ask",
             fallbacks |-> "none", ticks |-> "on"]

(* `present`: a row as it is read; a row without an agent is Claude Code on *)
(* Opus, and only Claude Code's missing model is Opus.                      *)
Present(row) ==
    LET lead == IF row.lead = "NULL" THEN "claude" ELSE row.lead
    IN  [row EXCEPT !.lead = lead,
                    !.model = IF row.model # "NULL" THEN row.model
                              ELSE IF lead = "claude" THEN "opus" ELSE "own"]

(* What is stored of what was read: an agent's own default is NULL.         *)
Stored(next) == [next EXCEPT !.model = IF next.model = "own" THEN "NULL" ELSE next.model]

InitSettings ==
    /\ chosen = Defaults
    /\ save = [s \in Saves |-> [pc |-> "idle", patch |-> [f \in Fields |-> Unsent], now |-> Present(Defaults),
                                read |-> 0, wrote |-> 0]]
    /\ writes = 0

Patch(sent) == [f \in Fields |-> IF f \in DOMAIN sent THEN sent[f] ELSE Unsent]

(* The settings page sends everything, ticks that are off included.         *)
SettingsForm ==
    {Patch([lead |-> a, model |-> m, agent |-> "auto", machine |-> "auto", safety |-> "project",
            fallbacks |-> "one", ticks |-> "off"]) :
        a \in Agents, m \in Models}

(* /setup/choices: the defaults, the safety level and the fallbacks.        *)
SetupForm == {Patch([agent |-> "x", machine |-> "m", safety |-> "ask", fallbacks |-> "two"])}

(* The composer's /start and the chat: the pick they keep, best effort.     *)
Composer == {Patch([agent |-> "x", machine |-> "m"]), Patch([agent |-> "x"]), Patch([machine |-> "m"])}

(* The conductor form: its safety level, and the machine if one was picked. *)
ConductorForm == {Patch([safety |-> "full"]), Patch([safety |-> "full", machine |-> "m"])}

(* PUT /me/settings: any of them; an agent alone, a model alone.            *)
Put == {Patch([lead |-> a]) : a \in Agents} \cup {Patch([model |-> m]) : m \in Models}

(* `save`, first statement: the row as it is now.                           *)
Read(s) ==
    /\ save[s].pc = "idle"
    /\ \E p \in SettingsForm \cup SetupForm \cup Composer \cup ConductorForm \cup Put :
        save' = [save EXCEPT ![s] = [pc |-> "read", patch |-> p, now |-> Present(chosen), read |-> writes, wrote |-> 0]]
    /\ UNCHANGED <<chosen, writes>>

(* A value Codes does not know (an agent, a model, a limit, a fallback, a   *)
(* switch point): 422, and nothing is stored.                               *)
Refuse(s) ==
    /\ save[s].pc = "read"
    /\ save' = [save EXCEPT ![s].pc = "refused"]
    /\ UNCHANGED <<chosen, writes>>

(* A field that was not sent keeps what it had; an agent sent without its   *)
(* model takes its own default, "never Opus under Codex".                   *)
NextRowWiped(now, p) ==
    [f \in Fields |-> IF p[f] # Unsent THEN p[f] ELSE Present(Defaults)[f]]

NextRow(now, p) ==
    [f \in Fields |->
        IF p[f] # Unsent THEN p[f]
        ELSE IF f = "model" /\ p["lead"] # Unsent THEN (IF p["lead"] = "claude" THEN "opus" ELSE "own")
        ELSE now[f]]

(* `save`, second statement: the whole row, over whatever is there.         *)
Write(s) ==
    /\ save[s].pc = "read"
    /\ chosen' = Stored(NextRow(save[s].now, save[s].patch))
    /\ writes' = writes + 1
    /\ save' = [save EXCEPT ![s].pc = "done", ![s].wrote = writes + 1]

NextSettings == \E s \in Saves : Read(s) \/ Refuse(s) \/ Write(s)

Spec == InitSettings /\ [][NextSettings]_svars

-----------------------------------------------------------------------------

TypeOK ==
    /\ chosen.lead \in Agents \cup {"NULL"} /\ chosen.model \in {"opus", "NULL"}
    /\ save \in [Saves -> [pc : {"idle", "read", "refused", "done"}, read : 0..writes, wrote : 0..writes,
                           patch : [Fields -> STRING], now : [Fields -> STRING]]]
    /\ writes \in 0..Cardinality(Saves)

Sets(p) == {f \in Fields : p[f] # Unsent} \cup (IF p["lead"] # Unsent THEN {"model"} ELSE {})

(* What a save sent is what the person reads, until a later save sends the  *)
(* same field: nothing else takes it back, with the one exception of a save *)
(* that had read the row before this one wrote it ("a partly filled form    *)
(* never wipes the rest", user-settings.js).                                *)
(* A model read as Claude Code's default is Opus, whatever was sent.        *)
KeptUnlessOverlapped ==
    \A s \in Saves, f \in Fields : save[s].pc = "done" /\ save[s].patch[f] # Unsent =>
        \/ Present(chosen)[f] = save[s].patch[f]
        \/ f = "model" /\ Present(chosen) = [Present(chosen) EXCEPT !.lead = "claude", !.model = "opus"]
        \/ \E t \in Saves :
            /\ save[t].pc = "done" /\ save[t].wrote > save[s].wrote
            /\ f \in Sets(save[t].patch) \/ save[t].read < save[s].wrote

(* The comment without the exception.                                       *)
KeptAlways ==
    \A s \in Saves, f \in Fields : save[s].pc = "done" /\ save[s].patch[f] # Unsent =>
        \/ Present(chosen)[f] = save[s].patch[f]
        \/ f = "model" /\ Present(chosen) = [Present(chosen) EXCEPT !.lead = "claude", !.model = "opus"]
        \/ \E t \in Saves :
            save[t].pc = "done" /\ save[t].wrote > save[s].wrote /\ f \in Sets(save[t].patch)
=============================================================================
