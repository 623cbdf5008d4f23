------------------------------- MODULE Skills -------------------------------
(***************************************************************************)
(* One record of the skills hub (server/domain/skills.js, its API and its  *)
(* pages), saved, rolled back, shared and synced from several tabs.  Every *)
(* save reads the record, and then writes a version one above the one it   *)
(* read in a transaction; the audience is openvibe-sdk/share's row, which  *)
(* is written first and in a statement of its own.                         *)
(***************************************************************************)
EXTENDS Naturals, Sequences

CONSTANTS
    Tabs,          \* requests in flight
    Bodies,        \* what can be saved
    Audiences,     \* "private" and the ones it can be shared with
    Projects,      \* the scopes a person syncs into
    MaxVersions,   \* bound
    MaxFailures    \* bound: calls to the share store or statements that fail

VARIABLES
    skill,      \* codes_skills: whether the record is there, and its newest version
    versions,   \* codes_skill_versions
    share,      \* the share row: its audience and whether another person is a member
    assigned,   \* codes_skill_assignments of a person
    tab,        \* the handler of each request
    failures

svars == <<skill, versions, share, assigned, tab, failures>>

NoShare == [audience |-> "none", member |-> "no"]
Quiet == [pc |-> "idle", op |-> "none", body |-> "none", audience |-> "none", base |-> 0]

InitSkill ==
    /\ skill = [there |-> "no", latest |-> 0]
    /\ versions = <<>>
    /\ share = NoShare
    /\ assigned = {}
    /\ tab = [t \in Tabs |-> Quiet]
    /\ failures = 0

At(t, pc) == tab[t].pc = pc
Is(t, op) == tab[t].op = op
Ends(t, how) == tab' = [tab EXCEPT ![t].pc = how]
Fails == failures < MaxFailures /\ failures' = failures + 1

(* The requests of the pages' forms and of the API; both name the same      *)
(* operations, an audience among the four, a body that is not empty.        *)
FormRequests ==
    [op : {"create", "edit"}, body : Bodies, audience : Audiences]
    \cup [op : {"rollback"}, body : {"none"}, audience : {"none"}]
    \cup [op : {"audience"}, body : {"none"}, audience : Audiences]

ApiRequests == FormRequests

Asks(t, r) ==
    /\ At(t, "idle")
    /\ tab' = [tab EXCEPT ![t] = [pc |-> "begin", op |-> r.op, body |-> r.body, audience |-> r.audience, base |-> 0]]
    /\ UNCHANGED <<skill, versions, share, assigned, failures>>

(* create: the record and its first version in one transaction; the slug is *)
(* unique for its owner.                                                    *)
Version(t) == [body |-> tab[t].body, audience |-> tab[t].audience]

Create(t) ==
    /\ At(t, "begin") /\ Is(t, "create")
    /\ \/ /\ skill.there = "yes"
          /\ Ends(t, "refused")
          /\ UNCHANGED <<skill, versions>>
       \/ /\ skill.there = "no"
          /\ skill' = [there |-> "yes", latest |-> 1]
          /\ versions' = <<Version(t)>>
          /\ tab' = [tab EXCEPT ![t].pc = "register", ![t].base = 1]
    /\ UNCHANGED <<share, assigned, failures>>

(* The share row follows it; one that cannot be made takes the record back, *)
(* and a record that cannot be taken back either stays without one.  (What  *)
(* is created after that is another record.)                                *)
Register(t) ==
    /\ At(t, "register")
    /\ share' = [audience |-> tab[t].audience, member |-> "no"]
    /\ Ends(t, "saved")
    /\ UNCHANGED <<skill, versions, assigned, failures>>

NotRegistered(t) ==
    /\ At(t, "register")
    /\ Fails
    /\ Ends(t, "failed")
    /\ \/ /\ skill' = [there |-> "deleted", latest |-> 0]
          /\ versions' = <<>>
          /\ assigned' = {}
       \/ UNCHANGED <<skill, versions, assigned>>
    /\ UNCHANGED share

(* `load` and `owned`: the newest version and the audience of the share row.*)
AudienceNow == IF share.audience = "none" THEN "private" ELSE share.audience

NotThere(t) ==
    /\ At(t, "begin") \/ At(t, "load")
    /\ ~Is(t, "create")
    /\ skill.there # "yes"
    /\ Ends(t, "refused")
    /\ UNCHANGED <<skill, versions, share, assigned, failures>>

(* addVersion: a save carries the audience it read.                         *)
Load(t) ==
    /\ \/ At(t, "begin") /\ Is(t, "edit")
       \/ At(t, "load") /\ Is(t, "rollback")
    /\ skill.there = "yes"
    /\ tab' = [tab EXCEPT ![t].pc = "write", ![t].base = skill.latest, ![t].audience = AudienceNow]
    /\ UNCHANGED <<skill, versions, share, assigned, failures>>

(* rollback: the body of an old version, and then addVersion.               *)
OldVersion(t, n) ==
    /\ At(t, "begin") /\ Is(t, "rollback")
    /\ skill.there = "yes"
    /\ tab' = [tab EXCEPT ![t].pc = "load", ![t].body = versions[n].body]
    /\ UNCHANGED <<skill, versions, share, assigned, failures>>

(* setAudience: the share row, and then the record again, as it is now.     *)
SetAudience(t) ==
    /\ At(t, "begin") /\ Is(t, "audience")
    /\ skill.there = "yes" /\ share.audience # "none"
    /\ share' = [share EXCEPT !.audience = tab[t].audience]
    /\ Ends(t, "load")
    /\ UNCHANGED <<skill, versions, assigned, failures>>

NotShared(t) ==
    /\ At(t, "begin") /\ Is(t, "audience")
    /\ skill.there = "yes" /\ share.audience = "none"
    /\ Ends(t, "failed")
    /\ UNCHANGED <<skill, versions, share, assigned, failures>>

Reload(t) ==
    /\ At(t, "load") /\ Is(t, "audience")
    /\ skill.there = "yes"
    /\ tab' = [tab EXCEPT ![t].pc = "write", ![t].base = skill.latest, ![t].body = versions[skill.latest].body]
    /\ UNCHANGED <<skill, versions, share, assigned, failures>>

(* The transaction of a save: (skill_id, version) is the primary key, so a  *)
(* version that is there, or a record that is gone, fails it as a whole.    *)
ClashGone(t) == skill.there # "yes"

Clash(t) == skill.there # "yes" \/ tab[t].base + 1 \in DOMAIN versions

Written(t) ==
    [n \in DOMAIN versions \cup {tab[t].base + 1} |-> IF n = tab[t].base + 1 THEN Version(t) ELSE versions[n]]

Write(t) ==
    /\ At(t, "write")
    /\ ~Clash(t)
    /\ Len(versions) < MaxVersions
    /\ versions' = Written(t)
    /\ skill' = [skill EXCEPT !.latest = tab[t].base + 1]
    /\ Ends(t, "saved")
    /\ UNCHANGED <<share, assigned, failures>>

WriteFails(t) ==
    /\ At(t, "write")
    /\ Clash(t)
    /\ Ends(t, "failed")
    /\ UNCHANGED <<skill, versions, share, assigned, failures>>

(* Members are the share row's; the sync's assignments are a row per scope. *)
Member(yes) ==
    /\ skill.there = "yes" /\ share.audience # "none"
    /\ share' = [share EXCEPT !.member = yes]
    /\ UNCHANGED <<skill, versions, assigned, tab, failures>>

Assign(p) ==
    /\ skill.there = "yes"
    /\ assigned' = assigned \cup {p}
    /\ UNCHANGED <<skill, versions, share, tab, failures>>

Unassign(p) ==
    /\ assigned' = assigned \ {p}
    /\ UNCHANGED <<skill, versions, share, tab, failures>>

NextSkill ==
    \/ \E t \in Tabs, r \in FormRequests \cup ApiRequests : Asks(t, r)
    \/ \E t \in Tabs :
        \/ Create(t) \/ Register(t) \/ NotRegistered(t) \/ NotThere(t) \/ Load(t)
        \/ \E n \in DOMAIN versions : OldVersion(t, n)
        \/ SetAudience(t) \/ NotShared(t) \/ Reload(t) \/ Write(t) \/ WriteFails(t)
    \/ \E yes \in {"yes", "no"} : Member(yes)
    \/ \E p \in Projects : Assign(p) \/ Unassign(p)

Spec == InitSkill /\ [][NextSkill]_svars

-----------------------------------------------------------------------------

(* A save that was answered as saved is in the history under its number,    *)
(* with its body, as long as the record is there: saves of two tabs that    *)
(* read the same version never write over one another (0029: "every save is *)
(* an immutable row"), and the newest version is the last of them.          *)
SavesAreKept ==
    /\ skill.there = "yes" => skill.latest = Len(versions)
    /\ \A t \in Tabs :
        tab[t].pc = "saved" /\ tab[t].op # "create" /\ skill.there = "yes" =>
            tab[t].base + 1 \in DOMAIN versions /\ versions[tab[t].base + 1] = Version(t)

(* Once nothing is in flight the newest version names the audience that     *)
(* holds ("the version history records which audience a body was saved      *)
(* under", skills.js:206): violated by an edit that read the old audience.  *)
HistoryNamesAudience ==
    skill.there = "yes" /\ share.audience # "none"
    /\ (\A t \in Tabs : tab[t].pc \in {"idle", "saved", "refused", "failed"})
        => versions[skill.latest].audience = share.audience
==============================================================================
