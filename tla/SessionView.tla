----------------------------- MODULE SessionView -----------------------------
(***************************************************************************)
(* What a task's session promises those who read it, without the streams,  *)
(* recorders and statements that write it: a line once shown stays where   *)
(* and what it is; the session is called complete by one that has looked   *)
(* at it and shows what was missing, and no more lines of the machine's    *)
(* result are left out than others showed since that look; lines go only   *)
(* all together, and only from a session that was complete.  SessionLog is *)
(* shown to implement it.                                                  *)
(***************************************************************************)
CONSTANTS Keys, Bodies

VARIABLES
    shown,     \* the lines, by their keys
    looked,    \* what one that is about to reconcile has seen: at most one session
    complete,  \* "yes", "no"
    log        \* the lines of the result it was completed from

vars == <<shown, looked, complete, log>>

(* t continues s: nothing that s shows moved, changed or went away.         *)
Continues(s, t) ==
    /\ DOMAIN s \subseteq DOMAIN t
    /\ \A k \in DOMAIN s : t[k] = s[k]

LeftOut(lines, s) == {l \in lines : \A k \in DOMAIN s : s[k] # l}

(* Each line that is left out has a key of its own among those.             *)
NoMoreThan(lines, keys) == \E at \in [lines -> keys] : \A l, o \in lines : at[l] = at[o] => l = o

Init ==
    /\ shown = [k \in {} |-> CHOOSE b \in Bodies : TRUE]
    /\ looked = {}
    /\ complete = "no"
    /\ log = {}

Write ==
    /\ Continues(shown, shown')
    /\ UNCHANGED <<looked, complete, log>>

Look ==
    /\ looked' = {shown}
    /\ UNCHANGED <<shown, complete, log>>

(* It fails, or the session is complete.                                    *)
LookAway ==
    /\ looked' = {}
    /\ UNCHANGED <<shown, complete, log>>

Reconcile ==
    /\ complete = "no"
    /\ Continues(shown, shown')
    /\ \E seen \in looked : NoMoreThan(LeftOut(log', shown'), DOMAIN shown \ DOMAIN seen)
    /\ looked' = {}
    /\ complete' = "yes"

Resume ==
    /\ complete' = "no"
    /\ UNCHANGED <<shown, looked, log>>

Forget ==
    /\ complete = "yes" /\ looked = {}
    /\ DOMAIN shown' = {}
    /\ UNCHANGED <<looked, complete, log>>

Next == Write \/ Look \/ LookAway \/ Reconcile \/ Resume \/ Forget

Spec == Init /\ [][Next]_vars
=============================================================================
