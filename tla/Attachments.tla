----------------------------- MODULE Attachments -----------------------------
(***************************************************************************)
(* The files of a message (server/domain/attachments.js and its callers).  *)
(* A file is uploaded before the message is sent, or posted with the form; *)
(* a send names uploads by their ids, reads them one by one, and claims    *)
(* them in the transaction that writes its message, one UPDATE after the   *)
(* other.  Sends of two tabs interleave at every statement, and a file may *)
(* be taken back meanwhile.                                                *)
(*                                                                         *)
(* A row another transaction has updated is locked until that one ends: an *)
(* UPDATE or DELETE of it waits and then reads its WHERE again, a SELECT    *)
(* sees it as it was.                                                      *)
(***************************************************************************)
EXTENDS Naturals, Sequences, FiniteSets

CONSTANTS
    Files,          \* what a person has to attach
    SizeOf,         \* the size of each, in units
    Programs,       \* those that are a program by their name or by their bytes
    Sends,          \* messages being sent
    MaxFiles,       \* files of one message
    MaxFileSize, MaxMessageSize,
    MaxLost         \* bound: handlers that die inside their transaction

VARIABLES
    file,     \* codes_attachments: where each file is, and the send whose transaction holds its row
    send,     \* the handler of each send
    talk,     \* what a continue and a message write to: the task and the conductor
    taking    \* the DELETE of a file, between its check and its statement

avars == <<file, send, talk, taking>>

Nobody == "nobody"
Talks == {"continue", "message"}
Doors == {"start", "continue", "message"}
Idle == [pc |-> "idle", route |-> "start", ids |-> <<>>, left |-> <<>>]

InitFiles ==
    /\ file = [f \in Files |-> [at |-> "home", on |-> Nobody, lock |-> Nobody]]
    /\ send = [m \in Sends |-> Idle]
    /\ talk = [t \in Talks |-> [state |-> "ready", lock |-> Nobody]]
    /\ taking = {}

(* inspect: no program, something in it, and at most 20 MB; inspectMany: at *)
(* most ten of them and 50 MB together.                                     *)
Inspect(f) == f \notin Programs /\ SizeOf[f] \in 1..MaxFileSize

Total(q) ==
    LET upTo[i \in 0..Len(q)] == IF i = 0 THEN 0 ELSE upTo[i - 1] + SizeOf[q[i]] IN upTo[Len(q)]

Fits(q) == Len(q) <= MaxFiles /\ Total(q) <= MaxMessageSize

InspectMany(q) == Fits(q) /\ \A i \in DOMAIN q : Inspect(q[i])

Stored(q) ==
    [f \in Files |-> IF \E i \in DOMAIN q : q[i] = f THEN [file[f] EXCEPT !.at = "stored"] ELSE file[f]]

(* POST /attachments: one file, checked and stored.                         *)
Upload(f) ==
    /\ file[f].at = "home"
    /\ Inspect(f)
    /\ file' = Stored(<<f>>)
    /\ UNCHANGED <<send, talk, taking>>

At(m, pc) == send[m].pc = pc
Becomes(m, pc) == send' = [send EXCEPT ![m].pc = pc, ![m].left = <<>>]

(* The lists of distinct files a message can name.                          *)
Lists(F) == UNION {{q \in [1..n -> F] : Cardinality({q[i] : i \in 1..n}) = n} : n \in 1..Cardinality(F)}

(* The composer's send names uploads, in the order they were added; another *)
(* tab may have sent or taken back any of them.                             *)
Post(m, r, q) ==
    /\ At(m, "idle")
    /\ \A i \in DOMAIN q : file[q[i]].at # "home"
    /\ send' = [send EXCEPT ![m] = [pc |-> "read", route |-> r, ids |-> q, left |-> q]]
    /\ UNCHANGED <<file, talk, taking>>

(* The form without a script posts the files with the message: saveMany     *)
(* stores all of them in one transaction, or refuses them all.              *)
PostForm(m, r, q) ==
    /\ At(m, "idle")
    /\ \A i \in DOMAIN q : file[q[i]].at = "home"
    /\ \/ /\ InspectMany(q)
          /\ file' = Stored(q)
          /\ send' = [send EXCEPT ![m] = [pc |-> "read", route |-> r, ids |-> q, left |-> q]]
       \/ /\ ~InspectMany(q)
          /\ Becomes(m, "refused")
          /\ UNCHANGED file
    /\ UNCHANGED <<talk, taking>>

(* pending: `own` reads one row after the other; one that is gone or on a   *)
(* message refuses the send.  (The pages run pending once more before this, *)
(* which can only refuse sooner.)                                           *)
Unclaimed(f) == file[f].at = "stored" /\ file[f].on = Nobody

Own(m) ==
    /\ At(m, "read") /\ send[m].left # <<>>
    /\ IF Unclaimed(Head(send[m].left))
         THEN send' = [send EXCEPT ![m].left = Tail(@)]
         ELSE Becomes(m, "refused")
    /\ UNCHANGED <<file, talk, taking>>

Pending(m) ==
    /\ At(m, "read") /\ send[m].left = <<>>
    /\ IF Fits(send[m].ids)
         THEN send' = [send EXCEPT ![m].pc = "checked"]
         ELSE Becomes(m, "refused")
    /\ UNCHANGED <<file, talk, taking>>

(* The transaction begins: start inserts a task of its own, continue and    *)
(* enqueue lock the row they write to and refuse one that is not ready.     *)
Begin(m) ==
    /\ At(m, "checked")
    /\ \/ /\ send[m].route = "start"
          /\ send' = [send EXCEPT ![m].pc = "link", ![m].left = send[m].ids]
          /\ UNCHANGED talk
       \/ /\ send[m].route # "start"
          /\ talk[send[m].route].lock = Nobody
          /\ talk[send[m].route].state = "ready"
          /\ talk' = [talk EXCEPT ![send[m].route].lock = m]
          /\ send' = [send EXCEPT ![m].pc = "link", ![m].left = send[m].ids]
       \/ /\ send[m].route # "start"
          /\ talk[send[m].route].lock = Nobody
          /\ talk[send[m].route].state # "ready"
          /\ Becomes(m, "refused")
          /\ UNCHANGED talk
    /\ UNCHANGED <<file, taking>>

(* link: one UPDATE per file, WHERE task_id IS NULL AND message_id IS NULL. *)
ClaimableAny(f) == file[f].at = "stored"

Claimable(f) == file[f].at = "stored" /\ file[f].on = Nobody

Link(m) ==
    /\ At(m, "link") /\ send[m].left # <<>>
    /\ LET f == Head(send[m].left) IN
        /\ file[f].lock = Nobody
        /\ Claimable(f)
        /\ file' = [file EXCEPT ![f].lock = m]
    /\ send' = [send EXCEPT ![m].left = Tail(@)]
    /\ UNCHANGED <<talk, taking>>

Unlocked(m) == [t \in Talks |-> IF talk[t].lock = m THEN [talk[t] EXCEPT !.lock = Nobody] ELSE talk[t]]
RolledBack(m) == [f \in Files |-> IF file[f].lock = m THEN [file[f] EXCEPT !.lock = Nobody] ELSE file[f]]

RollBack(m, pc) ==
    /\ file' = RolledBack(m)
    /\ talk' = Unlocked(m)
    /\ Becomes(m, pc)
    /\ UNCHANGED taking

(* A row that lost the race throws, and the caller's transaction rolls back.*)
LostTheRace(m) ==
    /\ At(m, "link") /\ send[m].left # <<>>
    /\ file[Head(send[m].left)].lock = Nobody
    /\ ~Claimable(Head(send[m].left))
    /\ RollBack(m, "refused")

(* Two sends that name the same files in another order wait for each other; *)
(* the database ends one of them.                                           *)
WaitsFor(m) ==
    IF At(m, "link") /\ send[m].left # <<>> THEN file[Head(send[m].left)].lock ELSE Nobody

Deadlocked(m) ==
    /\ WaitsFor(m) \in Sends \ {m}
    /\ WaitsFor(WaitsFor(m)) = m
    /\ RollBack(m, "refused")

(* The handler's process dies inside the transaction.                       *)
Dies(m) ==
    /\ At(m, "link")
    /\ Cardinality({x \in Sends : At(x, "lost")}) < MaxLost
    /\ RollBack(m, "lost")

Committed(m) ==
    [f \in Files |-> IF file[f].lock = m THEN [file[f] EXCEPT !.lock = Nobody, !.on = m] ELSE file[f]]

(* A continue leaves its task queued; a conductor takes the next message.   *)
After(m) ==
    [t \in Talks |-> CASE t = send[m].route /\ t = "continue" -> [state |-> "busy", lock |-> Nobody]
                       [] t = send[m].route /\ t = "message" -> [talk[t] EXCEPT !.lock = Nobody]
                       [] OTHER -> talk[t]]

Commit(m) ==
    /\ At(m, "link") /\ send[m].left = <<>>
    /\ file' = Committed(m)
    /\ talk' = After(m)
    /\ Becomes(m, "sent")
    /\ UNCHANGED taking

(* remove: `own` first, and then a DELETE by id and subject alone.          *)
RemoveCheck(f) ==
    /\ f \notin taking
    /\ Unclaimed(f)
    /\ taking' = taking \cup {f}
    /\ UNCHANGED <<file, send, talk>>

Remove(f) ==
    /\ f \in taking
    /\ file[f].lock = Nobody
    /\ file' = [file EXCEPT ![f].at = "gone"]
    /\ taking' = taking \ {f}
    /\ UNCHANGED <<send, talk>>

(* The turn a continue started ends; the owner stops the task or conductor. *)
TurnEnds ==
    /\ talk["continue"].state = "busy" /\ talk["continue"].lock = Nobody
    /\ talk' = [talk EXCEPT !["continue"].state = "ready"]
    /\ UNCHANGED <<file, send, taking>>

Stops(t) ==
    /\ talk[t].state # "stopped" /\ talk[t].lock = Nobody
    /\ talk' = [talk EXCEPT ![t].state = "stopped"]
    /\ UNCHANGED <<file, send, taking>>

NextFiles ==
    \/ \E f \in Files : Upload(f) \/ RemoveCheck(f) \/ Remove(f)
    \/ \E m \in Sends, r \in Doors, q \in Lists(Files) : Post(m, r, q) \/ PostForm(m, r, q)
    \/ \E m \in Sends : \/ Own(m) \/ Pending(m) \/ Begin(m) \/ Link(m) \/ LostTheRace(m)
                        \/ Deadlocked(m) \/ Dies(m) \/ Commit(m)
    \/ TurnEnds
    \/ \E t \in Talks : Stops(t)

Spec == InitFiles /\ [][NextFiles]_avars

-----------------------------------------------------------------------------

NamedBy(m) == {send[m].ids[i] : i \in DOMAIN send[m].ids}

(* A message that was sent has every file it names, and one that was        *)
(* refused, lost or is still being sent has none: two sends of one upload,  *)
(* whatever they wait for, never share it and never split it.  (A file may  *)
(* still be deleted from under its message: AttachedStays.)                 *)
WholeOrNothing ==
    \A m \in Sends :
        /\ send[m].pc = "sent" => \A f \in NamedBy(m) : file[f].on = m
        /\ send[m].pc # "sent" => \A f \in Files : file[f].on # m

(* A file on a message is not deleted ("only while it is not attached to a  *)
(* message", attachments.js:208): violated, remove checks before it deletes.*)
AttachedStays == \A f \in Files : file[f].on # Nobody => file[f].at = "stored"
==============================================================================
