------------------------------- MODULE SiteProofs ------------------------------
(***************************************************************************)
(* Proofs about what a person keeps with Codes: the files of their         *)
(* messages, their knowledge and skills, their settings, what the memory   *)
(* page answers, and the deletion of their account.  Each theorem is about *)
(* its component's own specification (the parts share no state, MCSite),   *)
(* for every value of the constants that MCSite's assumptions allow.       *)
(*                                                                         *)
(* Each part has the same shape: an inductive invariant (...Inv), the step *)
(* of one actor as a predicate (...Moves) with the lemma that such a step  *)
(* keeps the invariant, a lemma per action, and the theorem.               *)
(***************************************************************************)
EXTENDS MCSite, FiniteSetTheorems, TLAPS

-----------------------------------------------------------------------------
(* The files of a message (Attachments).                                     *)

AttFile == [at : {"home", "stored", "gone"}, on : Pair \cup {Att!Nobody}, lock : Pair \cup {Att!Nobody}]
AttSend ==
    [pc : {"idle", "read", "checked", "link", "sent", "refused", "lost"}, route : Att!Doors,
     ids : Seq(Files), left : Seq(Files)]

(* What send m has: every file it names once it is sent and none before;     *)
(* while it links, a file it names is locked by it or still to be claimed.   *)
AttHolds(m, v, F) ==
    /\ v.pc = "sent" => \A i \in DOMAIN v.ids : F[v.ids[i]].on = m
    /\ v.pc # "sent" => \A f \in Files : F[f].on # m
    /\ v.pc = "link" => \A i \in DOMAIN v.ids :
                            F[v.ids[i]].lock = m \/ \E j \in DOMAIN v.left : v.left[j] = v.ids[i]
    /\ v.pc # "link" => \A f \in Files : F[f].lock # m

(* A row a transaction has claimed was on no message.                        *)
AttFree(F) == \A f \in Files : F[f].lock # Att!Nobody => F[f].on = Att!Nobody

AttInv ==
    /\ file \in [Files -> AttFile]
    /\ send \in [Pair -> AttSend]
    /\ AttFree(file)
    /\ \A m \in Pair : AttHolds(m, send[m], file)

LEMMA AttNobody == Att!Nobody \notin Pair
    BY FilesAssumption DEF Att!Nobody

LEMMA AttInitial == Att!InitFiles => AttInv
<1> SUFFICES ASSUME Att!InitFiles PROVE AttInv
    OBVIOUS
<1>1. Att!Idle \in AttSend /\ Att!Idle.pc = "idle"
    BY DEF Att!Idle, AttSend, Att!Doors
<1>2. \A f \in Files : file[f] \in AttFile /\ file[f].on = Att!Nobody /\ file[f].lock = Att!Nobody
    BY DEF Att!InitFiles, AttFile
<1>3. file \in [Files -> AttFile]
    BY <1>2 DEF Att!InitFiles
<1>4. \A m \in Pair : AttHolds(m, Att!Idle, file)
    BY <1>1, <1>2, AttNobody DEF AttHolds
<1> QED
    BY <1>1, <1>2, <1>3, <1>4 DEF Att!InitFiles, AttInv, AttFree

(* A step of send m: the other sends' rows and locks stay.                   *)
AttMoves(m, v, F) ==
    /\ m \in Pair /\ v \in AttSend /\ F \in [Files -> AttFile]
    /\ AttFree(F) /\ AttHolds(m, v, F)
    /\ \A f \in Files, x \in Pair \ {m} :
        (F[f].on = x <=> file[f].on = x) /\ (F[f].lock = x <=> file[f].lock = x)

LEMMA AttStep ==
    ASSUME AttInv, NEW m, NEW v, AttMoves(m, v, file'), send' = [send EXCEPT ![m] = v]
    PROVE  AttInv'
<1>1. m \in Pair /\ send' \in [Pair -> AttSend] /\ send'[m] = v /\ \A x \in Pair : x # m => send'[x] = send[x]
    BY DEF AttMoves, AttInv
<1>2. ASSUME NEW x \in Pair PROVE AttHolds(x, send'[x], file')
  <2>1. CASE x = m
      BY <1>1, <2>1 DEF AttMoves
  <2>2. CASE x # m
    <3>1. AttHolds(x, send[x], file) /\ send[x] \in AttSend /\ send'[x] = send[x]
        BY <1>1, <2>2 DEF AttInv
    <3>2. \A f \in Files : (file'[f].on = x <=> file[f].on = x) /\ (file'[f].lock = x <=> file[f].lock = x)
        BY <2>2 DEF AttMoves
    <3>3. \A i \in DOMAIN send[x].ids : send[x].ids[i] \in Files
        BY <3>1 DEF AttSend
    <3> QED
        BY <3>1, <3>2, <3>3 DEF AttHolds
  <2> QED
      BY <2>1, <2>2
<1> QED
    BY <1>1, <1>2 DEF AttInv, AttMoves

(* A file is stored or deleted; who has it, and who holds its row, stays.    *)
LEMMA AttFileStep ==
    ASSUME AttInv, UNCHANGED send, file' \in [Files -> AttFile],
           \A f \in Files : file'[f].on = file[f].on /\ file'[f].lock = file[f].lock
    PROVE  AttInv'
<1>1. ASSUME NEW m \in Pair PROVE AttHolds(m, send[m], file')
  <2>1. AttHolds(m, send[m], file) /\ send[m] \in AttSend
      BY DEF AttInv
  <2>2. \A i \in DOMAIN send[m].ids : send[m].ids[i] \in Files
      BY <2>1 DEF AttSend
  <2> QED
      BY <2>1, <2>2 DEF AttHolds
<1> QED
    BY <1>1 DEF AttInv, AttFree

LEMMA AttStored ==
    ASSUME AttInv, NEW q
    PROVE  /\ Att!Stored(q) \in [Files -> AttFile]
           /\ \A f \in Files : Att!Stored(q)[f].on = file[f].on /\ Att!Stored(q)[f].lock = file[f].lock
<1>1. ASSUME NEW f \in Files
      PROVE  /\ [file[f] EXCEPT !.at = "stored"] \in AttFile
             /\ [file[f] EXCEPT !.at = "stored"].on = file[f].on
             /\ [file[f] EXCEPT !.at = "stored"].lock = file[f].lock
             /\ file[f] \in AttFile
    BY DEF AttInv, AttFile
<1> QED
    BY <1>1 DEF Att!Stored

(* A send that is not yet linking or sent has no file and no lock.           *)
LEMMA AttQuiet ==
    ASSUME AttInv, NEW m \in Pair, NEW v \in AttSend, v.pc \notin {"link", "sent"},
           NEW F \in [Files -> AttFile], AttFree(F),
           \A f \in Files : F[f].on = file[f].on /\ (F[f].lock = file[f].lock \/ (F[f].lock = Att!Nobody /\ file[f].lock = m)),
           \A f \in Files : F[f].on # m /\ F[f].lock # m
    PROVE  AttMoves(m, v, F)
    BY AttNobody DEF AttMoves, AttHolds

LEMMA AttBecomes ==
    ASSUME AttInv, NEW m \in Pair, NEW pc \in {"sent", "refused", "lost"}, Att!Becomes(m, pc)
    PROVE  \E v \in AttSend : v.pc = pc /\ v.ids = send[m].ids /\ send' = [send EXCEPT ![m] = v]
<1> DEFINE b == [send[m] EXCEPT !.pc = pc]
           v == [b EXCEPT !.left = <<>>]
<1>1. send[m] \in AttSend
    BY DEF AttInv
<1>2. b \in AttSend /\ b.pc = pc /\ b.ids = send[m].ids
    BY <1>1 DEF AttSend
<1>3. send' = [send EXCEPT ![m] = v]
    BY DEF Att!Becomes, AttInv
<1>4. <<>> \in Seq(Files)
    OBVIOUS
<1> HIDE DEF b
<1>5. v \in AttSend /\ v.pc = pc /\ v.ids = send[m].ids
    BY <1>2, <1>4 DEF AttSend
<1> QED
    BY <1>3, <1>5

(* A send goes on before its transaction: the files stay, or are stored.     *)
LEMMA AttBefore ==
    ASSUME AttInv, NEW m \in Pair, send[m].pc \notin {"link", "sent"},
           NEW v \in AttSend, v.pc \notin {"link", "sent"}, send' = [send EXCEPT ![m] = v],
           file' \in [Files -> AttFile],
           \A f \in Files : file'[f].on = file[f].on /\ file'[f].lock = file[f].lock
    PROVE  AttInv'
<1>1. AttFree(file') /\ \A f \in Files : file'[f].on # m /\ file'[f].lock # m
    BY DEF AttInv, AttFree, AttHolds
<1>2. AttMoves(m, v, file')
    BY <1>1, AttQuiet
<1> QED
    BY <1>2, AttStep

LEMMA AttLists ==
    ASSUME NEW q \in Att!Lists(Files) PROVE q \in Seq(Files)
<1>1. \A S : Att!Cardinality(S) = Cardinality(S)
    BY DEF Cardinality, Att!Cardinality
<1>2. Cardinality(Files) \in Nat
    BY FilesAssumption, FS_CardinalityType
<1>3. PICK n \in 1..Cardinality(Files) : q \in [1..n -> Files]
    BY <1>1 DEF Att!Lists
<1>4. n \in Nat
    BY <1>2
<1> QED
    BY <1>3, <1>4

LEMMA AttPosts ==
    ASSUME AttInv, NEW m \in Pair, NEW r \in Att!Doors, NEW q \in Att!Lists(Files),
           Att!Post(m, r, q) \/ Att!PostForm(m, r, q)
    PROVE  AttInv'
<1> DEFINE v == [pc |-> "read", route |-> r, ids |-> q, left |-> q]
<1>1. v \in AttSend /\ v.pc = "read"
    BY AttLists DEF AttSend
<1>2. send[m].pc = "idle" /\ file \in [Files -> AttFile]
    BY DEF Att!Post, Att!PostForm, Att!At, AttInv
<1> HIDE DEF v
<1>3. CASE send' = [send EXCEPT ![m] = v] /\ file' \in {file, Att!Stored(q)}
    BY <1>1, <1>2, <1>3, AttStored, AttBefore
<1>4. CASE Att!Becomes(m, "refused") /\ file' = file
  <2>1. PICK w \in AttSend : w.pc = "refused" /\ send' = [send EXCEPT ![m] = w]
      BY <1>4, AttBecomes
  <2> QED
      BY <1>2, <1>4, <2>1, AttBefore
<1> QED
    BY <1>3, <1>4 DEF Att!Post, Att!PostForm, v

LEMMA AttChecks ==
    ASSUME AttInv, NEW m \in Pair, Att!Own(m) \/ Att!Pending(m) PROVE AttInv'
<1>1. send[m] \in AttSend /\ send[m].pc = "read" /\ file' = file /\ file \in [Files -> AttFile]
    BY DEF Att!Own, Att!Pending, Att!At, AttInv
<1>2. CASE Att!Becomes(m, "refused")
  <2>1. PICK w \in AttSend : w.pc = "refused" /\ send' = [send EXCEPT ![m] = w]
      BY <1>2, AttBecomes
  <2> QED
      BY <1>1, <2>1, AttBefore
<1>3. CASE send[m].left # <<>> /\ send' = [send EXCEPT ![m].left = Tail(@)]
  <2> DEFINE w == [send[m] EXCEPT !.left = Tail(send[m].left)]
  <2>1. Tail(send[m].left) \in Seq(Files)
      BY <1>1, <1>3 DEF AttSend
  <2>2. w \in AttSend /\ w.pc = "read"
      BY <1>1, <2>1 DEF AttSend
  <2>3. send' = [send EXCEPT ![m] = w]
      BY <1>3
  <2> HIDE DEF w
  <2> QED
      BY <1>1, <2>2, <2>3, AttBefore
<1>4. CASE send' = [send EXCEPT ![m].pc = "checked"]
  <2> DEFINE w == [send[m] EXCEPT !.pc = "checked"]
  <2>1. w \in AttSend /\ w.pc = "checked"
      BY <1>1 DEF AttSend
  <2>2. send' = [send EXCEPT ![m] = w]
      BY <1>4
  <2> HIDE DEF w
  <2> QED
      BY <1>1, <2>1, <2>2, AttBefore
<1> QED
    BY <1>2, <1>3, <1>4 DEF Att!Own, Att!Pending

(* The transaction begins with every file still to be claimed.               *)
LEMMA AttBegin ==
    ASSUME AttInv, NEW m \in Pair, Att!Begin(m) PROVE AttInv'
<1>1. send[m] \in AttSend /\ send[m].pc = "checked" /\ file' = file /\ file \in [Files -> AttFile]
    BY DEF Att!Begin, Att!At, AttInv
<1>2. CASE Att!Becomes(m, "refused")
  <2>1. PICK w \in AttSend : w.pc = "refused" /\ send' = [send EXCEPT ![m] = w]
      BY <1>2, AttBecomes
  <2> QED
      BY <1>1, <2>1, AttBefore
<1>3. CASE send' = [send EXCEPT ![m].pc = "link", ![m].left = send[m].ids]
  <2> DEFINE b == [send[m] EXCEPT !.pc = "link"]
             v == [b EXCEPT !.left = send[m].ids]
  <2>1. b \in AttSend /\ b.pc = "link" /\ b.ids = send[m].ids
      BY <1>1 DEF AttSend
  <2>2. send' = [send EXCEPT ![m] = v]
      BY <1>3 DEF AttInv
  <2> HIDE DEF b
  <2>3. v \in AttSend /\ v.pc = "link" /\ v.ids = send[m].ids /\ v.left = send[m].ids
      BY <1>1, <2>1 DEF AttSend
  <2> HIDE DEF v
  <2>4. AttHolds(m, v, file)
      BY <1>1, <2>3 DEF AttHolds, AttInv
  <2>5. AttMoves(m, v, file')
      BY <1>1, <2>3, <2>4 DEF AttMoves, AttInv
  <2> QED
      BY <2>2, <2>5, AttStep
<1> QED
    BY <1>2, <1>3 DEF Att!Begin

(* One file is claimed; the rest still is to be.                             *)
LEMMA AttLink ==
    ASSUME AttInv, NEW m \in Pair, Att!Link(m) PROVE AttInv'
<1> DEFINE f == Head(send[m].left)
           row == [file[f] EXCEPT !.lock = m]
           v == [send[m] EXCEPT !.left = Tail(send[m].left)]
<1>1. send[m] \in AttSend /\ send[m].pc = "link" /\ send[m].left # <<>> /\ AttHolds(m, send[m], file)
       /\ file \in [Files -> AttFile] /\ AttFree(file)
    BY DEF Att!Link, Att!At, AttInv
<1>2. f \in Files /\ Tail(send[m].left) \in Seq(Files) /\ f = send[m].left[1]
    BY <1>1 DEF AttSend
<1>3. file[f].lock = Att!Nobody /\ file[f].on = Att!Nobody
    BY DEF Att!Link, Att!Claimable
<1>4. file' = [file EXCEPT ![f] = row] /\ send' = [send EXCEPT ![m] = v]
    BY DEF Att!Link
<1>5. v \in AttSend /\ v.pc = "link" /\ v.ids = send[m].ids /\ v.left = Tail(send[m].left)
    BY <1>1, <1>2 DEF AttSend
<1>6. row \in AttFile /\ row.on = Att!Nobody /\ row.lock = m
    BY <1>1, <1>2, <1>3 DEF AttFile
<1> HIDE DEF row, v
<1>7. file' \in [Files -> AttFile] /\ file'[f] = row /\ \A g \in Files : g # f => file'[g] = file[g]
    BY <1>1, <1>2, <1>4, <1>6
<1>8. ASSUME NEW j \in DOMAIN send[m].left, send[m].left[j] # f
      PROVE  \E k \in DOMAIN v.left : v.left[k] = send[m].left[j]
  <2>1. send[m].left \in Seq(Files) /\ j \in 1..Len(send[m].left) /\ j # 1
      BY <1>1, <1>2, <1>8 DEF AttSend
  <2>2. j - 1 \in 1..Len(Tail(send[m].left)) /\ Tail(send[m].left)[j - 1] = send[m].left[j]
      BY <1>1, <2>1
  <2> QED
      BY <1>2, <1>5, <2>2
<1> HIDE DEF f
<1>9. \A i \in DOMAIN v.ids : v.ids[i] \in Files
    BY <1>5 DEF AttSend
<1>10. ASSUME NEW i \in DOMAIN v.ids PROVE file'[v.ids[i]].lock = m \/ \E j \in DOMAIN v.left : v.left[j] = v.ids[i]
  <2>1. CASE v.ids[i] = f
      BY <1>6, <1>7, <2>1
  <2>2. CASE v.ids[i] # f
    <3>1. file'[v.ids[i]] = file[v.ids[i]]
        BY <1>7, <1>9, <2>2
    <3>2. file[v.ids[i]].lock = m \/ \E j \in DOMAIN send[m].left : send[m].left[j] = v.ids[i]
        BY <1>1, <1>5 DEF AttHolds
    <3> QED
        BY <1>8, <2>2, <3>1, <3>2
  <2> QED
      BY <2>1, <2>2
<1>11. \A g \in Files : file'[g].on = file[g].on
    BY <1>3, <1>6, <1>7
<1>12. AttHolds(m, v, file')
    BY <1>1, <1>5, <1>10, <1>11 DEF AttHolds
<1>13. AttFree(file')
    BY <1>1, <1>6, <1>7 DEF AttFree
<1>14. \A g \in Files, x \in Pair \ {m} : file'[g].lock = x <=> file[g].lock = x
    BY <1>3, <1>6, <1>7, AttNobody
<1>15. AttMoves(m, v, file')
    BY <1>5, <1>7, <1>11, <1>12, <1>13, <1>14 DEF AttMoves
<1> QED
    BY <1>4, <1>15, AttStep

LEMMA AttRollBack ==
    ASSUME AttInv, NEW m \in Pair, NEW pc \in {"refused", "lost"}, Att!RollBack(m, pc), send[m].pc = "link"
    PROVE  AttInv'
<1>1. PICK v \in AttSend : v.pc = pc /\ send' = [send EXCEPT ![m] = v]
    BY AttBecomes DEF Att!RollBack
<1>2. ASSUME NEW f \in Files
      PROVE  /\ file[f] \in AttFile
             /\ [file[f] EXCEPT !.lock = Att!Nobody] \in AttFile
             /\ [file[f] EXCEPT !.lock = Att!Nobody].on = file[f].on
             /\ [file[f] EXCEPT !.lock = Att!Nobody].lock = Att!Nobody
    BY DEF AttInv, AttFile
<1>3. file' \in [Files -> AttFile]
       /\ \A f \in Files : file'[f].on = file[f].on
                            /\ (file[f].lock = m => file'[f].lock = Att!Nobody)
                            /\ (file[f].lock # m => file'[f].lock = file[f].lock)
    BY <1>2 DEF Att!RollBack, Att!RolledBack
<1>4. AttFree(file)
    BY DEF AttInv
<1>5. AttFree(file')
    BY <1>3, <1>4 DEF AttFree
<1>6. \A f \in Files : file'[f].on # m /\ file'[f].lock # m
    BY <1>3, AttNobody DEF AttInv, AttHolds
<1>7. AttMoves(m, v, file')
    BY <1>1, <1>3, <1>5, <1>6, AttQuiet
<1> QED
    BY <1>1, <1>7, AttStep

(* The transaction commits: all it names, which it has locked, is on it.     *)
LEMMA AttCommit ==
    ASSUME AttInv, NEW m \in Pair, Att!Commit(m) PROVE AttInv'
<1>1. PICK v \in AttSend : v.pc = "sent" /\ v.ids = send[m].ids /\ send' = [send EXCEPT ![m] = v]
    BY AttBecomes DEF Att!Commit
<1>2. send[m] \in AttSend /\ AttHolds(m, send[m], file) /\ send[m].pc = "link" /\ send[m].left = <<>> /\ AttFree(file)
    BY DEF AttInv, Att!Commit, Att!At
<1>3. ASSUME NEW f \in Files
      PROVE  LET d == [file[f] EXCEPT !.lock = Att!Nobody, !.on = m]
             IN  d \in AttFile /\ d.lock = Att!Nobody /\ d.on = m /\ file[f] \in AttFile
  <2> DEFINE b == [file[f] EXCEPT !.lock = Att!Nobody]
             d == [b EXCEPT !.on = m]
  <2>1. file[f] \in AttFile
      BY DEF AttInv
  <2>2. b \in AttFile /\ b.lock = Att!Nobody
      BY <2>1 DEF AttFile
  <2>3. [file[f] EXCEPT !.lock = Att!Nobody, !.on = m] = d
      OBVIOUS
  <2> HIDE DEF b
  <2>4. d \in AttFile /\ d.lock = Att!Nobody /\ d.on = m
      BY <2>2 DEF AttFile
  <2> HIDE DEF d
  <2> QED
      BY <2>1, <2>3, <2>4
<1>4. file' \in [Files -> AttFile]
       /\ \A f \in Files : /\ file[f].lock = m => file'[f].lock = Att!Nobody /\ file'[f].on = m
                           /\ file[f].lock # m => file'[f] = file[f]
    BY <1>3 DEF Att!Commit, Att!Committed
<1>5. \A i \in DOMAIN v.ids : v.ids[i] \in Files /\ file[v.ids[i]].lock = m
    BY <1>1, <1>2 DEF AttHolds, AttSend
<1>6. AttHolds(m, v, file')
    BY <1>1, <1>4, <1>5, AttNobody DEF AttHolds
<1>7. AttFree(file')
    BY <1>2, <1>4 DEF AttFree
<1>8. ASSUME NEW f \in Files, NEW x \in Pair \ {m}
      PROVE  (file'[f].on = x <=> file[f].on = x) /\ (file'[f].lock = x <=> file[f].lock = x)
    BY <1>2, <1>4, AttNobody DEF AttFree
<1>9. AttMoves(m, v, file')
    BY <1>1, <1>4, <1>6, <1>7, <1>8 DEF AttMoves
<1> QED
    BY <1>1, <1>9, AttStep

LEMMA AttNext == AttInv /\ [Att!NextFiles]_Att!avars => AttInv'
<1> SUFFICES ASSUME AttInv, [Att!NextFiles]_Att!avars PROVE AttInv'
    OBVIOUS
<1>1. ASSUME NEW f \in Files, Att!Upload(f) PROVE AttInv'
    BY <1>1, AttStored, AttFileStep DEF Att!Upload
<1>2. ASSUME NEW f \in Files, Att!Remove(f) PROVE AttInv'
  <2> DEFINE row == [file[f] EXCEPT !.at = "gone"]
  <2>1. row \in AttFile /\ row.on = file[f].on /\ row.lock = file[f].lock
      BY DEF AttInv, AttFile
  <2>2. file' = [file EXCEPT ![f] = row] /\ UNCHANGED send
      BY <1>2 DEF Att!Remove
  <2> HIDE DEF row
  <2>3. file' \in [Files -> AttFile]
         /\ \A g \in Files : file'[g].on = file[g].on /\ file'[g].lock = file[g].lock
      BY <2>1, <2>2 DEF AttInv
  <2> QED
      BY <2>2, <2>3, AttFileStep
<1>3. ASSUME NEW m \in Pair, NEW r \in Att!Doors, NEW q \in Att!Lists(Files),
             Att!Post(m, r, q) \/ Att!PostForm(m, r, q)
      PROVE  AttInv'
    BY <1>3, AttPosts
<1>4. ASSUME NEW m \in Pair, Att!Own(m) \/ Att!Pending(m) PROVE AttInv'
    BY <1>4, AttChecks
<1>5. ASSUME NEW m \in Pair, Att!Begin(m) PROVE AttInv'
    BY <1>5, AttBegin
<1>6. ASSUME NEW m \in Pair, Att!Link(m) PROVE AttInv'
    BY <1>6, AttLink
<1>7. ASSUME NEW m \in Pair, Att!LostTheRace(m) \/ Att!Deadlocked(m) \/ Att!Dies(m) PROVE AttInv'
  <2>1. Att!Deadlocked(m) => send[m].pc = "link"
      BY AttNobody DEF Att!Deadlocked, Att!WaitsFor, Att!At
  <2> QED
      BY <1>7, <2>1, AttRollBack DEF Att!LostTheRace, Att!Dies, Att!Deadlocked, Att!At
<1>8. ASSUME NEW m \in Pair, Att!Commit(m) PROVE AttInv'
    BY <1>8, AttCommit
<1>9. CASE UNCHANGED <<file, send>>
    BY <1>9 DEF AttInv
<1>10. UNCHANGED Att!avars \/ Att!TurnEnds \/ (\E t \in Att!Talks : Att!Stops(t)) \/ (\E f \in Files : Att!RemoveCheck(f))
         => UNCHANGED <<file, send>>
    BY DEF Att!avars, Att!TurnEnds, Att!Stops, Att!RemoveCheck
<1> QED
    BY <1>1, <1>2, <1>3, <1>4, <1>5, <1>6, <1>7, <1>8, <1>9, <1>10 DEF Att!NextFiles

(* A message has all the files it names, or none (attachments.js claim), for *)
(* any number of sends, files and deletions: the rows a transaction has      *)
(* claimed so far, with those it is still to claim, are all that it names.   *)
THEOREM MessagesHaveAllTheirFiles == Att!Spec => []WholeOrNothing
<1>1. AttInv => WholeOrNothing
    BY DEF AttInv, AttHolds, WholeOrNothing, Att!WholeOrNothing, Att!NamedBy
<1> QED
    BY <1>1, AttInitial, AttNext, PTL DEF Att!Spec
-----------------------------------------------------------------------------
(* What a person's runs taught them (Knowledge).                             *)

(* A row's key is that of the text and kind it has now.                      *)
KnowRow(r) ==
    /\ r = [id |-> r.id, kind |-> r.kind, text |-> r.text, key |-> r.key,
            team |-> r.team, pinned |-> r.pinned, seen |-> r.seen]
    /\ r.key = <<r.kind, r.text>>
    /\ r.id \in Nat

KnowInv ==
    /\ made \in Nat
    /\ \A r \in know : KnowRow(r) /\ r.id <= made
    /\ \A a, b \in know : a.id = b.id => a = b
    /\ NoTextTwice

(* The unique index finds a row by its text.                                 *)
LEMMA KnowSame ==
    ASSUME NEW r, KnowRow(r), NEW kind, NEW text
    PROVE  Know!Same(r, kind, text) <=> r.kind = kind /\ r.text = text
<1>1. Know!Same(r, kind, text) <=> r.kind = kind /\ <<r.kind, r.text>> = <<kind, text>>
    BY DEF KnowRow, Know!Same, Know!Key
<1> QED
    BY <1>1

LEMMA KnowRaised ==
    ASSUME NEW r, KnowRow(r)
    PROVE  /\ KnowRow(Know!Raised(r)) /\ Know!Raised(r).id = r.id
           /\ Know!Raised(r).kind = r.kind /\ Know!Raised(r).text = r.text
<1> DEFINE s == IF r.seen < MaxSeen THEN r.seen + 1 ELSE r.seen
<1>1. Know!Raised(r) = [r EXCEPT !.seen = s]
    BY DEF Know!Raised
<1> HIDE DEF s
<1>2. Know!Raised(r) = [id |-> r.id, kind |-> r.kind, text |-> r.text, key |-> r.key,
                        team |-> r.team, pinned |-> r.pinned, seen |-> s]
    BY <1>1 DEF KnowRow
<1> QED
    BY <1>2 DEF KnowRow

(* A row written over by one of the same id and text.                        *)
LEMMA KnowChanges ==
    ASSUME KnowInv, NEW row \in know, NEW new, KnowRow(new),
           new.id = row.id, new.kind = row.kind, new.text = row.text,
           know' = (know \ {row}) \cup {new}, UNCHANGED made
    PROVE  KnowInv'
<1>1. \A r \in know' : KnowRow(r) /\ r.id <= made'
    BY DEF KnowInv
<1>2. ASSUME NEW a \in know', NEW b \in know',
             a.id = b.id \/ (a.kind = b.kind /\ a.text = b.text)
      PROVE  a = b
    BY <1>2 DEF KnowInv, NoTextTwice, Know!NoTextTwice
<1> QED
    BY <1>1, <1>2 DEF KnowInv, NoTextTwice, Know!NoTextTwice

LEMMA KnowRemember ==
    ASSUME KnowInv, NEW kind, NEW text, NEW team, NEW pinned,
           Know!Remember(kind, text, team, pinned)
    PROVE  KnowInv'
<1>1. CASE \E row \in know : Know!Same(row, kind, text)
  <2> DEFINE to(r) == IF Know!Same(r, kind, text) THEN Know!Raised(r) ELSE r
  <2>1. know' = {to(r) : r \in know} /\ made' = made
      BY <1>1 DEF Know!Remember
  <2>2. ASSUME NEW r \in know
        PROVE  KnowRow(to(r)) /\ to(r).id = r.id /\ to(r).kind = r.kind /\ to(r).text = r.text
      BY KnowRaised DEF KnowInv
  <2> HIDE DEF to
  <2>3. \A r \in know' : KnowRow(r) /\ r.id <= made'
      BY <2>1, <2>2 DEF KnowInv
  <2>4. ASSUME NEW a \in know', NEW b \in know',
               a.id = b.id \/ (a.kind = b.kind /\ a.text = b.text)
        PROVE  a = b
    <3>1. PICK r \in know : a = to(r)
        BY <2>1
    <3>2. PICK s \in know : b = to(s)
        BY <2>1
    <3>3. r.id = s.id \/ (r.kind = s.kind /\ r.text = s.text)
        BY <2>2, <2>4, <3>1, <3>2
    <3>4. r = s
        BY <3>3 DEF KnowInv, NoTextTwice, Know!NoTextTwice
    <3> QED
        BY <3>1, <3>2, <3>4
  <2> QED
      BY <2>1, <2>3, <2>4 DEF KnowInv, NoTextTwice, Know!NoTextTwice
<1>2. CASE ~\E row \in know : Know!Same(row, kind, text)
  <2> DEFINE new == Know!New(kind, text, team, pinned)
  <2>1. know' = know \cup {new} /\ made' = made + 1 /\ made' \in Nat
      BY <1>2 DEF Know!Remember, KnowInv
  <2>2. KnowRow(new) /\ new.id = made + 1 /\ new.kind = kind /\ new.text = text
      BY DEF Know!New, Know!Key, KnowRow, KnowInv
  <2> HIDE DEF new
  <2>3. \A r \in know : r.id # new.id /\ ~(r.kind = new.kind /\ r.text = new.text)
      BY <1>2, <2>2, KnowSame DEF KnowInv, KnowRow
  <2>4. \A r \in know' : KnowRow(r) /\ r.id <= made'
      BY <2>1, <2>2 DEF KnowInv, KnowRow
  <2>5. ASSUME NEW a \in know', NEW b \in know',
               a.id = b.id \/ (a.kind = b.kind /\ a.text = b.text)
        PROVE  a = b
      BY <2>1, <2>3, <2>5 DEF KnowInv, NoTextTwice, Know!NoTextTwice
  <2> QED
      BY <2>1, <2>4, <2>5 DEF KnowInv, NoTextTwice, Know!NoTextTwice
<1> QED
    BY <1>1, <1>2

LEMMA KnowEdited ==
    ASSUME NEW r, KnowRow(r)
    PROVE  /\ KnowRow(Know!Edited(r)) /\ Know!Edited(r).id = r.id
           /\ Know!Edited(r).kind = editing.kind /\ Know!Edited(r).text = editing.text
<1> DEFINE k == <<editing.kind, editing.text>>
           b == [r EXCEPT !.text = editing.text]
           c == [b EXCEPT !.kind = editing.kind]
           d == [c EXCEPT !.key = k]
<1>1. b = [id |-> r.id, kind |-> r.kind, text |-> editing.text, key |-> r.key,
           team |-> r.team, pinned |-> r.pinned, seen |-> r.seen]
    BY DEF KnowRow
<1>2. Know!Edited(r) = d
    BY DEF Know!Edited, Know!Key
<1> HIDE DEF b
<1>3. c = [id |-> r.id, kind |-> editing.kind, text |-> editing.text, key |-> r.key,
           team |-> r.team, pinned |-> r.pinned, seen |-> r.seen]
    BY <1>1
<1> HIDE DEF c, k
<1>4. d = [id |-> r.id, kind |-> editing.kind, text |-> editing.text, key |-> k,
           team |-> r.team, pinned |-> r.pinned, seen |-> r.seen]
    BY <1>3
<1> QED
    BY <1>2, <1>4 DEF KnowRow, k

LEMMA KnowEditWrite == ASSUME KnowInv, Know!EditWrite PROVE KnowInv'
<1>1. CASE Know!Taken
    BY <1>1 DEF Know!EditWrite, KnowInv, NoTextTwice, Know!NoTextTwice
<1>2. CASE ~Know!Taken
  <2> DEFINE to(r) == IF r.id = editing.id THEN Know!Edited(r) ELSE r
  <2>1. know' = {to(r) : r \in know} /\ made' = made
      BY <1>2 DEF Know!EditWrite
  <2>2. ASSUME NEW r \in know
        PROVE  /\ KnowRow(to(r)) /\ to(r).id = r.id
               /\ r.id = editing.id => to(r).kind = editing.kind /\ to(r).text = editing.text
               /\ r.id # editing.id => to(r) = r /\ ~(r.kind = editing.kind /\ r.text = editing.text)
    <3>1. KnowRow(r)
        BY DEF KnowInv
    <3>2. CASE r.id = editing.id
        BY <3>1, <3>2, KnowEdited
    <3>3. CASE r.id # editing.id
        BY <1>2, <3>1, <3>3, KnowSame DEF Know!Taken
    <3> QED
        BY <3>2, <3>3
  <2> HIDE DEF to
  <2>3. \A r \in know' : KnowRow(r) /\ r.id <= made'
      BY <2>1, <2>2 DEF KnowInv
  <2>4. ASSUME NEW a \in know', NEW b \in know',
               a.id = b.id \/ (a.kind = b.kind /\ a.text = b.text)
        PROVE  a = b
    <3>1. PICK r \in know : a = to(r)
        BY <2>1
    <3>2. PICK s \in know : b = to(s)
        BY <2>1
    <3>3. CASE r.id = s.id
        BY <3>1, <3>2, <3>3 DEF KnowInv
    <3>4. CASE r.id # s.id
        BY <2>2, <2>4, <3>1, <3>2, <3>4 DEF KnowInv, NoTextTwice, Know!NoTextTwice
    <3> QED
        BY <3>3, <3>4
  <2> QED
      BY <2>1, <2>3, <2>4 DEF KnowInv, NoTextTwice, Know!NoTextTwice
<1> QED
    BY <1>1, <1>2

LEMMA KnowInitial == Know!InitKnow => KnowInv
    BY DEF Know!InitKnow, KnowInv, NoTextTwice, Know!NoTextTwice

LEMMA KnowNext == KnowInv /\ [Know!NextKnow]_Know!kvars => KnowInv'
<1> SUFFICES ASSUME KnowInv, [Know!NextKnow]_Know!kvars PROVE KnowInv'
    OBVIOUS
<1>same. ASSUME UNCHANGED <<know, made>> PROVE KnowInv'
    BY <1>same DEF KnowInv, NoTextTwice, Know!NoTextTwice
<1>1. ASSUME NEW c \in Pair, Know!Begin(c) PROVE KnowInv'
    BY <1>1, <1>same DEF Know!Begin
<1>2. ASSUME NEW c \in Pair, Know!Capture(c) PROVE KnowInv'
    BY <1>2, <1>same, KnowRemember DEF Know!Capture
<1>3. ASSUME NEW kind, NEW say, NEW team, NEW pinned, Know!Add(kind, say, team, pinned) PROVE KnowInv'
    BY <1>3, KnowRemember DEF Know!Add
<1>4. ASSUME NEW row, NEW kind, NEW say, Know!EditRead(row, kind, say) PROVE KnowInv'
    BY <1>4, <1>same DEF Know!EditRead
<1>5. CASE Know!EditWrite
    BY <1>5, KnowEditWrite
<1>6. ASSUME NEW row \in know, Know!Remove(row) PROVE KnowInv'
    BY <1>6 DEF Know!Remove, KnowInv, NoTextTwice, Know!NoTextTwice
<1>7. ASSUME NEW row \in know, NEW team, Know!Share(row, team) PROVE KnowInv'
  <2>1. KnowRow(row)
      BY DEF KnowInv
  <2>2. [row EXCEPT !.team = team] = [id |-> row.id, kind |-> row.kind, text |-> row.text, key |-> row.key,
                                      team |-> team, pinned |-> row.pinned, seen |-> row.seen]
      BY <2>1 DEF KnowRow
  <2>3. KnowRow([row EXCEPT !.team = team])
      BY <2>1, <2>2 DEF KnowRow
  <2> QED
      BY <1>7, <2>2, <2>3, KnowChanges DEF Know!Share, Know!Changes
<1>8. ASSUME NEW row \in know, Know!Unshare(row) PROVE KnowInv'
    BY <1>7, <1>8 DEF Know!Unshare, Know!Share
<1>9. ASSUME NEW row \in know, NEW pinned, Know!Pin(row, pinned) PROVE KnowInv'
  <2>1. KnowRow(row)
      BY DEF KnowInv
  <2>2. [row EXCEPT !.pinned = pinned] = [id |-> row.id, kind |-> row.kind, text |-> row.text, key |-> row.key,
                                          team |-> row.team, pinned |-> pinned, seen |-> row.seen]
      BY <2>1 DEF KnowRow
  <2>3. KnowRow([row EXCEPT !.pinned = pinned])
      BY <2>1, <2>2 DEF KnowRow
  <2> QED
      BY <1>9, <2>2, <2>3, KnowChanges DEF Know!Pin, Know!Changes
<1>10. CASE Know!Midnight
    BY <1>10, <1>same DEF Know!Midnight
<1>11. CASE UNCHANGED Know!kvars
    BY <1>11, <1>same DEF Know!kvars
<1> QED
    BY <1>1, <1>2, <1>3, <1>4, <1>5, <1>6, <1>7, <1>8, <1>9, <1>10, <1>11 DEF Know!NextKnow

(* No two rows of a person's knowledge say the same, of any number of        *)
(* captures, additions, edits and deletions in any order (knowledge.js       *)
(* remember and edit): a row's key always is that of its text, so the unique *)
(* index on the key sees every repeated text.                                *)
THEOREM KnowledgeHasNoTextTwice == Know!Spec => []NoTextTwice
<1>1. KnowInv => NoTextTwice
    BY DEF KnowInv
<1> QED
    BY <1>1, KnowInitial, KnowNext, PTL DEF Know!Spec

-----------------------------------------------------------------------------
(* One record of the skills hub (Skills).                                    *)

SkillAudience == Audiences \cup {"none", "private"}
SkillBody == Bodies \cup {"none"}
SkillVersion == [body : SkillBody, audience : SkillAudience]
SkillTab ==
    [pc : {"idle", "begin", "register", "load", "write", "saved", "refused", "failed"},
     op : {"none", "create", "edit", "rollback", "audience"},
     body : SkillBody, audience : SkillAudience, base : Nat]

(* What a request relies on: it loads and writes only what was created, the  *)
(* version it read is still there, and so is the one it saved.               *)
SkillTabOK(q, there, v) ==
    /\ q.pc = "register" => q.op = "create"
    /\ q.pc \in {"register", "write", "saved"} => there # "no"
    /\ q.pc = "write" /\ there = "yes" => q.base \in 1..Len(v)
    /\ q.pc = "saved" /\ q.op # "create" /\ there = "yes" =>
          q.base + 1 \in 1..Len(v) /\ v[q.base + 1] = [body |-> q.body, audience |-> q.audience]

SkillInv ==
    /\ skill \in [there : {"no", "yes", "deleted"}, latest : Nat]
    /\ versions \in Seq(SkillVersion)
    /\ share \in [audience : SkillAudience, member : {"yes", "no"}]
    /\ tab \in [Tabs -> SkillTab]
    /\ skill.there = "yes" => skill.latest = Len(versions) /\ skill.latest > 0
    /\ \A t \in Tabs : SkillTabOK(tab[t], skill.there, versions)

LEMMA SkillInitial == Skill!InitSkill => SkillInv
<1> SUFFICES ASSUME Skill!InitSkill PROVE SkillInv
    OBVIOUS
<1>1. Skill!Quiet \in SkillTab
    BY DEF Skill!Quiet, SkillTab, SkillBody, SkillAudience
<1>2. SkillTabOK(Skill!Quiet, "no", <<>>)
    BY DEF Skill!Quiet, SkillTabOK
<1>3. share \in [audience : SkillAudience, member : {"yes", "no"}]
    BY DEF Skill!InitSkill, Skill!NoShare, SkillAudience
<1> QED
    BY <1>1, <1>2, <1>3 DEF Skill!InitSkill, SkillInv

(* A request goes on; the record and its history stay.                       *)
LEMMA SkillStep ==
    ASSUME SkillInv, NEW t \in Tabs, NEW q \in SkillTab, SkillTabOK(q, skill.there, versions),
           tab' = [tab EXCEPT ![t] = q], UNCHANGED <<skill, versions>>,
           share' \in [audience : SkillAudience, member : {"yes", "no"}]
    PROVE  SkillInv'
<1>1. tab' \in [Tabs -> SkillTab]
    BY DEF SkillInv
<1>2. \A u \in Tabs : SkillTabOK(tab'[u], skill.there, versions)
    BY DEF SkillInv
<1> QED
    BY <1>1, <1>2 DEF SkillInv

(* A request that ends without a save.                                       *)
LEMMA SkillEnds ==
    ASSUME SkillInv, NEW t \in Tabs, NEW how \in {"load", "refused", "failed"}, Skill!Ends(t, how),
           UNCHANGED <<skill, versions>>,
           share' \in [audience : SkillAudience, member : {"yes", "no"}]
    PROVE  SkillInv'
<1> DEFINE q == [tab[t] EXCEPT !.pc = how]
<1>1. tab[t] \in SkillTab
    BY DEF SkillInv
<1>2. q \in SkillTab /\ q.pc = how
    BY <1>1 DEF SkillTab
<1>3. SkillTabOK(q, skill.there, versions)
    BY <1>2 DEF SkillTabOK
<1>4. tab' = [tab EXCEPT ![t] = q]
    BY DEF Skill!Ends
<1> HIDE DEF q
<1> QED
    BY <1>2, <1>3, <1>4, SkillStep

LEMMA SkillAsks ==
    ASSUME SkillInv, NEW t \in Tabs, NEW r \in Skill!FormRequests \cup Skill!ApiRequests, Skill!Asks(t, r)
    PROVE  SkillInv'
<1> DEFINE q == [pc |-> "begin", op |-> r.op, body |-> r.body, audience |-> r.audience, base |-> 0]
<1>1. /\ r.op \in {"none", "create", "edit", "rollback", "audience"}
      /\ r.body \in SkillBody /\ r.audience \in SkillAudience
    BY DEF Skill!FormRequests, Skill!ApiRequests, SkillBody, SkillAudience
<1>2. q \in SkillTab /\ q.pc = "begin"
    BY <1>1 DEF SkillTab
<1>3. SkillTabOK(q, skill.there, versions)
    BY <1>2 DEF SkillTabOK
<1>4. tab' = [tab EXCEPT ![t] = q] /\ UNCHANGED <<skill, versions, share>>
    BY DEF Skill!Asks
<1> HIDE DEF q
<1> QED
    BY <1>2, <1>3, <1>4, SkillStep DEF SkillInv

(* The record is made: nobody was at work on it.                             *)
LEMMA SkillCreate ==
    ASSUME SkillInv, NEW t \in Tabs, Skill!Create(t) PROVE SkillInv'
<1>1. CASE Skill!Ends(t, "refused") /\ UNCHANGED <<skill, versions>>
    BY <1>1, SkillEnds DEF Skill!Create, SkillInv
<1>2. CASE /\ skill.there = "no"
           /\ skill' = [there |-> "yes", latest |-> 1]
           /\ versions' = <<Skill!Version(t)>>
           /\ tab' = [tab EXCEPT ![t].pc = "register", ![t].base = 1]
  <2> DEFINE b == [tab[t] EXCEPT !.pc = "register"]
             q == [b EXCEPT !.base = 1]
  <2>1. tab[t] \in SkillTab /\ tab[t].op = "create"
      BY DEF SkillInv, Skill!Create, Skill!Is
  <2>2. b \in SkillTab /\ b.pc = "register" /\ b.op = "create"
      BY <2>1 DEF SkillTab
  <2> HIDE DEF b
  <2>3. q \in SkillTab /\ q.pc = "register" /\ q.op = "create"
      BY <2>2 DEF SkillTab
  <2>4. tab' = [tab EXCEPT ![t] = q]
      BY <1>2 DEF b, q
  <2> HIDE DEF q
  <2>5. Skill!Version(t) \in SkillVersion
      BY <2>1 DEF Skill!Version, SkillTab, SkillVersion
  <2>6. versions' \in Seq(SkillVersion) /\ Len(versions') = 1
      BY <1>2, <2>5
  <2>7. skill' \in [there : {"no", "yes", "deleted"}, latest : Nat] /\ skill'.there = "yes" /\ skill'.latest = 1
      BY <1>2
  <2>8. ASSUME NEW u \in Tabs PROVE SkillTabOK(tab'[u], skill'.there, versions')
    <3>1. CASE u = t
        BY <2>3, <2>4, <2>7, <3>1 DEF SkillInv, SkillTabOK
    <3>2. CASE u # t
      <4>1. tab'[u] = tab[u] /\ SkillTabOK(tab[u], "no", versions)
          BY <1>2, <2>4, <3>2 DEF SkillInv
      <4> QED
          BY <4>1 DEF SkillTabOK
    <3> QED
        BY <3>1, <3>2
  <2>9. tab' \in [Tabs -> SkillTab]
      BY <2>3, <2>4 DEF SkillInv
  <2> QED
      BY <2>6, <2>7, <2>8, <2>9 DEF SkillInv, Skill!Create
<1> QED
    BY <1>1, <1>2 DEF Skill!Create

LEMMA SkillRegister ==
    ASSUME SkillInv, NEW t \in Tabs, Skill!Register(t) PROVE SkillInv'
<1> DEFINE q == [tab[t] EXCEPT !.pc = "saved"]
<1>1. tab[t] \in SkillTab /\ tab[t].op = "create" /\ skill.there # "no"
    BY DEF SkillInv, SkillTabOK, Skill!Register, Skill!At
<1>2. q \in SkillTab /\ q.pc = "saved" /\ q.op = "create"
    BY <1>1 DEF SkillTab
<1>3. SkillTabOK(q, skill.there, versions)
    BY <1>1, <1>2 DEF SkillTabOK
<1>4. tab' = [tab EXCEPT ![t] = q] /\ UNCHANGED <<skill, versions>>
    BY DEF Skill!Register, Skill!Ends
<1>5. share' \in [audience : SkillAudience, member : {"yes", "no"}]
    BY <1>1 DEF Skill!Register, SkillTab
<1> HIDE DEF q
<1> QED
    BY <1>2, <1>3, <1>4, <1>5, SkillStep

LEMMA SkillNotRegistered ==
    ASSUME SkillInv, NEW t \in Tabs, Skill!NotRegistered(t) PROVE SkillInv'
<1>1. CASE UNCHANGED <<skill, versions, assigned>>
    BY <1>1, SkillEnds DEF Skill!NotRegistered, SkillInv
<1>2. CASE skill' = [there |-> "deleted", latest |-> 0] /\ versions' = <<>>
  <2> DEFINE q == [tab[t] EXCEPT !.pc = "failed"]
  <2>1. tab[t] \in SkillTab
      BY DEF SkillInv
  <2>2. q \in SkillTab /\ q.pc = "failed"
      BY <2>1 DEF SkillTab
  <2>3. tab' = [tab EXCEPT ![t] = q]
      BY DEF Skill!NotRegistered, Skill!Ends
  <2> HIDE DEF q
  <2>4. ASSUME NEW u \in Tabs PROVE SkillTabOK(tab'[u], "deleted", versions')
    <3>1. CASE u = t
        BY <2>2, <2>3, <3>1 DEF SkillInv, SkillTabOK
    <3>2. CASE u # t
        BY <2>3, <3>2 DEF SkillInv, SkillTabOK
    <3> QED
        BY <3>1, <3>2
  <2>5. tab' \in [Tabs -> SkillTab]
      BY <2>2, <2>3 DEF SkillInv
  <2>6. skill' \in [there : {"no", "yes", "deleted"}, latest : Nat] /\ skill'.there = "deleted"
      BY <1>2
  <2>7. versions' \in Seq(SkillVersion)
      BY <1>2
  <2> QED
      BY <2>4, <2>5, <2>6, <2>7 DEF SkillInv, Skill!NotRegistered
<1> QED
    BY <1>1, <1>2 DEF Skill!NotRegistered

(* The two reads of the newest version before a save.                        *)
LEMMA SkillReads ==
    ASSUME SkillInv, NEW t \in Tabs, skill.there = "yes", NEW q \in SkillTab, q.pc = "write",
           q.base = skill.latest, tab' = [tab EXCEPT ![t] = q], UNCHANGED <<skill, versions, share>>
    PROVE  SkillInv'
<1>1. q.base \in 1..Len(versions)
    BY DEF SkillInv
<1>2. SkillTabOK(q, skill.there, versions)
    BY <1>1 DEF SkillTabOK
<1> QED
    BY <1>2, SkillStep DEF SkillInv

LEMMA SkillLoad ==
    ASSUME SkillInv, NEW t \in Tabs, Skill!Load(t) PROVE SkillInv'
<1> DEFINE b == [tab[t] EXCEPT !.pc = "write"]
           c == [b EXCEPT !.base = skill.latest]
           q == [c EXCEPT !.audience = Skill!AudienceNow]
<1>1. tab[t] \in SkillTab /\ skill.latest \in Nat /\ skill.there = "yes"
    BY DEF SkillInv, Skill!Load
<1>2. Skill!AudienceNow \in SkillAudience
    BY DEF Skill!AudienceNow, SkillInv, SkillAudience
<1>3. b \in SkillTab /\ b.pc = "write"
    BY <1>1 DEF SkillTab
<1> HIDE DEF b
<1>4. c \in SkillTab /\ c.pc = "write" /\ c.base = skill.latest
    BY <1>1, <1>3 DEF SkillTab
<1> HIDE DEF c
<1>5. q \in SkillTab /\ q.pc = "write" /\ q.base = skill.latest
    BY <1>2, <1>4 DEF SkillTab
<1>6. tab' = [tab EXCEPT ![t] = q]
    BY DEF Skill!Load, b, c, q
<1> HIDE DEF q
<1> QED
    BY <1>1, <1>5, <1>6, SkillReads DEF Skill!Load

LEMMA SkillReload ==
    ASSUME SkillInv, NEW t \in Tabs, Skill!Reload(t) PROVE SkillInv'
<1> DEFINE b == [tab[t] EXCEPT !.pc = "write"]
           c == [b EXCEPT !.base = skill.latest]
           q == [c EXCEPT !.body = versions[skill.latest].body]
<1>1. tab[t] \in SkillTab /\ skill.latest \in 1..Len(versions) /\ skill.latest \in Nat /\ skill.there = "yes"
    BY DEF SkillInv, Skill!Reload
<1>2. versions[skill.latest] \in SkillVersion
    BY <1>1 DEF SkillInv
<1>3. b \in SkillTab /\ b.pc = "write"
    BY <1>1 DEF SkillTab
<1> HIDE DEF b
<1>4. c \in SkillTab /\ c.pc = "write" /\ c.base = skill.latest
    BY <1>1, <1>3 DEF SkillTab
<1> HIDE DEF c
<1>5. q \in SkillTab /\ q.pc = "write" /\ q.base = skill.latest
    BY <1>2, <1>4 DEF SkillTab, SkillVersion
<1>6. tab' = [tab EXCEPT ![t] = q]
    BY DEF Skill!Reload, b, c, q
<1> HIDE DEF q
<1> QED
    BY <1>1, <1>5, <1>6, SkillReads DEF Skill!Reload

LEMMA SkillOldVersion ==
    ASSUME SkillInv, NEW t \in Tabs, NEW n \in DOMAIN versions, Skill!OldVersion(t, n) PROVE SkillInv'
<1> DEFINE b == [tab[t] EXCEPT !.pc = "load"]
           q == [b EXCEPT !.body = versions[n].body]
<1>1. tab[t] \in SkillTab /\ versions[n] \in SkillVersion
    BY DEF SkillInv
<1>2. b \in SkillTab /\ b.pc = "load"
    BY <1>1 DEF SkillTab
<1> HIDE DEF b
<1>3. q \in SkillTab /\ q.pc = "load"
    BY <1>1, <1>2 DEF SkillTab, SkillVersion
<1>4. SkillTabOK(q, skill.there, versions)
    BY <1>3 DEF SkillTabOK
<1>5. tab' = [tab EXCEPT ![t] = q] /\ UNCHANGED <<skill, versions, share>>
    BY DEF Skill!OldVersion, b, q
<1> HIDE DEF q
<1> QED
    BY <1>3, <1>4, <1>5, SkillStep DEF SkillInv

(* The save: a version above one that is there, and not there itself, is the *)
(* next of the history.                                                      *)
LEMMA SkillWrite ==
    ASSUME SkillInv, NEW t \in Tabs, Skill!Write(t) PROVE SkillInv'
<1> DEFINE n == Len(versions)
           q == [tab[t] EXCEPT !.pc = "saved"]
<1>1. tab[t] \in SkillTab /\ skill.there = "yes" /\ n \in Nat /\ DOMAIN versions = 1..n
    BY DEF SkillInv, Skill!Write, Skill!Clash
<1>2. tab[t].base \in 1..n /\ tab[t].base + 1 \notin 1..n
    BY <1>1 DEF SkillInv, SkillTabOK, Skill!Write, Skill!Clash, Skill!At
<1>3. tab[t].base = n
    BY <1>1, <1>2
<1>4. versions' = [i \in 1..(n + 1) |-> IF i = n + 1 THEN Skill!Version(t) ELSE versions[i]]
  <2>1. versions' = Skill!Written(t)
      BY DEF Skill!Write
  <2>2. (1..n) \cup {n + 1} = 1..(n + 1)
      BY <1>1
  <2> QED
      BY <1>1, <1>3, <2>1, <2>2 DEF Skill!Written
<1>5. Skill!Version(t) \in SkillVersion /\ Skill!Version(t) = [body |-> tab[t].body, audience |-> tab[t].audience]
    BY <1>1 DEF Skill!Version, SkillTab, SkillVersion
<1>6. \A i \in 1..n : versions[i] \in SkillVersion
    BY DEF SkillInv
<1>7. versions' \in Seq(SkillVersion) /\ Len(versions') = n + 1
    BY <1>1, <1>4, <1>5, <1>6
<1>8. /\ skill' \in [there : {"no", "yes", "deleted"}, latest : Nat]
      /\ skill'.there = "yes" /\ skill'.latest = n + 1
  <2>1. skill \in [there : {"no", "yes", "deleted"}, latest : Nat] /\ skill' = [skill EXCEPT !.latest = n + 1]
      BY <1>3 DEF SkillInv, Skill!Write
  <2> QED
      BY <1>1, <2>1
<1>9. q \in SkillTab /\ q.pc = "saved" /\ q.base = n /\ q.body = tab[t].body /\ q.audience = tab[t].audience
    BY <1>1, <1>3 DEF SkillTab
<1>10. tab' = [tab EXCEPT ![t] = q]
    BY DEF Skill!Write, Skill!Ends
<1> HIDE DEF q
<1>11. tab' \in [Tabs -> SkillTab]
    BY <1>9, <1>10 DEF SkillInv
<1>12. ASSUME NEW u \in Tabs PROVE SkillTabOK(tab'[u], "yes", versions')
  <2>1. CASE u = t
    <3>1. tab'[u] = q
        BY <1>10, <2>1 DEF SkillInv
    <3>2. q.base + 1 \in 1..Len(versions') /\ versions'[q.base + 1] = [body |-> q.body, audience |-> q.audience]
        BY <1>1, <1>4, <1>5, <1>7, <1>9
    <3> QED
        BY <1>9, <3>1, <3>2 DEF SkillTabOK
  <2>2. CASE u # t
    <3>1. tab'[u] = tab[u] /\ tab[u] \in SkillTab /\ SkillTabOK(tab[u], "yes", versions)
        BY <1>1, <1>10, <2>2 DEF SkillInv
    <3>2. tab[u].base \in Nat
        BY <3>1 DEF SkillTab
    <3>3. \A i \in 1..n : i \in 1..Len(versions') /\ versions'[i] = versions[i]
        BY <1>1, <1>4, <1>7
    <3> QED
        BY <3>1, <3>2, <3>3 DEF SkillTabOK
  <2> QED
      BY <2>1, <2>2
<1> QED
    BY <1>1, <1>7, <1>8, <1>11, <1>12 DEF SkillInv, Skill!Write

LEMMA SkillNext == SkillInv /\ [Skill!NextSkill]_Skill!svars => SkillInv'
<1> SUFFICES ASSUME SkillInv, [Skill!NextSkill]_Skill!svars PROVE SkillInv'
    OBVIOUS
<1>sh. share \in [audience : SkillAudience, member : {"yes", "no"}]
    BY DEF SkillInv
<1>1. ASSUME NEW t \in Tabs, Skill!NotThere(t) \/ Skill!NotShared(t) \/ Skill!WriteFails(t) PROVE SkillInv'
    BY <1>1, <1>sh, SkillEnds DEF Skill!NotThere, Skill!NotShared, Skill!WriteFails
<1>2. ASSUME NEW t \in Tabs, Skill!SetAudience(t) PROVE SkillInv'
  <2>1. tab[t].audience \in SkillAudience
      BY DEF SkillInv, SkillTab
  <2>2. [share EXCEPT !.audience = tab[t].audience] \in [audience : SkillAudience, member : {"yes", "no"}]
      BY <1>sh, <2>1
  <2> QED
      BY <1>2, <2>2, SkillEnds DEF Skill!SetAudience
<1>3. ASSUME NEW yes \in {"yes", "no"}, Skill!Member(yes) PROVE SkillInv'
  <2>1. [share EXCEPT !.member = yes] \in [audience : SkillAudience, member : {"yes", "no"}]
      BY <1>sh
  <2> QED
      BY <1>3, <2>1 DEF Skill!Member, SkillInv
<1>4. ASSUME NEW p \in Projects, Skill!Assign(p) \/ Skill!Unassign(p) PROVE SkillInv'
    BY <1>4 DEF Skill!Assign, Skill!Unassign, SkillInv
<1>5. CASE UNCHANGED Skill!svars
    BY <1>5 DEF Skill!svars, SkillInv
<1> QED
    BY <1>1, <1>2, <1>3, <1>4, <1>5, SkillAsks, SkillCreate, SkillRegister, SkillNotRegistered, SkillLoad,
       SkillReload, SkillOldVersion, SkillWrite
    DEF Skill!NextSkill

(* A save of a skill that was answered as saved stays in the history under   *)
(* its number with its body, and the newest version is the last of them, for *)
(* any number of tabs (skills.js addVersion): the primary key (skill_id,     *)
(* version) turns the second of two saves from one version away.             *)
THEOREM SkillSavesAreKept == Skill!Spec => []SavesAreKept
<1>1. SkillInv => SavesAreKept
  <2> SUFFICES ASSUME SkillInv PROVE SavesAreKept
      OBVIOUS
  <2>1. DOMAIN versions = 1..Len(versions)
      BY DEF SkillInv
  <2>2. skill.there = "yes" => skill.latest = Len(versions)
      BY DEF SkillInv
  <2>3. ASSUME NEW t \in Tabs, tab[t].pc = "saved", tab[t].op # "create", skill.there = "yes"
        PROVE  tab[t].base + 1 \in DOMAIN versions /\ versions[tab[t].base + 1] = Skill!Version(t)
      BY <2>1, <2>3 DEF SkillInv, SkillTabOK, Skill!Version
  <2> QED
      BY <2>2, <2>3 DEF SavesAreKept, Skill!SavesAreKept
<1> QED
    BY <1>1, SkillInitial, SkillNext, PTL DEF Skill!Spec

-----------------------------------------------------------------------------
(* A person's choices (Settings).                                            *)

SetShape(r) == r = [f \in Set!Fields |-> r[f]]

(* What is read back of what a save sent.                                    *)
SetKept(row, p, f) ==
    \/ row[f] = p[f]
    \/ f = "model" /\ row["lead"] = "claude" /\ row["model"] = "opus"

(* A save that took a field of s back, as the property allows it.            *)
SetOver(s, f) ==
    \E t \in Pair :
        /\ save[t].pc = "done" /\ save[t].wrote > save[s].wrote
        /\ f \in Set!Sets(save[t].patch) \/ save[t].read < save[s].wrote

SetSent(s, f) == save[s].pc = "done" /\ save[s].patch[f] # Set!Unsent

(* A row as it is read: an agent, and for Claude Code a model.               *)
SetPresented(row) ==
    /\ SetShape(row) /\ row["lead"] # "NULL" /\ row["model"] # "NULL"
    /\ row["lead"] = "claude" => row["model"] # "own"

SetPatched(p) == SetShape(p) /\ p["lead"] # "NULL" /\ p["model"] # "NULL"

SetSave(v, w) ==
    /\ v = [pc |-> v.pc, patch |-> v.patch, now |-> v.now, read |-> v.read, wrote |-> v.wrote]
    /\ v.read \in 0..w /\ v.wrote \in 0..w
    /\ SetPatched(v.patch) /\ SetPresented(v.now)

(* What the row shows of every save, and what each reader's copy shows of    *)
(* the saves written before it read.                                         *)
SetInv ==
    /\ writes \in Nat
    /\ SetShape(chosen) /\ chosen["model"] # "own"
    /\ save = [s \in Pair |-> save[s]]
    /\ \A s \in Pair : SetSave(save[s], writes)
    /\ \A s \in Pair, f \in Set!Fields : SetSent(s, f) => SetKept(Set!Present(chosen), save[s].patch, f) \/ SetOver(s, f)
    /\ \A r, s \in Pair, f \in Set!Fields :
          save[r].pc = "read" /\ SetSent(s, f) /\ save[s].wrote <= save[r].read
             => SetKept(save[r].now, save[s].patch, f) \/ SetOver(s, f)

LEMMA SetPresentIs ==
    ASSUME NEW r, SetShape(r)
    PROVE  /\ SetShape(Set!Present(r))
           /\ Set!Present(r)["lead"] = (IF r["lead"] = "NULL" THEN "claude" ELSE r["lead"])
           /\ Set!Present(r)["model"] = (IF r["model"] # "NULL" THEN r["model"]
                                         ELSE IF Set!Present(r)["lead"] = "claude" THEN "opus" ELSE "own")
           /\ \A f \in Set!Fields \ {"lead", "model"} : Set!Present(r)[f] = r[f]
<1> DEFINE lead == IF r["lead"] = "NULL" THEN "claude" ELSE r["lead"]
           model == IF r["model"] # "NULL" THEN r["model"] ELSE IF lead = "claude" THEN "opus" ELSE "own"
           b == [r EXCEPT !["lead"] = lead]
           c == [b EXCEPT !["model"] = model]
<1>1. Set!Present(r) = c
    BY DEF Set!Present
<1>2. "lead" \in Set!Fields /\ "model" \in Set!Fields
    BY DEF Set!Fields
<1> HIDE DEF lead, model
<1>3. b = [f \in Set!Fields |-> IF f = "lead" THEN lead ELSE r[f]]
    BY <1>2 DEF SetShape
<1> HIDE DEF b
<1>4. c = [f \in Set!Fields |-> IF f = "model" THEN model ELSE IF f = "lead" THEN lead ELSE r[f]]
    BY <1>2, <1>3
<1> HIDE DEF c
<1>5. SetShape(c) /\ c["lead"] = lead /\ c["model"] = model
    BY <1>2, <1>4 DEF SetShape
<1>6. \A f \in Set!Fields \ {"lead", "model"} : c[f] = r[f]
    BY <1>4
<1> QED
    BY <1>1, <1>5, <1>6 DEF lead, model

LEMMA SetStoredIs ==
    ASSUME NEW n, SetShape(n)
    PROVE  /\ SetShape(Set!Stored(n))
           /\ Set!Stored(n)["model"] = (IF n["model"] = "own" THEN "NULL" ELSE n["model"])
           /\ \A f \in Set!Fields \ {"model"} : Set!Stored(n)[f] = n[f]
<1> DEFINE m == IF n["model"] = "own" THEN "NULL" ELSE n["model"]
           c == [n EXCEPT !["model"] = m]
<1>1. Set!Stored(n) = c
    BY DEF Set!Stored
<1>2. "model" \in Set!Fields
    BY DEF Set!Fields
<1> HIDE DEF m
<1>3. c = [f \in Set!Fields |-> IF f = "model" THEN m ELSE n[f]]
    BY <1>2 DEF SetShape
<1> HIDE DEF c
<1>4. SetShape(c) /\ c["model"] = m
    BY <1>2, <1>3 DEF SetShape
<1>5. \A f \in Set!Fields \ {"model"} : c[f] = n[f]
    BY <1>3
<1> QED
    BY <1>1, <1>4, <1>5 DEF m

(* What is read back of a row that is stored: all of it, but for the own     *)
(* default of Claude Code, which is Opus.                                    *)
LEMMA SetReadBack ==
    ASSUME NEW n, SetShape(n), n["lead"] # "NULL", n["model"] # "NULL"
    PROVE  /\ \A f \in Set!Fields : SetKept(Set!Present(Set!Stored(n)), n, f)
           /\ n["lead"] = "claude" /\ n["model"] = "opus" =>
                Set!Present(Set!Stored(n))["lead"] = "claude" /\ Set!Present(Set!Stored(n))["model"] = "opus"
<1> DEFINE st == Set!Stored(n)
           row == Set!Present(st)
<1>1. "lead" \in Set!Fields /\ "model" \in Set!Fields
    BY DEF Set!Fields
<1>2. SetShape(st) /\ st["lead"] = n["lead"] /\ st["model"] = (IF n["model"] = "own" THEN "NULL" ELSE n["model"])
    BY <1>1, SetStoredIs
<1>3. \A f \in Set!Fields \ {"lead", "model"} : st[f] = n[f]
    BY SetStoredIs
<1> HIDE DEF st
<1>4. row["lead"] = n["lead"]
    BY <1>2, SetPresentIs
<1>5. row["model"] = IF n["model"] = "own" THEN (IF n["lead"] = "claude" THEN "opus" ELSE "own") ELSE n["model"]
    BY <1>2, <1>4, SetPresentIs
<1>6. \A f \in Set!Fields \ {"lead", "model"} : row[f] = n[f]
    BY <1>2, <1>3, SetPresentIs
<1> HIDE DEF row
<1>7. \A f \in Set!Fields : SetKept(row, n, f)
    BY <1>4, <1>5, <1>6 DEF SetKept
<1> QED
    BY <1>4, <1>5, <1>7 DEF row, st

LEMMA SetPresentedIs ==
    ASSUME NEW r, SetShape(r), r["model"] # "own" PROVE SetPresented(Set!Present(r))
    BY SetPresentIs DEF SetPresented

LEMMA SetPatchIs ==
    ASSUME NEW sent
    PROVE  /\ SetShape(Set!Patch(sent))
           /\ Set!Patch(sent)["lead"] = IF "lead" \in DOMAIN sent THEN sent["lead"] ELSE "unsent"
           /\ Set!Patch(sent)["model"] = IF "model" \in DOMAIN sent THEN sent["model"] ELSE "unsent"
    BY DEF Set!Patch, SetShape, Set!Fields, Set!Unsent

LEMMA SetForms ==
    ASSUME NEW p \in Set!SettingsForm \cup Set!SetupForm \cup Set!Composer \cup Set!ConductorForm \cup Set!Put
    PROVE  SetPatched(p)
<1>1. ASSUME NEW sent, "lead" \notin DOMAIN sent, "model" \notin DOMAIN sent PROVE SetPatched(Set!Patch(sent))
    BY <1>1, SetPatchIs DEF SetPatched
<1>2. CASE p \in Set!SetupForm \cup Set!Composer \cup Set!ConductorForm
  <2>1. p = Set!Patch([agent |-> "x", machine |-> "m", safety |-> "ask", fallbacks |-> "two"]) => SetPatched(p)
      BY <1>1
  <2>2. p = Set!Patch([agent |-> "x", machine |-> "m"]) => SetPatched(p)
      BY <1>1
  <2>3. p = Set!Patch([agent |-> "x"]) => SetPatched(p)
      BY <1>1
  <2>4. p = Set!Patch([machine |-> "m"]) => SetPatched(p)
      BY <1>1
  <2>5. p = Set!Patch([safety |-> "full"]) => SetPatched(p)
      BY <1>1
  <2>6. p = Set!Patch([safety |-> "full", machine |-> "m"]) => SetPatched(p)
      BY <1>1
  <2> QED
      BY <1>2, <2>1, <2>2, <2>3, <2>4, <2>5, <2>6, Zenon DEF Set!SetupForm, Set!Composer, Set!ConductorForm
<1>3. CASE p \in Set!Put
  <2>1. ASSUME NEW a \in SetAgents, p = Set!Patch([lead |-> a]) PROVE SetPatched(p)
      BY <2>1, SetPatchIs, SettingsAssumption DEF SetPatched
  <2>2. ASSUME NEW m \in Set!Models, p = Set!Patch([model |-> m]) PROVE SetPatched(p)
      BY <2>2, SetPatchIs DEF SetPatched, Set!Models
  <2> QED
      BY <1>3, <2>1, <2>2, Zenon DEF Set!Put
<1>4. CASE p \in Set!SettingsForm
  <2>1. PICK a \in SetAgents, m \in Set!Models :
            p = Set!Patch([lead |-> a, model |-> m, agent |-> "auto", machine |-> "auto", safety |-> "project",
                           fallbacks |-> "one", ticks |-> "off"])
      BY <1>4 DEF Set!SettingsForm
  <2> QED
      BY <2>1, SetPatchIs, SettingsAssumption DEF SetPatched, Set!Models
<1> QED
    BY <1>2, <1>3, <1>4

LEMMA SetInitial == Set!InitSettings => SetInv
<1> SUFFICES ASSUME Set!InitSettings PROVE SetInv
    OBVIOUS
<1> DEFINE unsent == [f \in Set!Fields |-> Set!Unsent]
           none == [pc |-> "idle", patch |-> unsent, now |-> Set!Present(Set!Defaults), read |-> 0, wrote |-> 0]
<1>1. SetShape(Set!Defaults) /\ Set!Defaults["model"] # "own"
    BY DEF SetShape, Set!Defaults, Set!Fields
<1>2. SetPresented(Set!Present(Set!Defaults))
    BY <1>1, SetPresentedIs
<1>3. SetPatched(unsent)
    BY DEF SetPatched, SetShape, Set!Unsent, Set!Fields
<1>4. save = [s \in Pair |-> none] /\ writes = 0 /\ chosen = Set!Defaults
    BY DEF Set!InitSettings
<1> HIDE DEF unsent
<1>5. SetSave(none, writes) /\ none.pc = "idle"
    BY <1>2, <1>3, <1>4 DEF SetSave
<1> HIDE DEF none
<1> QED
    BY <1>1, <1>4, <1>5 DEF SetInv, SetSent

(* A save that was done stays as it is, and so does what took it back.       *)
LEMMA SetOverStays ==
    ASSUME NEW w \in Pair, NEW v, save = [s \in Pair |-> save[s]], save[w].pc # "done",
           save' = [save EXCEPT ![w] = v],
           NEW s \in Pair, save[s].pc = "done", NEW f, SetOver(s, f)
    PROVE  SetOver(s, f)'
<1>1. PICK t \in Pair :
        /\ save[t].pc = "done" /\ save[t].wrote > save[s].wrote
        /\ f \in Set!Sets(save[t].patch) \/ save[t].read < save[s].wrote
    BY DEF SetOver
<1>2. save'[t] = save[t] /\ save'[s] = save[s]
    BY <1>1
<1> QED
    BY <1>1, <1>2 DEF SetOver

(* A step of a save that stores nothing.                                     *)
LEMMA SetStep ==
    ASSUME SetInv, NEW w \in Pair, save[w].pc # "done", NEW v, SetSave(v, writes), v.pc # "done",
           save' = [save EXCEPT ![w] = v], UNCHANGED <<chosen, writes>>,
           v.pc = "read" => v.now = Set!Present(chosen)
    PROVE  SetInv'
<1>0. save = [s \in Pair |-> save[s]]
    BY DEF SetInv
<1>1. \A s \in Pair : save'[s] = IF s = w THEN v ELSE save[s]
    BY <1>0
<1>2. save' = [s \in Pair |-> save'[s]]
    BY <1>0
<1>3. \A s \in Pair : SetSave(save'[s], writes')
    BY <1>1 DEF SetInv, SetSave
<1>4. ASSUME NEW s \in Pair, NEW f \in Set!Fields, SetSent(s, f)'
      PROVE  SetSent(s, f) /\ save'[s] = save[s] /\ s # w
    BY <1>1, <1>4 DEF SetSent
<1>5. ASSUME NEW s \in Pair, NEW f \in Set!Fields, SetSent(s, f)'
      PROVE  SetKept(Set!Present(chosen), save[s].patch, f) \/ SetOver(s, f)'
    BY <1>0, <1>4, <1>5, SetOverStays DEF SetInv, SetSent
<1>6. ASSUME NEW r \in Pair, NEW s \in Pair, NEW f \in Set!Fields,
             save'[r].pc = "read", SetSent(s, f)', save'[s].wrote <= save'[r].read
      PROVE  SetKept(save'[r].now, save'[s].patch, f) \/ SetOver(s, f)'
  <2>1. SetSent(s, f) /\ save'[s] = save[s]
      BY <1>4, <1>6
  <2>2. CASE r = w
      BY <1>1, <1>5, <1>6, <2>1, <2>2
  <2>3. CASE r # w
    <3>1. save'[r] = save[r]
        BY <1>1, <2>3
    <3>2. SetKept(save[r].now, save[s].patch, f) \/ SetOver(s, f)
        BY <1>6, <2>1, <3>1 DEF SetInv
    <3> QED
        BY <1>0, <2>1, <3>1, <3>2, SetOverStays DEF SetSent
  <2> QED
      BY <2>2, <2>3
<1> QED
    BY <1>2, <1>3, <1>4, <1>5, <1>6 DEF SetInv

LEMMA SetNextRow ==
    ASSUME NEW now, SetPresented(now), NEW p, SetPatched(p)
    PROVE  LET n == Set!NextRow(now, p) IN
              /\ SetShape(n) /\ n["lead"] # "NULL" /\ n["model"] # "NULL"
              /\ \A f \in Set!Fields : p[f] # Set!Unsent => n[f] = p[f]
              /\ \A f \in Set!Fields \ Set!Sets(p) : n[f] = now[f]
              /\ "model" \notin Set!Sets(p) => n["lead"] = now["lead"] /\ n["model"] = now["model"]
<1> DEFINE n == Set!NextRow(now, p)
<1>1. n = [f \in Set!Fields |->
             IF p[f] # Set!Unsent THEN p[f]
             ELSE IF f = "model" /\ p["lead"] # Set!Unsent THEN (IF p["lead"] = "claude" THEN "opus" ELSE "own")
             ELSE now[f]]
    BY DEF Set!NextRow
<1> HIDE DEF n
<1>2. "lead" \in Set!Fields /\ "model" \in Set!Fields
    BY DEF Set!Fields
<1>3. SetShape(n) /\ n["lead"] # "NULL" /\ n["model"] # "NULL"
    BY <1>1, <1>2 DEF SetShape, SetPatched, SetPresented
<1>4. \A f \in Set!Fields : p[f] # Set!Unsent => n[f] = p[f]
    BY <1>1
<1>5. \A f \in Set!Fields \ Set!Sets(p) : n[f] = now[f]
    BY <1>1 DEF Set!Sets
<1>6. "model" \notin Set!Sets(p) => n["lead"] = now["lead"] /\ n["model"] = now["model"]
    BY <1>1, <1>2 DEF Set!Sets
<1> QED
    BY <1>3, <1>4, <1>5, <1>6 DEF n

LEMMA SetWrite == ASSUME SetInv, NEW w \in Pair, Set!Write(w) PROVE SetInv'
<1> DEFINE now == save[w].now
           p == save[w].patch
           n == Set!NextRow(now, p)
           b == [save[w] EXCEPT !.pc = "done"]
           v == [b EXCEPT !.wrote = writes + 1]
           row == Set!Present(chosen')
<1>0. save = [s \in Pair |-> save[s]] /\ writes \in Nat /\ save[w].pc = "read" /\ writes' = writes + 1
    BY DEF SetInv, Set!Write
<1>1. SetSave(save[w], writes) /\ SetPresented(now) /\ SetPatched(p)
    BY DEF SetInv, SetSave
<1>2. chosen' = Set!Stored(n)
    BY DEF Set!Write
<1>3. b = [pc |-> "done", patch |-> p, now |-> now, read |-> save[w].read, wrote |-> save[w].wrote]
    BY <1>1 DEF SetSave
<1>4. save' = [save EXCEPT ![w] = v]
    BY DEF Set!Write
<1> HIDE DEF b
<1>5. v = [pc |-> "done", patch |-> p, now |-> now, read |-> save[w].read, wrote |-> writes + 1]
    BY <1>3
<1> HIDE DEF v
<1>6. \A s \in Pair : save'[s] = IF s = w THEN v ELSE save[s]
    BY <1>0, <1>4
<1>7. SetShape(n) /\ n["lead"] # "NULL" /\ n["model"] # "NULL"
    BY <1>1, SetNextRow
<1>8. SetShape(chosen') /\ chosen'["model"] # "own"
    BY <1>2, <1>7, SetStoredIs
<1>9. /\ \A f \in Set!Fields : SetKept(row, n, f)
      /\ n["lead"] = "claude" /\ n["model"] = "opus" => row["lead"] = "claude" /\ row["model"] = "opus"
    BY <1>2, <1>7, SetReadBack
<1>10. \A f \in Set!Fields : p[f] # Set!Unsent => n[f] = p[f]
    BY <1>1, SetNextRow
<1>11. /\ \A f \in Set!Fields \ Set!Sets(p) : n[f] = now[f]
       /\ "model" \notin Set!Sets(p) => n["lead"] = now["lead"] /\ n["model"] = now["model"]
    BY <1>1, SetNextRow
<1> HIDE DEF n, row, now, p
<1>12. ASSUME NEW s \in Pair PROVE SetSave(save'[s], writes')
  <2>1. SetSave(save[s], writes)
      BY DEF SetInv
  <2>2. 0..writes \subseteq 0..(writes + 1)
      BY <1>0
  <2>3. CASE s = w
      BY <1>0, <1>1, <1>5, <1>6, <2>2, <2>3 DEF SetSave, now, p
  <2>4. CASE s # w
      BY <1>0, <1>6, <2>1, <2>2, <2>4 DEF SetSave
  <2> QED
      BY <2>3, <2>4
<1>13. ASSUME NEW s \in Pair, NEW f \in Set!Fields, SetSent(s, f)'
       PROVE  SetKept(row, save'[s].patch, f) \/ SetOver(s, f)'
  <2>1. CASE s = w
    <3>1. save'[s].patch = p /\ p[f] # Set!Unsent
        BY <1>5, <1>6, <1>13, <2>1 DEF SetSent
    <3> QED
        BY <1>9, <1>10, <3>1 DEF SetKept
  <2>2. CASE s # w
    <3>1. save'[s] = save[s] /\ SetSent(s, f) /\ save[s].wrote \in 0..writes /\ save[w].read \in 0..writes
        BY <1>1, <1>6, <1>13, <2>2 DEF SetSent, SetInv, SetSave
    <3>2. save'[w].pc = "done" /\ save'[w].wrote > save'[s].wrote /\ save'[w].read = save[w].read /\ save'[w].patch = p
        BY <1>0, <1>5, <1>6, <3>1
    <3>3. CASE f \in Set!Sets(p) \/ save[w].read < save[s].wrote
        BY <3>1, <3>2, <3>3 DEF SetOver
    <3>4. CASE f \notin Set!Sets(p) /\ ~(save[w].read < save[s].wrote)
      <4>1. save[s].wrote <= save[w].read
          BY <1>0, <3>1, <3>4
      <4>2. SetKept(now, save[s].patch, f) \/ SetOver(s, f)
          BY <1>0, <3>1, <4>1 DEF SetInv, now
      <4>3. CASE SetOver(s, f)
          BY <1>0, <1>4, <3>1, <4>3, SetOverStays DEF SetSent
      <4>4. CASE now[f] = save[s].patch[f]
          BY <1>9, <1>11, <3>1, <3>4, <4>4 DEF SetKept
      <4>5. CASE f = "model" /\ now["lead"] = "claude" /\ now["model"] = "opus"
          BY <1>9, <1>11, <3>4, <4>5 DEF SetKept
      <4> QED
          BY <4>2, <4>3, <4>4, <4>5 DEF SetKept
    <3> QED
        BY <3>3, <3>4
  <2> QED
      BY <2>1, <2>2
<1>14. ASSUME NEW r \in Pair, NEW s \in Pair, NEW f \in Set!Fields,
              save'[r].pc = "read", SetSent(s, f)', save'[s].wrote <= save'[r].read
       PROVE  SetKept(save'[r].now, save'[s].patch, f) \/ SetOver(s, f)'
  <2>1. r # w /\ save'[r] = save[r]
      BY <1>5, <1>6, <1>14
  <2>2. save[r].read \in 0..writes
      BY DEF SetInv, SetSave
  <2>3. s # w
      BY <1>0, <1>5, <1>6, <1>14, <2>1, <2>2
  <2>4. save'[s] = save[s] /\ SetSent(s, f)
      BY <1>6, <1>14, <2>3 DEF SetSent
  <2>5. SetKept(save[r].now, save[s].patch, f) \/ SetOver(s, f)
      BY <1>14, <2>1, <2>4 DEF SetInv
  <2> QED
      BY <1>0, <1>4, <2>1, <2>4, <2>5, SetOverStays DEF SetSent
<1>15. save' = [s \in Pair |-> save'[s]]
    BY <1>0, <1>4
<1> QED
    BY <1>0, <1>8, <1>12, <1>13, <1>14, <1>15 DEF SetInv, row

LEMMA SetNext == SetInv /\ [Set!NextSettings]_Set!svars => SetInv'
<1> SUFFICES ASSUME SetInv, [Set!NextSettings]_Set!svars PROVE SetInv'
    OBVIOUS
<1>1. ASSUME NEW s \in Pair, Set!Read(s) PROVE SetInv'
  <2>1. PICK p \in Set!SettingsForm \cup Set!SetupForm \cup Set!Composer \cup Set!ConductorForm \cup Set!Put :
           save' = [save EXCEPT ![s] = [pc |-> "read", patch |-> p, now |-> Set!Present(chosen),
                                        read |-> writes, wrote |-> 0]]
      BY <1>1 DEF Set!Read
  <2> DEFINE v == [pc |-> "read", patch |-> p, now |-> Set!Present(chosen), read |-> writes, wrote |-> 0]
  <2>2. SetPatched(p) /\ SetPresented(Set!Present(chosen))
      BY SetForms, SetPresentedIs DEF SetInv
  <2>3. SetSave(v, writes)
      BY <2>2 DEF SetSave, SetInv
  <2>4. v.pc = "read" /\ v.now = Set!Present(chosen) /\ save[s].pc = "idle" /\ save' = [save EXCEPT ![s] = v]
      BY <1>1, <2>1 DEF Set!Read
  <2> HIDE DEF v
  <2> QED
      BY <1>1, <2>3, <2>4, SetStep DEF Set!Read
<1>2. ASSUME NEW s \in Pair, Set!Refuse(s) PROVE SetInv'
  <2> DEFINE v == [save[s] EXCEPT !.pc = "refused"]
  <2>1. SetSave(save[s], writes)
      BY DEF SetInv
  <2>2. v = [pc |-> "refused", patch |-> save[s].patch, now |-> save[s].now, read |-> save[s].read,
             wrote |-> save[s].wrote]
      BY <2>1 DEF SetSave
  <2>3. SetSave(v, writes) /\ v.pc = "refused"
      BY <2>1, <2>2 DEF SetSave
  <2>4. save' = [save EXCEPT ![s] = v] /\ save[s].pc = "read"
      BY <1>2 DEF Set!Refuse
  <2> HIDE DEF v
  <2> QED
      BY <1>2, <2>3, <2>4, SetStep DEF Set!Refuse
<1>3. CASE UNCHANGED Set!svars
    BY <1>3 DEF Set!svars, SetInv, SetSave, SetSent, SetOver
<1> QED
    BY <1>1, <1>2, <1>3, SetWrite DEF Set!NextSettings

(* What a save of the settings sent is what the person reads until a later   *)
(* save sends that field, or one that read the row before this one wrote it: *)
(* for any number of saves at once (user-settings.js save).  The invariant   *)
(* follows the copy every save under way has of the row.                     *)
THEOREM SettingsAreKept == Set!Spec => []KeptUnlessOverlapped
<1>1. SetInv => KeptUnlessOverlapped
  <2> SUFFICES ASSUME SetInv, NEW s \in Pair, NEW f \in Set!Fields,
                      save[s].pc = "done", save[s].patch[f] # Set!Unsent
               PROVE  \/ Set!Present(chosen)[f] = save[s].patch[f]
                      \/ /\ f = "model"
                         /\ Set!Present(chosen) = [Set!Present(chosen) EXCEPT !.lead = "claude", !.model = "opus"]
                      \/ SetOver(s, f)
      BY DEF KeptUnlessOverlapped, Set!KeptUnlessOverlapped, SetOver
  <2>1. SetKept(Set!Present(chosen), save[s].patch, f) \/ SetOver(s, f)
      BY DEF SetInv, SetSent
  <2> DEFINE row == Set!Present(chosen)
  <2>2. SetShape(row)
      BY SetPresentIs DEF SetInv
  <2> HIDE DEF row
  <2>3. row["lead"] = "claude" /\ row["model"] = "opus" => row = [row EXCEPT !.lead = "claude", !.model = "opus"]
    <3> DEFINE b == [row EXCEPT !.lead = row["lead"]]
    <3>1. b = row
        BY <2>2 DEF SetShape
    <3>2. [b EXCEPT !.model = b["model"]] = b
        BY <2>2, <3>1 DEF SetShape
    <3> QED
        BY <3>1, <3>2
  <2> QED
      BY <2>1, <2>3 DEF SetKept, row
<1> QED
    BY <1>1, SetInitial, SetNext, PTL DEF Set!Spec

-----------------------------------------------------------------------------
(* The forms of the Memory page (MemoryDesk).                                *)

MemPost ==
    [pc : {"none", "session", "check", "call", "refresh", "answer", "over"}, form : Mem!Forms \cup {"none"},
     token : Nat, refresh : Nat, fresh : {"no", "yes"}, again : {"no", "yes"},
     says : {"none", "done", "refused", "signin", "unchanged"}]

(* What a post and the count of the times it was carried out say of each     *)
(* other: nothing is carried out before it is answered, since the only call  *)
(* that is tried again is one the store refused with a 401.                  *)
MemAgrees(q, n) ==
    \/ q.pc \notin {"answer", "over"} /\ q.says = "none" /\ n = 0
    \/ q.pc \in {"answer", "over"} /\ q.says = "done" /\ n = 1
    \/ q.pc \in {"answer", "over"} /\ q.says \in {"refused", "signin"} /\ n = 0
    \/ q.pc \in {"answer", "over"} /\ q.says = "unchanged" /\ n \in {0, 1}

MemInv ==
    /\ jar \in [access : Nat, root : Nat, auth : Nat]
    /\ network \in [good : SUBSET Nat, refresh : Nat]
    /\ post \in [Pair -> MemPost]
    /\ applied \in [Pair -> Nat]
    /\ \A p \in Pair : MemAgrees(post[p], applied[p])

LEMMA MemInitial == Mem!InitMemory => MemInv
<1> SUFFICES ASSUME Mem!InitMemory PROVE MemInv
    OBVIOUS
<1>1. Mem!Unsent \in MemPost
    BY DEF Mem!Unsent, MemPost
<1>2. MemAgrees(Mem!Unsent, 0)
    BY DEF Mem!Unsent, MemAgrees
<1>3. jar \in [access : Nat, root : Nat, auth : Nat] /\ network \in [good : SUBSET Nat, refresh : Nat]
    BY DEF Mem!InitMemory
<1> QED
    BY <1>1, <1>2, <1>3 DEF Mem!InitMemory, MemInv

(* A step of one post keeps the invariant when the post and its count agree. *)
LEMMA MemStep ==
    ASSUME MemInv, NEW p \in Pair, NEW q \in MemPost, NEW n \in Nat, MemAgrees(q, n),
           post' = [post EXCEPT ![p] = q],
           applied' = [applied EXCEPT ![p] = n],
           jar' \in [access : Nat, root : Nat, auth : Nat],
           network' \in [good : SUBSET Nat, refresh : Nat]
    PROVE  MemInv'
<1>1. post' \in [Pair -> MemPost] /\ applied' \in [Pair -> Nat]
    BY DEF MemInv
<1>2. ASSUME NEW r \in Pair PROVE MemAgrees(post'[r], applied'[r])
    BY DEF MemInv
<1> QED
    BY <1>1, <1>2 DEF MemInv

(* The same of a step that carries nothing out.                              *)
LEMMA MemKept ==
    ASSUME MemInv, NEW p \in Pair, NEW q \in MemPost, MemAgrees(q, applied[p]),
           post' = [post EXCEPT ![p] = q], UNCHANGED applied,
           jar' \in [access : Nat, root : Nat, auth : Nat],
           network' \in [good : SUBSET Nat, refresh : Nat]
    PROVE  MemInv'
<1>1. applied' = [applied EXCEPT ![p] = applied[p]] /\ applied[p] \in Nat
    BY DEF MemInv
<1> QED
    BY <1>1, MemStep

(* An answer to a post that is not answered yet.                             *)
LEMMA MemAnswered ==
    ASSUME MemInv, NEW p \in Pair, NEW s \in {"done", "refused", "signin", "unchanged"},
           NEW n \in Nat,
           post[p].pc \notin {"answer", "over"},
           \/ s = "done" /\ n = 1
           \/ s \in {"refused", "signin"} /\ n = 0
           \/ s = "unchanged" /\ n \in {0, 1},
           Mem!Answers(p, s),
           applied' = [applied EXCEPT ![p] = n],
           jar' \in [access : Nat, root : Nat, auth : Nat],
           network' \in [good : SUBSET Nat, refresh : Nat]
    PROVE  MemInv'
<1> DEFINE b == [post[p] EXCEPT !.pc = "answer"]
           c == [b EXCEPT !.says = s]
<1>1. post[p] \in MemPost
    BY DEF MemInv
<1>2. b \in MemPost /\ b.pc = "answer"
    BY <1>1 DEF MemPost
<1> HIDE DEF b
<1>3. c \in MemPost /\ c.pc = "answer" /\ c.says = s
    BY <1>2 DEF MemPost
<1>4. MemAgrees(c, n)
    BY <1>3 DEF MemAgrees
<1>5. post' = [post EXCEPT ![p] = c]
    BY DEF Mem!Answers, b
<1> HIDE DEF c
<1> QED
    BY <1>3, <1>4, <1>5, MemStep

(* A refreshed session: the post goes on with the token Network gave it.     *)
LEMMA MemRefreshed ==
    ASSUME MemInv, NEW p \in Pair, NEW then \in {"check", "call"},
           post[p].pc \notin {"answer", "over"},
           Mem!Refreshed(p, then), UNCHANGED <<applied, jar>>
    PROVE  MemInv'
<1> DEFINE b == [post[p] EXCEPT !.pc = then]
           c == [b EXCEPT !.token = network'.refresh]
           d == [c EXCEPT !.fresh = "yes"]
<1>1. post[p] \in MemPost /\ post[p].says = "none" /\ applied[p] = 0
    BY DEF MemInv, MemAgrees
<1>2. network' \in [good : SUBSET Nat, refresh : Nat]
  <2>1. network.good \in SUBSET Nat /\ network.refresh + 1 \in Nat
      BY DEF MemInv
  <2>2. network.good \cup {network.refresh + 1} \in SUBSET Nat
      BY <2>1
  <2> QED
      BY <2>1, <2>2 DEF Mem!Refreshed
<1>3. b \in MemPost /\ b.pc = then /\ b.says = "none"
    BY <1>1 DEF MemPost
<1> HIDE DEF b
<1>4. c \in MemPost /\ c.pc = then /\ c.says = "none"
    BY <1>2, <1>3 DEF MemPost
<1> HIDE DEF c
<1>5. d \in MemPost /\ d.pc = then /\ d.says = "none"
    BY <1>4 DEF MemPost
<1>6. post' = [post EXCEPT ![p] = d]
    BY DEF Mem!Refreshed, b, c, d
<1> HIDE DEF d
<1>7. MemAgrees(d, applied[p])
    BY <1>1, <1>5 DEF MemAgrees
<1>8. jar' \in [access : Nat, root : Nat, auth : Nat]
    BY DEF MemInv
<1> QED
    BY <1>2, <1>5, <1>6, <1>7, <1>8, MemKept

(* The two answers of a post that was not carried out.                       *)
LEMMA MemTurnedAway ==
    ASSUME MemInv, NEW p \in Pair, NEW s \in {"refused", "signin"},
           post[p].pc \notin {"answer", "over"},
           Mem!Answers(p, s), UNCHANGED <<applied, jar>>,
           network' \in [good : SUBSET Nat, refresh : Nat]
    PROVE  MemInv'
<1>1. applied[p] = 0
    BY DEF MemInv, MemAgrees
<1>2. applied' = [applied EXCEPT ![p] = 0]
    BY <1>1 DEF MemInv
<1>3. jar' \in [access : Nat, root : Nat, auth : Nat]
    BY DEF MemInv
<1> QED
    BY <1>2, <1>3, MemAnswered

LEMMA MemNotRefreshed ==
    ASSUME MemInv, NEW p \in Pair, post[p].pc \notin {"answer", "over"},
           Mem!NotRefreshed(p), UNCHANGED <<applied, jar>>
    PROVE  MemInv'
<1>1. applied[p] = 0 /\ applied' = [applied EXCEPT ![p] = 0]
    BY DEF MemInv, MemAgrees
<1>2. network' \in [good : SUBSET Nat, refresh : Nat]
  <2>1. network \in [good : SUBSET Nat, refresh : Nat]
      BY DEF MemInv
  <2>2. [network EXCEPT !.refresh = @ + 1] \in [good : SUBSET Nat, refresh : Nat]
      BY <2>1
  <2>3. UNCHANGED network \/ network' = [network EXCEPT !.refresh = @ + 1]
      BY DEF Mem!NotRefreshed
  <2> QED
      BY <2>1, <2>2, <2>3
<1>3. Mem!Answers(p, "signin")
    BY DEF Mem!NotRefreshed
<1> QED
    BY <1>2, <1>3, MemTurnedAway

LEMMA MemNext == MemInv /\ [Mem!NextMemory]_Mem!mvars => MemInv'
<1> SUFFICES ASSUME MemInv, [Mem!NextMemory]_Mem!mvars PROVE MemInv'
    OBVIOUS
<1>jn. jar \in [access : Nat, root : Nat, auth : Nat] /\ network \in [good : SUBSET Nat, refresh : Nat]
    BY DEF MemInv
<1>1. CASE Mem!Expires
    BY <1>1 DEF Mem!Expires, MemInv
<1>2. ASSUME NEW p \in Pair, NEW form \in Mem!Forms, Mem!Send(p, form) PROVE MemInv'
  <2> DEFINE b == [Mem!Unsent EXCEPT !.pc = IF jar.access \in network.good THEN "check" ELSE "session"]
             c == [b EXCEPT !.form = form]
             d == [c EXCEPT !.token = jar.access]
             q == [d EXCEPT !.refresh = jar.root]
  <2>1. jar.access \in Nat /\ jar.root \in Nat
      BY <1>jn
  <2>2. b \in MemPost /\ b.pc \in {"check", "session"} /\ b.says = "none"
      BY DEF Mem!Unsent, MemPost
  <2> HIDE DEF b
  <2>7. c \in MemPost /\ c.pc = b.pc /\ c.says = "none"
      BY <2>2 DEF MemPost
  <2> HIDE DEF c
  <2>8. d \in MemPost /\ d.pc = b.pc /\ d.says = "none"
      BY <2>1, <2>7 DEF MemPost
  <2> HIDE DEF d
  <2>3. q \in MemPost /\ q.pc \in {"check", "session"} /\ q.says = "none"
      BY <2>1, <2>2, <2>8 DEF MemPost
  <2>4. applied[p] = 0
      BY <1>2 DEF MemInv, MemAgrees, Mem!Send
  <2>5. MemAgrees(q, applied[p])
      BY <2>3, <2>4 DEF MemAgrees
  <2>6. post' = [post EXCEPT ![p] = q]
      BY <1>2 DEF Mem!Send, b, c, d, q
  <2> HIDE DEF q
  <2> QED
      BY <1>2, <1>jn, <2>3, <2>5, <2>6, MemKept DEF Mem!Send
<1>3. ASSUME NEW p \in Pair, Mem!Session(p) \/ Mem!Refresh(p) PROVE MemInv'
    BY <1>3, MemRefreshed, MemNotRefreshed DEF Mem!Session, Mem!Refresh, Mem!Is
<1>4. ASSUME NEW p \in Pair, Mem!Check(p) PROVE MemInv'
  <2>1. post[p] \in MemPost /\ post[p].says = "none" /\ applied[p] = 0 /\ post[p].pc = "check"
      BY <1>4 DEF MemInv, MemAgrees, Mem!Check, Mem!Is
  <2>2. CASE post' = [post EXCEPT ![p].pc = "call"]
    <3> DEFINE q == [post[p] EXCEPT !.pc = "call"]
    <3>1. q \in MemPost /\ q.pc = "call" /\ q.says = "none"
        BY <2>1 DEF MemPost
    <3>2. MemAgrees(q, applied[p])
        BY <2>1, <3>1 DEF MemAgrees
    <3>3. post' = [post EXCEPT ![p] = q]
        BY <2>2
    <3> HIDE DEF q
    <3> QED
        BY <1>4, <1>jn, <3>1, <3>2, <3>3, MemKept DEF Mem!Check
  <2>3. CASE Mem!Answers(p, "refused")
      BY <1>4, <1>jn, <2>1, <2>3, MemTurnedAway DEF Mem!Check
  <2> QED
      BY <1>4, <2>2, <2>3 DEF Mem!Check
<1>5. ASSUME NEW p \in Pair, Mem!Is(p, "call"),
             Mem!Done(p) \/ Mem!Refused(p) \/ Mem!Unauthorized(p) \/ Mem!TimesOut(p)
      PROVE  MemInv'
  <2>1. post[p] \in MemPost /\ post[p].says = "none" /\ applied[p] = 0 /\ post[p].pc = "call"
      BY <1>5 DEF MemInv, MemAgrees, Mem!Is
  <2>2. ASSUME UNCHANGED applied PROVE applied' = [applied EXCEPT ![p] = 0]
      BY <2>1, <2>2 DEF MemInv
  <2>3. ASSUME Mem!CarriedOut(p) PROVE applied' = [applied EXCEPT ![p] = 1]
      BY <2>1, <2>3 DEF Mem!CarriedOut
  <2>4. CASE Mem!Done(p)
      BY <1>jn, <2>1, <2>3, <2>4, MemAnswered DEF Mem!Done
  <2>5. CASE Mem!Refused(p)
      BY <1>jn, <2>1, <2>5, MemTurnedAway DEF Mem!Refused
  <2>6. CASE Mem!Unauthorized(p)
    <3>1. CASE Mem!Retries(p, 401)
      <4> DEFINE b == [post[p] EXCEPT !.pc = "refresh"]
                 c == [b EXCEPT !.again = "yes"]
      <4>1. b \in MemPost /\ b.pc = "refresh" /\ b.says = "none"
          BY <2>1 DEF MemPost
      <4> HIDE DEF b
      <4>2. c \in MemPost /\ c.pc = "refresh" /\ c.says = "none"
          BY <4>1 DEF MemPost
      <4>3. post' = [post EXCEPT ![p] = c]
          BY <2>6, <3>1 DEF Mem!Unauthorized, Mem!Failed, b, c
      <4> HIDE DEF c
      <4>4. MemAgrees(c, applied[p])
          BY <2>1, <4>2 DEF MemAgrees
      <4> QED
          BY <1>jn, <2>6, <4>2, <4>3, <4>4, MemKept DEF Mem!Unauthorized
    <3>2. CASE ~Mem!Retries(p, 401)
        BY <1>jn, <2>1, <2>6, <3>2, MemTurnedAway DEF Mem!Unauthorized, Mem!Failed
    <3> QED
        BY <3>1, <3>2
  <2>7. CASE Mem!TimesOut(p)
    <3>0. ~Mem!Retries(p, 503)
        BY DEF Mem!Retries
    <3>1. Mem!Answers(p, "unchanged")
        BY <2>7, <3>0 DEF Mem!TimesOut, Mem!Failed
    <3>2. applied' = [applied EXCEPT ![p] = 0] \/ applied' = [applied EXCEPT ![p] = 1]
        BY <2>2, <2>3, <2>7 DEF Mem!TimesOut
    <3> QED
        BY <1>jn, <2>1, <2>7, <3>1, <3>2, MemAnswered DEF Mem!TimesOut
  <2> QED
      BY <1>5, <2>4, <2>5, <2>6, <2>7
<1>6. ASSUME NEW p \in Pair, Mem!Answer(p) PROVE MemInv'
  <2> DEFINE q == [post[p] EXCEPT !.pc = "over"]
  <2>1. post[p] \in MemPost /\ post[p].pc = "answer" /\ MemAgrees(post[p], applied[p])
      BY <1>6 DEF MemInv, Mem!Answer, Mem!Is
  <2>2. q \in MemPost /\ q.pc = "over" /\ q.says = post[p].says
      BY <2>1 DEF MemPost
  <2>3. MemAgrees(q, applied[p])
      BY <2>1, <2>2 DEF MemAgrees
  <2>4. jar' \in [access : Nat, root : Nat, auth : Nat]
      BY <1>6, <1>jn, <2>1 DEF Mem!Answer, MemPost
  <2>5. post' = [post EXCEPT ![p] = q]
      BY <1>6 DEF Mem!Answer
  <2> HIDE DEF q
  <2> QED
      BY <1>6, <1>jn, <2>2, <2>3, <2>4, <2>5, MemKept DEF Mem!Answer
<1>7. CASE UNCHANGED Mem!mvars
    BY <1>7 DEF Mem!mvars, MemInv
<1> QED
    BY <1>1, <1>2, <1>3, <1>4, <1>5, <1>6, <1>7
    DEF Mem!NextMemory, Mem!Done, Mem!Refused, Mem!Unauthorized, Mem!TimesOut

(* A form of the Memory page is carried out at most once, whatever expires   *)
(* or is lost on the way, and what the page says of it is what happened: of  *)
(* any number of posts, expired sessions and lost answers (sso.js asViewer,  *)
(* memory.js call).                                                          *)
THEOREM MemoryAnswersAreTrue == Mem!Spec => []AnswersAreTrue
<1>1. MemInv => AnswersAreTrue
  <2> SUFFICES ASSUME MemInv, NEW p \in Pair
               PROVE  /\ applied[p] <= 1
                      /\ post[p].says = "done" => applied[p] = 1
                      /\ post[p].says \in {"refused", "signin"} => applied[p] = 0
      BY DEF AnswersAreTrue, Mem!AnswersAreTrue
  <2>1. MemAgrees(post[p], applied[p])
      BY DEF MemInv
  <2>2. applied[p] = 0 \/ applied[p] = 1
      BY <2>1 DEF MemAgrees
  <2>3. post[p].says = "done" => applied[p] = 1
      BY <2>1 DEF MemAgrees
  <2>4. post[p].says \in {"refused", "signin"} => applied[p] = 0
      BY <2>1 DEF MemAgrees
  <2> QED
      BY <2>2, <2>3, <2>4
<1> QED
    BY <1>1, MemInitial, MemNext, PTL DEF Mem!Spec

-----------------------------------------------------------------------------
(* The deletion of an account (Account).                                     *)

AccOwn == OwnTables \cup KeyedTables
AccTables == Acc!Tables \cup {"members"}
AccWriter == [pc : {"idle", "write", "done"}, task : AccountTasks \cup {"none"}]

(* A handler starts at most one task and writes at most one row under it.    *)
AccWrote(r) ==
    \A w \in Pair : r.by = w =>
        writer[w].pc # "idle" /\ (r.table \in AccOwn => writer[w].pc = "done")

(* How far the statements of a deletion have come: what they have taken of   *)
(* the rows that were there when it began.                                   *)
AccTaken(e) ==
    /\ e.n \in 1..8
    /\ e.n <= 2 => \A r \in e.gone : r.table \in OwnTables
    /\ e.n > 1 => \A r \in e.before : r.table \in OwnTables => r \in e.gone
    /\ e.n > 2 => \A r \in e.before : r.table \in KeyedTables => r.task \in e.ids
    /\ e.n > 3 => \A r \in e.before : r.table \in KeyedTables => r \in e.gone
    /\ e.n > 4 => \A r \in e.before : r.table = "run_tasks" => r \in e.gone
    /\ e.n > 5 => \A r \in e.before : r.table = "skill_shares" => r \in e.gone
    /\ e.n > 6 => \A r \in e.before : r.table = "skills" => r \in e.gone
    /\ e.n > 7 => \A r \in e.before : r.table # "members" /\ (r.table = "shares" => r \in e.gone)

AccErase(e) == e = [pc |-> e.pc, n |-> e.n, ids |-> e.ids, gone |-> e.gone, before |-> e.before]

(* Until the deletion commits no row under a task is without its task, so    *)
(* the ids it reads name every row it has to take.                           *)
AccHang ==
    /\ \A r \in rows : r.table \in KeyedTables => r.task \in Acc!TasksHeld
    /\ \A w \in Pair : writer[w].pc = "write" => writer[w].task \in Acc!TasksHeld

AccInv ==
    /\ writer \in [Pair -> AccWriter]
    /\ AccErase(erase)
    /\ \A r \in rows \cup erase.before : r.table \in AccTables /\ AccWrote(r)
    /\ erase.pc # "erased" => AccHang
    /\ erase.pc = "erase" => erase.before \subseteq rows /\ AccTaken(erase)
    /\ erase.pc = "idle" => erase.before = {}
    /\ erase.pc = "erased" => erase.before \cap rows = {}
    /\ erase.pc \in {"idle", "erase", "erased"}

LEMMA AccHeld == \A k : k \in Acc!TasksHeld <=> \E r \in rows : r.table = "run_tasks" /\ r.task = k
    BY DEF Acc!TasksHeld

LEMMA AccHeldNext == \A k : k \in Acc!TasksHeld' <=> \E r \in rows' : r.table = "run_tasks" /\ r.task = k
    BY DEF Acc!TasksHeld

LEMMA AccInitial == Acc!InitAccount => AccInv
<1> SUFFICES ASSUME Acc!InitAccount PROVE AccInv
    OBVIOUS
<1> DEFINE none == [pc |-> "idle", task |-> "none"]
<1>1. PICK owned \in SUBSET AccountTasks, joint \in SUBSET AccountTasks :
         /\ joint \subseteq owned
         /\ rows = {Acc!Row(t, k, "before") : t \in Acc!Tables, k \in owned} \cup {Acc!Row("members", k, "before") : k \in joint}
    BY DEF Acc!InitAccount
<1>2. \A r \in rows : r.table \in AccTables /\ r.task \in owned /\ r.by = "before"
    BY <1>1 DEF Acc!Row, AccTables
<1>3. \A k \in owned : Acc!Row("run_tasks", k, "before") \in rows
    BY <1>1 DEF Acc!Tables
<1>4. \A k \in owned : k \in Acc!TasksHeld
    BY <1>3, AccHeld DEF Acc!Row
<1>5. none \in AccWriter /\ none.pc = "idle"
    BY DEF AccWriter
<1>6. writer = [w \in Pair |-> none]
    BY DEF Acc!InitAccount
<1> HIDE DEF none
<1>7. AccErase(erase) /\ erase.pc = "idle" /\ erase.before = {}
    BY DEF Acc!InitAccount, Acc!Quiet, AccErase
<1>8. \A r \in rows : AccWrote(r)
    BY <1>2, AccountAssumption DEF AccWrote
<1>9. AccHang
    BY <1>2, <1>4, <1>5, <1>6 DEF AccHang
<1> QED
    BY <1>2, <1>5, <1>6, <1>7, <1>8, <1>9 DEF AccInv

(* A handler's step: it moves on, and a row of its own is written, or none.  *)
AccMoves(w, v, new) ==
    /\ writer' = [writer EXCEPT ![w] = v] /\ rows' = rows \cup new /\ UNCHANGED erase
    /\ \A r \in new : r.table \in AccTables /\ r.by = w
    /\ \/ writer[w].pc = "idle" /\ v.pc = "write" /\ \A r \in new : r.table \notin AccOwn
       \/ writer[w].pc = "write" /\ v.pc = "done" /\ \A r \in new : r.table \in AccOwn
    /\ erase.pc # "erased" => /\ v.task \in Acc!TasksHeld'
                              /\ \A r \in new : r.table \in KeyedTables => r.task \in Acc!TasksHeld'

LEMMA AccWriterStep ==
    ASSUME AccInv, NEW w \in Pair, NEW v \in AccWriter, NEW new, AccMoves(w, v, new)
    PROVE  AccInv'
<1> USE DEF AccMoves
<1>1. \A x \in Pair : writer'[x] = IF x = w THEN v ELSE writer[x]
    BY DEF AccInv
<1>2. writer' \in [Pair -> AccWriter]
    BY DEF AccInv
<1>3. ASSUME NEW r \in rows \cup erase.before PROVE AccWrote(r)'
  <2>1. AccWrote(r)
      BY DEF AccInv
  <2> QED
      BY <1>1, <2>1 DEF AccWrote
<1>4. ASSUME NEW r \in new PROVE AccWrote(r)'
    BY <1>1, <1>4 DEF AccWrote
<1>5. Acc!TasksHeld \subseteq Acc!TasksHeld'
    BY AccHeld, AccHeldNext
<1>6. erase.pc # "erased" => AccHang'
    BY <1>1, <1>5 DEF AccInv, AccHang
<1>7. erase.pc = "erased" => \A r \in new : r \notin erase.before
  <2> SUFFICES ASSUME NEW r \in new, r \in erase.before PROVE FALSE
      OBVIOUS
  <2>1. AccWrote(r) /\ r.by = w
      BY DEF AccInv
  <2> QED
      BY <2>1 DEF AccWrote
<1>8. \A r \in rows' \cup erase'.before : r.table \in AccTables /\ AccWrote(r)'
    BY <1>3, <1>4 DEF AccInv
<1> QED
    BY <1>2, <1>6, <1>7, <1>8 DEF AccInv

LEMMA AccStart ==
    ASSUME AccInv, NEW w \in Pair, NEW k \in AccountTasks, Acc!Start(w, k) PROVE AccInv'
<1> DEFINE v == [pc |-> "write", task |-> k]
           row == Acc!Row("run_tasks", k, w)
<1>1. v \in AccWriter /\ v.pc = "write" /\ v.task = k
    BY DEF AccWriter
<1>2. writer' = [writer EXCEPT ![w] = v] /\ rows' = rows \cup {row} /\ UNCHANGED erase /\ writer[w].pc = "idle"
    BY DEF Acc!Start
<1>3. row.table = "run_tasks" /\ row.by = w /\ row.task = k
    BY DEF Acc!Row
<1> HIDE DEF row, v
<1>4. k \in Acc!TasksHeld'
    BY <1>2, <1>3, AccHeldNext
<1>5. "run_tasks" \in AccTables /\ "run_tasks" \notin AccOwn
    BY AccountAssumption DEF AccTables, Acc!Tables, AccOwn
<1>6. /\ \A r \in {row} : r.table \in AccTables /\ r.by = w /\ r.table \notin AccOwn
      /\ \A r \in {row} : r.table \in KeyedTables => r.task \in Acc!TasksHeld'
    BY <1>3, <1>4, <1>5
<1>7. AccMoves(w, v, {row})
    BY <1>1, <1>2, <1>4, <1>6 DEF AccMoves
<1> QED
    BY <1>1, <1>7, AccWriterStep

LEMMA AccLook ==
    ASSUME AccInv, NEW w \in Pair, NEW k \in AccountTasks, Acc!Look(w, k) PROVE AccInv'
<1> DEFINE v == [pc |-> "write", task |-> k]
<1>1. v \in AccWriter /\ v.pc = "write" /\ v.task = k
    BY DEF AccWriter
<1>2. writer' = [writer EXCEPT ![w] = v] /\ rows' = rows \cup {} /\ UNCHANGED <<rows, erase>> /\ writer[w].pc = "idle"
    BY DEF Acc!Look
<1> HIDE DEF v
<1>3. k \in Acc!TasksHeld'
    BY <1>2, AccHeld, AccHeldNext DEF Acc!Look
<1>4. AccMoves(w, v, {})
    BY <1>1, <1>2, <1>3 DEF AccMoves
<1> QED
    BY <1>1, <1>4, AccWriterStep

LEMMA AccWrite ==
    ASSUME AccInv, NEW w \in Pair, NEW t \in OwnTables \cup KeyedTables, Acc!Write(w, t) PROVE AccInv'
<1> DEFINE v == [writer[w] EXCEPT !.pc = "done"]
           row == Acc!Row(t, writer[w].task, w)
<1>0. writer[w] \in AccWriter /\ writer[w].pc = "write"
    BY DEF AccInv, Acc!Write
<1>1. v \in AccWriter /\ v.pc = "done" /\ v.task = writer[w].task
    BY <1>0 DEF AccWriter
<1>2. writer' = [writer EXCEPT ![w] = v] /\ rows' = rows \cup {row} /\ UNCHANGED erase
    BY DEF Acc!Write
<1>3. row.table = t /\ row.by = w /\ row.task = writer[w].task
    BY DEF Acc!Row
<1> HIDE DEF row, v
<1>4. erase.pc # "erased" => writer[w].task \in Acc!TasksHeld'
    BY <1>0, <1>2, AccHeld, AccHeldNext DEF AccInv, AccHang
<1>5. t \in AccTables /\ t \in AccOwn
    BY DEF AccTables, Acc!Tables, AccOwn
<1>6. /\ \A r \in {row} : r.table \in AccTables /\ r.by = w /\ r.table \in AccOwn
      /\ erase.pc # "erased" => \A r \in {row} : r.table \in KeyedTables => r.task \in Acc!TasksHeld'
    BY <1>3, <1>4, <1>5
<1>7. AccMoves(w, v, {row})
    BY <1>0, <1>1, <1>2, <1>4, <1>6 DEF AccMoves
<1> QED
    BY <1>1, <1>7, AccWriterStep

LEMMA AccBegin == ASSUME AccInv, Acc!Begin PROVE AccInv'
<1> DEFINE b == [Acc!Quiet EXCEPT !.pc = "erase"]
           c == [b EXCEPT !.n = 1]
           e == [c EXCEPT !.before = rows]
<1>1. erase' = e /\ UNCHANGED <<rows, writer>> /\ erase.pc = "idle"
    BY DEF Acc!Begin
<1>2. b = [pc |-> "erase", n |-> 0, ids |-> {}, gone |-> {}, before |-> {}]
    BY DEF Acc!Quiet
<1> HIDE DEF b
<1>3. c = [pc |-> "erase", n |-> 1, ids |-> {}, gone |-> {}, before |-> {}]
    BY <1>2
<1> HIDE DEF c
<1>4. e = [pc |-> "erase", n |-> 1, ids |-> {}, gone |-> {}, before |-> rows]
    BY <1>3
<1> HIDE DEF e
<1>5. e.pc = "erase" /\ e.n = 1 /\ e.gone = {} /\ e.before = rows /\ AccErase(e)
    BY <1>4 DEF AccErase
<1>6. AccTaken(e)
    BY <1>5 DEF AccTaken
<1>7. AccHang'
    BY <1>1, AccHeld, AccHeldNext DEF AccInv, AccHang
<1>8. \A r \in rows : r.table \in AccTables /\ AccWrote(r)'
    BY <1>1 DEF AccInv, AccWrote
<1> QED
    BY <1>1, <1>5, <1>6, <1>7, <1>8 DEF AccInv

(* A statement takes the rows of its table that were there at the beginning. *)
LEMMA AccStatement == ASSUME AccInv, Acc!Statement PROVE AccInv'
<1> DEFINE what == Acc!Statements[erase.n]
           ids == IF what = "ids" THEN Acc!Seen ELSE erase.ids
           gone == erase.gone \cup Acc!Takes(what)
           b == [erase EXCEPT !.n = erase.n + 1]
           c == [b EXCEPT !.ids = ids]
           e == [c EXCEPT !.gone = gone]
<1>1. /\ erase.pc = "erase" /\ AccErase(erase) /\ erase.before \subseteq rows /\ AccTaken(erase) /\ AccHang
      /\ UNCHANGED <<rows, writer>>
    BY DEF AccInv, Acc!Statement
<1>2. erase.n \in 1..7
    BY <1>1 DEF Acc!Statement, Acc!Statements, AccTaken
<1>3. erase' = e
    BY DEF Acc!Statement
<1>4. /\ erase.n = 1 => what = "own"
      /\ erase.n = 2 => what = "ids"
      /\ erase.n = 3 => what = "keyed"
      /\ erase.n = 4 => what = "run_tasks"
      /\ erase.n = 5 => what = "skill_shares"
      /\ erase.n = 6 => what = "skills"
      /\ erase.n = 7 => what = "shares"
    BY DEF Acc!Statements
<1> HIDE DEF what
<1>5. b = [pc |-> "erase", n |-> erase.n + 1, ids |-> erase.ids, gone |-> erase.gone, before |-> erase.before]
    BY <1>1 DEF AccErase
<1> HIDE DEF b, ids, gone
<1>6. c = [pc |-> "erase", n |-> erase.n + 1, ids |-> ids, gone |-> erase.gone, before |-> erase.before]
    BY <1>5
<1> HIDE DEF c
<1>7. e = [pc |-> "erase", n |-> erase.n + 1, ids |-> ids, gone |-> gone, before |-> erase.before]
    BY <1>6
<1> HIDE DEF e
<1>8. AccErase(e) /\ e.pc = "erase" /\ e.n = erase.n + 1 /\ e.ids = ids /\ e.gone = gone /\ e.before = erase.before
    BY <1>7 DEF AccErase
<1>9. erase.gone \subseteq gone
    BY DEF gone
<1>10. erase.n = 1 => (\A r \in gone : r.table \in OwnTables) /\ (\A r \in erase.before : r.table \in OwnTables => r \in gone)
    BY <1>1, <1>4 DEF gone, AccTaken, Acc!Takes
<1>11. erase.n = 2 => \A r \in erase.before : r.table \in KeyedTables => r.task \in ids
  <2> SUFFICES ASSUME erase.n = 2, NEW r \in erase.before, r.table \in KeyedTables PROVE r.task \in Acc!Seen
      BY <1>4 DEF ids
  <2>1. PICK x \in rows : x.table = "run_tasks" /\ x.task = r.task
      BY <1>1, AccHeld DEF AccHang
  <2>2. x \notin erase.gone
      BY <1>1, <2>1, AccountAssumption DEF AccTaken
  <2> QED
      BY <2>1, <2>2 DEF Acc!Seen
<1>12. erase.n # 2 => ids = erase.ids
    BY <1>2, <1>4 DEF ids
<1>13. erase.n = 3 => \A r \in erase.before : r.table \in KeyedTables => r \in gone
    BY <1>1, <1>4 DEF gone, AccTaken, Acc!Takes
<1>14. /\ erase.n = 4 => \A r \in erase.before : r.table = "run_tasks" => r \in gone
       /\ erase.n = 5 => \A r \in erase.before : r.table = "skill_shares" => r \in gone
       /\ erase.n = 6 => \A r \in erase.before : r.table = "skills" => r \in gone
       /\ erase.n = 7 => \A r \in erase.before : r.table = "shares" => r \in gone
    BY <1>1, <1>4 DEF gone, Acc!Takes
<1>15. erase.n = 7 => \A r \in erase.before : r.table # "members"
  <2>1. ~Acc!Refused(what)
      BY DEF Acc!Statement, what
  <2> QED
      BY <1>1, <1>4, <2>1 DEF Acc!Refused
<1>16. AccTaken(e)
  <2>1. e.n \in 1..8
      BY <1>2, <1>8
  <2>2. e.n <= 2 => \A r \in e.gone : r.table \in OwnTables
      BY <1>2, <1>8, <1>10
  <2>3. e.n > 1 => \A r \in e.before : r.table \in OwnTables => r \in e.gone
      BY <1>1, <1>2, <1>8, <1>9, <1>10 DEF AccTaken
  <2>4. e.n > 2 => \A r \in e.before : r.table \in KeyedTables => r.task \in e.ids
      BY <1>1, <1>2, <1>8, <1>11, <1>12 DEF AccTaken
  <2>5. e.n > 3 => \A r \in e.before : r.table \in KeyedTables => r \in e.gone
      BY <1>1, <1>2, <1>8, <1>9, <1>13 DEF AccTaken
  <2>6. e.n > 4 => \A r \in e.before : r.table = "run_tasks" => r \in e.gone
      BY <1>1, <1>2, <1>8, <1>9, <1>14 DEF AccTaken
  <2>7. e.n > 5 => \A r \in e.before : r.table = "skill_shares" => r \in e.gone
      BY <1>1, <1>2, <1>8, <1>9, <1>14 DEF AccTaken
  <2>8. e.n > 6 => \A r \in e.before : r.table = "skills" => r \in e.gone
      BY <1>1, <1>2, <1>8, <1>9, <1>14 DEF AccTaken
  <2>9. e.n > 7 => \A r \in e.before : r.table # "members" /\ (r.table = "shares" => r \in e.gone)
      BY <1>1, <1>2, <1>8, <1>9, <1>14, <1>15 DEF AccTaken
  <2> QED
      BY <2>1, <2>2, <2>3, <2>4, <2>5, <2>6, <2>7, <2>8, <2>9 DEF AccTaken
<1>17. AccHang'
    BY <1>1, AccHeld, AccHeldNext DEF AccHang
<1>18. \A r \in rows \cup erase.before : r.table \in AccTables /\ AccWrote(r)'
    BY <1>1 DEF AccInv, AccWrote
<1> QED
    BY <1>1, <1>3, <1>8, <1>16, <1>17, <1>18 DEF AccInv

LEMMA AccCommit == ASSUME AccInv, Acc!Commit PROVE AccInv'
<1> DEFINE e == [erase EXCEPT !.pc = "erased"]
<1>1. erase.pc = "erase" /\ AccErase(erase) /\ AccTaken(erase) /\ rows' = rows \ erase.gone /\ erase' = e /\ UNCHANGED writer
    BY DEF AccInv, Acc!Commit
<1>2. erase.n = 8
    BY <1>1 DEF Acc!Commit, Acc!Statements, AccTaken
<1>3. e = [pc |-> "erased", n |-> erase.n, ids |-> erase.ids, gone |-> erase.gone, before |-> erase.before]
    BY <1>1 DEF AccErase
<1> HIDE DEF e
<1>4. AccErase(e) /\ e.pc = "erased" /\ e.before = erase.before
    BY <1>3 DEF AccErase
<1>5. \A r \in erase.before : r \in erase.gone
  <2> SUFFICES ASSUME NEW r \in erase.before PROVE r \in erase.gone
      OBVIOUS
  <2>1. r.table \in AccTables
      BY DEF AccInv
  <2> QED
      BY <1>1, <1>2, <2>1 DEF AccTables, Acc!Tables, AccTaken
<1>6. \A r \in rows \cup erase.before : r.table \in AccTables /\ AccWrote(r)'
    BY <1>1 DEF AccInv, AccWrote
<1> QED
    BY <1>1, <1>4, <1>5, <1>6 DEF AccInv

LEMMA AccAbort == ASSUME AccInv, Acc!Abort \/ Acc!Refuse PROVE AccInv'
<1>1. erase' = Acc!Quiet /\ UNCHANGED <<rows, writer>> /\ erase.pc = "erase"
    BY DEF Acc!Abort, Acc!Refuse
<1>2. AccErase(erase') /\ erase'.pc = "idle" /\ erase'.before = {}
    BY <1>1 DEF Acc!Quiet, AccErase
<1>3. AccHang'
    BY <1>1, AccHeld, AccHeldNext DEF AccInv, AccHang
<1>4. \A r \in rows : r.table \in AccTables /\ AccWrote(r)'
    BY <1>1 DEF AccInv, AccWrote
<1> QED
    BY <1>1, <1>2, <1>3, <1>4 DEF AccInv

LEMMA AccNext == AccInv /\ [Acc!NextAccount]_Acc!acvars => AccInv'
<1> SUFFICES ASSUME AccInv, [Acc!NextAccount]_Acc!acvars PROVE AccInv'
    OBVIOUS
<1>1. CASE UNCHANGED Acc!acvars
  <2>1. UNCHANGED <<rows, writer, erase>>
      BY <1>1 DEF Acc!acvars
  <2>2. AccHang => AccHang'
      BY <2>1, AccHeld, AccHeldNext DEF AccHang
  <2>3. \A r \in rows \cup erase.before : r.table \in AccTables /\ AccWrote(r)'
      BY <2>1 DEF AccInv, AccWrote
  <2> QED
      BY <2>1, <2>2, <2>3 DEF AccInv
<1> QED
    BY <1>1, AccStart, AccLook, AccWrite, AccBegin, AccStatement, AccCommit, AccAbort DEF Acc!NextAccount

(* An account's deletion takes all that was there when it began, of every    *)
(* table, or nothing, for any tasks and tables and any number of handlers    *)
(* that write beside it (account-data.js extraErase): the ids are read after *)
(* the rows that hang under them and before the tasks are taken.             *)
THEOREM ErasedStaysGone == Acc!Spec => []ErasedIsGone
<1>1. AccInv => ErasedIsGone
    BY DEF AccInv, ErasedIsGone, Acc!ErasedIsGone
<1> QED
    BY <1>1, AccInitial, AccNext, PTL DEF Acc!Spec

================================================================================
