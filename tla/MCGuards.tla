------------------------------- MODULE MCGuards ------------------------------
(***************************************************************************)
(* What guards an agent at work: the sandbox worker, its egress proxy, its *)
(* health reports and its play desk, and the approvals inbox.  They share  *)
(* no state: each behaviour is one of them (the variable part says which)  *)
(* and leaves the others where they start; a run takes some of the Parts.  *)
(***************************************************************************)
EXTENDS Naturals, FiniteSets, TLC

CONSTANTS
    Parts,
    Sessions, Commands, Pages, MaxSessions, MaxCrashes, MaxStuck,
    Conns, Hosts, Kinds, Budget, Chunk, Burst, PerHost, MaxOpen,
    Checks, Tolerance, Stale, MaxSent, MaxClock,
    TimeBox, Money, Steps, SiteLife, MaxTime,
    Calls, Alike, MaxFaults,
    HostOf, Shared, SummaryOf

VARIABLES
    part,
    worker, box, req,
    conn, active, tokens, bytes, spent, heads,
    clock, failed, sent, row, heard,
    desk, time,
    rows, call, task, faults

W == INSTANCE SandboxWorker
P == INSTANCE Egress
H == INSTANCE SandboxHealth
D == INSTANCE PlayDesk
A == INSTANCE Approvals

(* The sites and limits of the proxy, the limits of the health reports and   *)
(* of a chat plays session.                                                  *)
ASSUME ProxyAssumption ==
    /\ IsFiniteSet(Conns) /\ HostOf \in [Conns -> Hosts]
    /\ PerHost \in Nat /\ Budget \in Nat /\ Chunk \in Nat
ASSUME HealthAssumption == Tolerance \in Nat /\ Stale \in Nat
ASSUME DeskAssumption == SiteLife \in Nat

(* For TLC: the Shared connections go to one site and the others to another; *)
(* some calls show one line.  The connections to one site are alike.         *)
TwoSites == LET one == CHOOSE h \in Hosts : TRUE
            IN [c \in Conns |-> IF c \in Shared THEN one ELSE CHOOSE h \in Hosts : h # one]
SharedAlike == Permutations(Shared)
LinesOfCalls == [c \in Calls |-> IF c \in Alike THEN "same" ELSE "own"]

wvars == <<worker, box, req>>
pvars == <<conn, active, tokens, bytes, spent, heads>>
hvars == <<clock, failed, sent, row, heard>>
dvars == <<desk, time>>
avars == <<rows, call, task, faults>>
vars == <<part, wvars, pvars, hvars, dvars, avars>>

Init ==
    /\ part \in Parts
    /\ W!Init /\ P!InitProxy /\ H!InitHealth /\ D!InitDesk /\ A!Init

Next ==
    /\ UNCHANGED part
    /\ \/ part = "worker" /\ W!Next /\ UNCHANGED <<pvars, hvars, dvars, avars>>
       \/ part = "proxy" /\ P!NextProxy /\ UNCHANGED <<wvars, hvars, dvars, avars>>
       \/ part = "health" /\ H!NextHealth /\ UNCHANGED <<wvars, pvars, dvars, avars>>
       \/ part = "desk" /\ D!NextDesk /\ UNCHANGED <<wvars, pvars, hvars, avars>>
       \/ part = "approvals" /\ A!Next /\ UNCHANGED <<wvars, pvars, hvars, dvars>>

(* The worker's timers and promises, and the kernel (SandboxWorker); the     *)
(* approve tool's own requests and its timeout (Approvals).                  *)
Fairness ==
    /\ \A s \in Sessions : WF_vars(part = "worker" /\ W!Fair(s) /\ UNCHANGED <<part, pvars, hvars, dvars, avars>>)
    /\ \A r \in Pages : WF_vars(part = "worker" /\ W!FairRequest(r) /\ UNCHANGED <<part, pvars, hvars, dvars, avars>>)
    /\ \A c \in Calls : WF_vars(part = "approvals" /\ A!Step(c) /\ UNCHANGED <<part, wvars, pvars, hvars, dvars>>)

Spec == Init /\ [][Next]_vars /\ Fairness

-----------------------------------------------------------------------------

(* What of a wiped sandbox, or of an earlier worker's, may stay on the host. *)
WipeLeavesLittle == W!WipeLeavesLittle

(* Nothing of a wiped sandbox stays but what the wipe reported               *)
(* (session.js:27).                                                          *)
NothingIsKept == W!NothingIsKept

(* Every request on a sandbox is answered (session.js wipe, _request), or    *)
(* cut off from the browser by another (openPage).                           *)
RequestsAreAnswered == W!RequestsAreAnswered

(* A spent egress budget counts and opens nothing more (egress-proxy.js).    *)
SpentIsSpent == P!SpentIsSpent

(* The heads that still pass then are few (onConnect, onRequest).            *)
LateHeadsAreFew == P!LateHeadsAreFew

(* A host's slots are the connections that hold them (release).              *)
SlotsAreCounted == P!SlotsAreCounted

(* What Codes says of a worker is the newest it heard, and recent.           *)
HealthyIsFresh == H!HealthyIsFresh

(* A chat plays session that is over stays over (play-desk.js mayRun).       *)
OverStaysOver == D!OverStaysOver

(* A risky call runs only when its owner allowed what it shows, and the      *)
(* first answer stands (approvals.js settle, bin/mcp.js approve).            *)
AllowedByTheOwner == A!AllowedByTheOwner

(* Every risky call is answered: by its owner, a stop or its own timeout.    *)
CallsAreAnswered == \A c \in Calls : <>(part = "approvals" => call[c].pc = "done")
==============================================================================
