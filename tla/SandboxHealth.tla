---------------------------- MODULE SandboxHealth ----------------------------
(***************************************************************************)
(* What Codes knows of a sandbox worker: the worker signs what its last    *)
(* self-test found every 30 seconds (sandbox/worker.js `announce`,         *)
(* sandbox/signature.js), Codes keeps the newest of them                   *)
(* (server/http/sandbox-workers.js, server/domain/sandbox-workers.js) and  *)
(* says whether a healthy worker exists.  Check-ins overlap, so they may   *)
(* be lost, late, out of order or repeated.  Time is counted in intervals. *)
(***************************************************************************)
EXTENDS Naturals, FiniteSets

CONSTANTS
    Checks,        \* REQUIRED: the isolation checks of the self-test
    Tolerance,     \* TOLERANCE_MS: how old a signed time may be
    Stale,         \* staleMs: how long a worker is believed without a check-in
    MaxSent,       \* bound: check-ins on their way at once
    MaxClock       \* bound: intervals

VARIABLES
    clock,     \* one clock: the route is loopback only
    failed,    \* the checks the worker's last self-test failed
    sent,      \* the signed check-ins on their way
    row,       \* codes_sandbox_workers, at most one row of the worker
    heard      \* what is told apart here: the newest check-in that arrived, the last one that was all right

hvars == <<clock, failed, sent, row, heard>>

InitHealth ==
    /\ clock = 0
    /\ failed = Checks
    /\ sent = {}
    /\ row = {}
    /\ heard = [newest |-> 0, report |-> Checks, good |-> 0]

Tick ==
    /\ clock < MaxClock
    /\ clock' = clock + 1
    /\ UNCHANGED <<failed, sent, row, heard>>

(* selfTest, at boot and every ten minutes.                                  *)
Tested(f) ==
    /\ failed' = f
    /\ UNCHANGED <<clock, sent, row, heard>>

(* announce: the worker's health, signed with the time it is sent.           *)
Announce ==
    /\ clock > 0
    /\ Cardinality(sent) < MaxSent
    /\ \A m \in sent : m.t # clock
    /\ sent' = sent \cup {[t |-> clock, report |-> failed]}
    /\ heard' = [heard EXCEPT !.good = IF failed = {} THEN clock ELSE @]
    /\ UNCHANGED <<clock, failed, row>>

(* verify, then the upsert whose WHERE wants the signed time to move on.     *)
AcceptsReplayed(m) == clock - m.t <= Tolerance

Accepts(m) == clock - m.t <= Tolerance /\ \A r \in row : r.t < m.t

Heartbeat(m) ==
    /\ row' = IF Accepts(m) THEN {[t |-> m.t, report |-> m.report, seen |-> clock]} ELSE row
    /\ heard' = IF clock - m.t <= Tolerance /\ m.t > heard.newest
                THEN [heard EXCEPT !.newest = m.t, !.report = m.report] ELSE heard
    /\ UNCHANGED <<clock, failed, sent>>

(* A check-in that is not delivered any more.                                *)
Lost(m) ==
    /\ sent' = sent \ {m}
    /\ UNCHANGED <<clock, failed, row, heard>>

NextHealth ==
    \/ Tick
    \/ \E f \in SUBSET Checks : Tested(f)
    \/ Announce
    \/ \E m \in sent : Heartbeat(m) \/ Lost(m)

Spec == InitHealth /\ [][NextHealth]_hvars

(* failing, health: ready when some worker reports nothing and is not stale. *)
Failing(r) == r.report \cup IF clock - r.seen > Stale THEN {"stale"} ELSE {}
Healthy == \E r \in row : Failing(r) = {}

(* Codes calls a worker healthy only when the newest check-in that reached   *)
(* it passed every check, and the worker really said so no longer ago than   *)
(* the two limits together allow.                                            *)
HealthyIsFresh ==
    Healthy => heard.report = {} /\ clock - heard.good <= Tolerance + Stale
=============================================================================
