------------------------------- MODULE PlayDesk -------------------------------
(***************************************************************************)
(* The chat plays session as a record (server/domain/play-desk.js): the    *)
(* owner's Go, its time box, its cap and its step budget, the wipe and the *)
(* end, the scratch site.  The caller may use its functions in any order.  *)
(***************************************************************************)
EXTENDS Naturals

CONSTANTS
    TimeBox,     \* time_box_minutes
    Money,       \* cap.money_cents
    Steps,       \* step_budget
    SiteLife,    \* SCRATCH_TTL_MS
    MaxTime      \* bound on the clock and on what is spent past a limit

VARIABLES
    desk,     \* the session: state, armed, its start, what it spent, whether its workspace is wiped, its scratch site
    time

dvars == <<desk, time>>

NoSite == [until |-> 0, kept |-> "no"]

InitDesk ==
    /\ desk = [state |-> "idle", armed |-> "no", started |-> 0, money |-> 0, steps |-> 0,
               files |-> "some", site |-> NoSite]
    /\ time = 1

Passes ==
    /\ time < MaxTime
    /\ time' = time + 1
    /\ UNCHANGED desk

(* arm: the owner's Go, once.                                                *)
Arm ==
    /\ desk.armed = "no"
    /\ desk' = [desk EXCEPT !.armed = "yes", !.state = IF @ = "idle" THEN "armed" ELSE @]
    /\ UNCHANGED time

MayRunArmed == desk.armed = "yes"

MayRun == desk.armed = "yes" /\ desk.state \notin {"wiped", "ended"}

Begin ==
    /\ MayRun
    /\ desk' = [desk EXCEPT !.state = "running", !.started = IF @ = 0 THEN time ELSE @]
    /\ UNCHANGED time

(* spend: added first, then the cap, the time box and the steps.             *)
CapLeft(d) == d.money < Money
TimeBoxLeft(d) == d.started = 0 \/ time < d.started + TimeBox
StepsLeft(d) == d.steps <= Steps

Ended(d) == IF CapLeft(d) /\ TimeBoxLeft(d) /\ StepsLeft(d) THEN d ELSE [d EXCEPT !.state = "ended"]

Spend(money, steps) ==
    /\ desk.money + money <= Money + MaxTime /\ desk.steps + steps <= Steps + 1
    /\ desk' = Ended([desk EXCEPT !.money = @ + money, !.steps = @ + steps])
    /\ UNCHANGED time

Wipe ==
    /\ desk' = [desk EXCEPT !.state = "wiped", !.files = "wiped", !.site = NoSite]
    /\ UNCHANGED time

End ==
    /\ desk' = [desk EXCEPT !.state = "ended", !.files = "wiped"]
    /\ UNCHANGED time

ScratchSite(kept) ==
    /\ desk' = [desk EXCEPT !.site = [until |-> time + SiteLife, kept |-> kept]]
    /\ UNCHANGED time

NextDesk ==
    \/ Passes \/ Arm \/ Begin \/ Wipe \/ End
    \/ \E m, s \in 0..1 : Spend(m, s)
    \/ \E k \in {"no", "yes"} : ScratchSite(k)

Spec == InitDesk /\ [][NextDesk]_dvars

(* A session that was wiped, that ended, or whose money, time or steps ran   *)
(* out when they were last counted, never runs a request again.              *)
OverStaysOver == [][desk.state \in {"wiped", "ended"} => (desk').state \in {"wiped", "ended"}]_dvars

(* A session that ended has been wiped (play-desk.js:13).                    *)
EndedIsWiped == desk.state \in {"wiped", "ended"} => desk.files = "wiped"
===============================================================================
