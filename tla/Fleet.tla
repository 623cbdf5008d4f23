-------------------------------- MODULE Fleet --------------------------------
(***************************************************************************)
(* What a person's machines report about their agents                      *)
(* (server/domain/fleet.js) and the agent a conductor's turn runs on       *)
(* (server/domain/conductor-failover.js, chainFor and fleetFor of          *)
(* server/domain/conductor.js).                                            *)
(*                                                                         *)
(* The machines report to OpenVibe.Bot; a page view, an API read or a      *)
(* message of the person refreshes codes_machine_fleet from Bot's answer.  *)
(* The refresh is a transaction at READ COMMITTED, and two of them may     *)
(* overlap.  A percentage is 0 (room), 1 (at the switch point), 2 or more  *)
(* (full).                                                                 *)
(***************************************************************************)
EXTENDS Naturals, FiniteSets, Sequences

CONSTANTS
    Machines,      \* the person's machines, in the order of their names: a set of numbers
    Agents, Windows,
    Reports,       \* what a machine may report of an agent: [kit, use]
    Chain,         \* the conductor's agent, then its fallbacks
    Readers,       \* the requests that refresh
    MaxReports,    \* bound: reports, windows that free and balances that change
    MaxReads       \* bound: refreshes

None == [kit |-> "none", use |-> [w \in Windows |-> [pct |-> 0, past |-> "no"]]]

VARIABLES
    bot,       \* OpenVibe.Bot: the machines it lists, those that reported, and their fleets
    held,      \* codes_machine_fleet: the reading of each machine and agent
    money,     \* the pay-per-token balances, as balances() last read them
    reader,    \* the refreshes under way
    reports, reads

fvars == <<bot, held, money, reader, reports, reads>>

NoReader == [pc |-> "idle", doc |-> [list |-> {}, told |-> {}, fleet |-> <<>>], seen |-> {}]
Unreported == [a \in Agents |-> None]

InitFleet ==
    /\ bot = [list |-> Machines, told |-> {}, fleet |-> [m \in Machines |-> Unreported]]
    /\ held = [m \in Machines |-> Unreported]
    /\ money = [a \in Agents |-> "unread"]
    /\ reader = [r \in Readers |-> NoReader]
    /\ reports = 0
    /\ reads = 0

Reporting == reports < MaxReports /\ reports' = reports + 1

(* A machine's heartbeat.                                                   *)
Report(m, a, reading) ==
    /\ Reporting
    /\ m \in bot.list
    /\ bot' = [bot EXCEPT !.told = @ \cup {m}, !.fleet[m][a] = reading]
    /\ UNCHANGED <<held, money, reader, reads>>

(* A machine is taken off the person's account.                             *)
Unpair(m) ==
    /\ Reporting
    /\ m \in bot.list
    /\ bot' = [list |-> bot.list \ {m}, told |-> bot.told \ {m},
               fleet |-> [bot.fleet EXCEPT ![m] = Unreported]]
    /\ UNCHANGED <<held, money, reader, reads>>

(* A window's reset time passes: windowFull no longer counts it.            *)
Frees(m, a, w) ==
    /\ Reporting
    /\ held[m][a].use[w].pct > 0 /\ held[m][a].use[w].past = "no"
    /\ held' = [held EXCEPT ![m][a].use[w].past = "yes"]
    /\ UNCHANGED <<bot, money, reader, reads>>

(* balances: an account is read again; one that cannot be read is unread.   *)
Balance(a, b) ==
    /\ Reporting
    /\ money[a] # b
    /\ money' = [money EXCEPT ![a] = b]
    /\ UNCHANGED <<bot, held, reader, reads>>

(* read: Bot's answer; without one the last reading stays.                  *)
Read(r) ==
    /\ reader[r].pc = "idle"
    /\ reads < MaxReads
    /\ reads' = reads + 1
    /\ \/ reader' = [reader EXCEPT ![r] = [pc |-> "read", doc |-> bot, seen |-> {}]]
       \/ UNCHANGED reader
    /\ UNCHANGED <<bot, held, money, reports>>

Rows == {x \in Machines \X Agents : held[x[1]][x[2]] # None}

(* A machine whose answer names no fleet keeps its last reading.            *)
Names(doc, m) == m \in doc.list /\ m \in doc.told

(* refresh: the deletes see the rows that are committed when they begin.    *)
Delete(r) ==
    /\ reader[r].pc = "read"
    /\ reader' = [reader EXCEPT ![r].pc = "store",
                     ![r].seen = {x \in Rows : \/ x[1] \notin reader[r].doc.list
                                               \/ Names(reader[r].doc, x[1])}]
    /\ UNCHANGED <<bot, held, money, reports, reads>>

(* ... and the inserts; what another refresh wrote meanwhile is a new row   *)
(* that the delete does not reach.                                          *)
Stored(r, m, a) ==
    IF Names(reader[r].doc, m) /\ reader[r].doc.fleet[m][a] # None
       THEN reader[r].doc.fleet[m][a]
       ELSE IF <<m, a>> \in reader[r].seen THEN None ELSE held[m][a]

Store(r) ==
    /\ reader[r].pc = "store"
    /\ held' = [m \in Machines |-> [a \in Agents |-> Stored(r, m, a)]]
    /\ reader' = [q \in Readers |->
           IF q = r THEN NoReader ELSE [reader[q] EXCEPT !.seen = @ \ reader[r].seen]]
    /\ UNCHANGED <<bot, money, reports, reads>>

RollBack(r) ==
    /\ reader[r].pc = "store"
    /\ reader' = [reader EXCEPT ![r] = NoReader]
    /\ UNCHANGED <<bot, held, money, reports, reads>>

NextFleet ==
    \/ \E m \in Machines : \/ Unpair(m)
                           \/ \E a \in Agents : \/ \E reading \in Reports : Report(m, a, reading)
                                                \/ \E w \in Windows : Frees(m, a, w)
    \/ \E a \in Agents : \E b \in {"unread", "spent", "plenty"} : Balance(a, b)
    \/ \E r \in Readers : Read(r) \/ Delete(r) \/ Store(r) \/ RollBack(r)

Spec == InitFleet /\ [][NextFleet]_fvars

-----------------------------------------------------------------------------
(* The choice of a turn's agent.                                            *)

(* windowFull                                                               *)
Full(w) == w.past = "no" /\ w.pct >= 2

Ready(reading) == reading.kit = "ready" /\ \A w \in Windows : ~Full(reading.use[w])

(* A row the choice reads: a reading, and whether the agent has room.       *)
Row(kit, use, room) == [kit |-> kit, use |-> use, room |-> room]

(* fleetFor: the machine the conductor is pinned to ...                     *)
Pinned(m, a) == Row(held[m][a].kit, held[m][a].use, Ready(held[m][a]))

(* ... or byHarness: the best of the person's machines, with the fullest    *)
(* window of each name (mergeWindows), the first machine's among equals.    *)
Reporters(a) == {m \in Machines : held[m][a] # None}

Fullest(a, w) ==
    CHOOSE m \in Reporters(a) : \A n \in Reporters(a) :
        \/ held[m][a].use[w].pct > held[n][a].use[w].pct
        \/ held[m][a].use[w].pct = held[n][a].use[w].pct /\ m <= n

MergedUse(a) == [w \in Windows |-> held[Fullest(a, w)][a].use[w]]

MergedKit(a) ==
    LET kits == {held[m][a].kit : m \in Reporters(a)}
    IN  IF "ready" \in kits THEN "ready" ELSE IF "login" \in kits THEN "login" ELSE "absent"

(* roomFor, of the merged row.                                              *)
RoomFor(a) ==
    /\ MergedKit(a) = "ready"
    /\ money[a] # "spent"
    /\ \A w \in Windows : ~Full(MergedUse(a)[w])

Merged(a) ==
    IF Reporters(a) = {} THEN Row("none", None.use, FALSE)
    ELSE Row(MergedKit(a), MergedUse(a), (\E m \in Reporters(a) : Ready(held[m][a])) \/ RoomFor(a))

(* usageOf: the fullest window that has not freed since.  Mutant: the       *)
(* fullest window, freed or not.                                            *)
TopEver(use) == CHOOSE p \in {use[w].pct : w \in Windows} : \A w \in Windows : use[w].pct <= p

Top(use) ==
    LET live == {w \in Windows : use[w].past = "no"}
    IN  IF live = {} THEN 0 ELSE CHOOSE p \in {use[w].pct : w \in live} : \A w \in live : use[w].pct <= p

UsageOf(row) ==
    CASE row.kit = "none" -> "unknown"
      [] row.kit = "absent" -> "absent"
      [] row.kit = "login" -> "login"
      [] OTHER -> IF Top(row.use) >= 2 \/ ~row.room THEN "full"
                  ELSE IF Top(row.use) = 1 THEN "near" ELSE "ok"

(* choose: the first with room, or the primary without a reading; else the  *)
(* first near its limit; else a fallback without a reading; else the        *)
(* primary.                                                                 *)
First(test(_)) ==
    LET hits == {i \in 1..Len(Chain) : test(i)}
    IN  IF hits = {} THEN 0 ELSE CHOOSE i \in hits : \A j \in hits : i <= j

Choose(usage) ==
    LET ok == First(LAMBDA i : usage[i] = "ok" \/ (i = 1 /\ usage[i] = "unknown"))
        near == First(LAMBDA i : usage[i] = "near")
        unknown == First(LAMBDA i : usage[i] = "unknown")
    IN  IF ok > 0 THEN ok ELSE IF near > 0 THEN near ELSE IF unknown > 0 THEN unknown ELSE 1

ChoicePinned(m) == Choose([i \in 1..Len(Chain) |-> UsageOf(Pinned(m, Chain[i]))])
ChoiceAnywhere == Choose([i \in 1..Len(Chain) |-> UsageOf(Merged(Chain[i]))])

-----------------------------------------------------------------------------

(* A turn of a conductor pinned to a machine never goes to an agent that    *)
(* cannot take it there while another agent of its chain can, whatever      *)
(* reset, was refreshed or was unpaired since the reading (choose, usageOf, *)
(* refresh).                                                                *)
ChoosesRoom ==
    \A m \in Machines :
        (\E i \in 1..Len(Chain) : Ready(held[m][Chain[i]]))
            => LET a == Chain[ChoicePinned(m)] IN held[m][a] = None \/ Ready(held[m][a])

(* "An agent is usable when at least one machine has it installed and       *)
(* signed in with room" (fleet.js:192): violated, another machine's full    *)
(* window makes usageOf answer full.                                        *)
UsableIsChosen ==
    (\E m \in Machines : Ready(held[m][Chain[1]])) => ChoiceAnywhere = 1

(* "an agent whose money is nearly gone may not take a job (the router's    *)
(* rule)" (fleet.js:194): violated, a plan window with room hides the       *)
(* balance from the choice.                                                 *)
BrokeIsPassedOver ==
    ~(/\ MergedKit(Chain[ChoiceAnywhere]) = "ready" /\ money[Chain[ChoiceAnywhere]] = "spent"
      /\ \E i \in 1..Len(Chain) : RoomFor(Chain[i]))

(* "the fullest reading wins (a stale machine never hides one)"             *)
(* (fleet.js:56): violated, a window that freed hides a full one of fewer   *)
(* percent on another machine.                                              *)
StaleHidesNothing ==
    \A a \in Agents : \A w \in Windows :
        (\E m \in Reporters(a) : Full(held[m][a].use[w])) => Full(MergedUse(a)[w])

(* "replace what Codes holds for each machine whose answer names a fleet"   *)
(* (fleet.js:124): violated when two refreshes overlap, an agent only the   *)
(* first names stays.                                                       *)
ReplacesWhatIsHeld ==
    [][\A r \in Readers : Store(r) =>
          \A m \in Machines : Names(reader[r].doc, m) => held'[m] = reader[r].doc.fleet[m]]_fvars
==============================================================================
