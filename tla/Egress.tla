------------------------------- MODULE Egress -------------------------------
(***************************************************************************)
(* A sandbox's only way out (sandbox/egress-proxy.js): the proxy the       *)
(* worker keeps for one session.  A request is decided twice, before and   *)
(* after the address of its host is looked up, because other requests run  *)
(* while it waits; from then on it holds one of its host's slots until the *)
(* socket to the site closes.  Bytes are counted as they pass, but for the *)
(* head of a request, or of an answer, which passes uncounted.             *)
(***************************************************************************)
EXTENDS Naturals, FiniteSets

CONSTANTS
    Conns,       \* the connections the sandbox makes, each used for one request
    Hosts,       \* the sites they go to
    HostOf,      \* the site of each connection
    Kinds,       \* "http" (an absolute URL) or "connect" (a tunnel)
    Budget,      \* budgetDownBytes, budgetUpBytes (one number for both here)
    Chunk,       \* the bytes one data event carries, at most
    Burst,       \* tokens of each bucket when it is full
    PerHost,     \* maxConnectionsPerHost
    MaxOpen      \* maxConnections of the proxy

VARIABLES
    conn,     \* each connection: its kind, how far it is, its two ends, whether its slot was given back
    active,   \* hosts.get(h).active
    tokens,   \* the session's bucket and each host's
    bytes,    \* what was counted in each direction
    spent,    \* the budget is spent ("no" / "yes")
    heads     \* the uncounted heads: "waits", "passed", or "late" when the budget was spent before

pvars == <<conn, active, tokens, bytes, spent, heads>>

Directions == {"down", "up"}
NoConn == [kind |-> "http", at |-> "new", client |-> "there", released |-> "no"]

InitProxy ==
    /\ conn = [c \in Conns |-> NoConn]
    /\ active = [h \in Hosts |-> 0]
    /\ tokens = [b \in Hosts \cup {"session"} |-> Burst]
    /\ bytes = [d \in Directions |-> 0]
    /\ spent = "no"
    /\ heads = [x \in Conns \X Directions |-> "waits"]

(* The connections that hold a slot of their host.                           *)
Holding == {"dialing", "open"}

Goes(c, at) == conn' = [conn EXCEPT ![c].at = at]

(* onConnection counts the sockets that are open; then the first decision:   *)
(* the session's budget, the request line.                                   *)
Sockets == {c \in Conns : conn[c].at # "new" /\ conn[c].client = "there" /\ conn[c].at # "refused"}

Request(c, kind, wellFormed) ==
    /\ conn[c].at = "new"
    /\ conn' = [conn EXCEPT ![c].kind = kind,
                 ![c].at = IF Cardinality(Sockets) < MaxOpen /\ spent = "no" /\ wellFormed THEN "checking" ELSE "refused"]
    /\ UNCHANGED <<active, tokens, bytes, spent, heads>>

(* check: the port, the name, and every address the name resolves to.        *)
NotAllowed(c) ==
    /\ conn[c].at = "checking"
    /\ Goes(c, "refused")
    /\ UNCHANGED <<active, tokens, bytes, spent, heads>>

(* The second decision, in one step after the lookup: the budget again, a    *)
(* token of the session's bucket, then one of the host's, then the host's    *)
(* open connections.                                                         *)
SpentAtFirst == "no"

SpentByNow == spent

Takes(b) == tokens[b] >= 1
Taken(h) ==
    IF ~Takes("session") THEN tokens
    ELSE IF ~Takes(h) THEN [tokens EXCEPT !["session"] = @ - 1]
    ELSE [tokens EXCEPT !["session"] = @ - 1, ![h] = @ - 1]

Allowed(c) ==
    /\ conn[c].at = "checking"
    /\ LET h == HostOf[c] IN
        IF SpentByNow = "yes"
        THEN Goes(c, "refused") /\ UNCHANGED <<active, tokens>>
        ELSE /\ tokens' = Taken(h)
             /\ IF Takes("session") /\ Takes(h) /\ active[h] < PerHost
                THEN Goes(c, "dialing") /\ active' = [active EXCEPT ![h] = @ + 1]
                ELSE Goes(c, "refused") /\ UNCHANGED active
    /\ UNCHANGED <<bytes, spent, heads>>

Refill(b) ==
    /\ tokens[b] < Burst
    /\ tokens' = [tokens EXCEPT ![b] = @ + 1]
    /\ UNCHANGED <<conn, active, bytes, spent, heads>>

(* release: once, whichever of the events of the socket's end comes first.   *)
ReleasedAgain(c) == [active EXCEPT ![HostOf[c]] = IF @ > 0 THEN @ - 1 ELSE 0]

Released(c) ==
    IF conn[c].released = "no" THEN [active EXCEPT ![HostOf[c]] = IF @ > 0 THEN @ - 1 ELSE 0] ELSE active

LetGo(c, at) ==
    /\ conn' = [conn EXCEPT ![c].at = at, ![c].released = "yes",
                            ![c].client = IF conn[c].kind = "connect" \/ at = "closed" THEN "gone" ELSE @]
    /\ active' = Released(c)

(* A head passes whether the budget is spent by now or not: what a client    *)
(* sent along with its CONNECT as soon as the tunnel stands, a request's     *)
(* with its first piece of body or at its end, an answer's when it arrives.  *)
Passes(c, d) == heads' = [heads EXCEPT ![<<c, d>>] = IF spent = "yes" THEN "late" ELSE "passed"]

Connected(c) ==
    /\ conn[c].at = "dialing"
    /\ Goes(c, "open")
    /\ UNCHANGED heads \/ (conn[c].kind = "connect" /\ Passes(c, "up"))
    /\ UNCHANGED <<active, tokens, bytes, spent>>

Head(c, d) ==
    /\ conn[c].at = "open" /\ conn[c].kind = "http"
    /\ heads[<<c, d>>] = "waits"
    /\ d = "down" => conn[c].client = "there"
    /\ Passes(c, d)
    /\ UNCHANGED <<conn, active, tokens, bytes, spent>>

(* The site does not answer, or breaks off: its error event, then its close. *)
UpstreamError(c) ==
    /\ conn[c].at \in {"dialing", "open"}
    /\ LetGo(c, "closing")
    /\ UNCHANGED <<tokens, bytes, spent, heads>>

UpstreamClose(c) ==
    /\ conn[c].at \in {"closing", "open"}
    /\ LetGo(c, "closed")
    /\ UNCHANGED <<tokens, bytes, spent, heads>>

(* account: what still fits passes; the byte that does not spends the budget *)
(* and cuts this connection.  The bytes of an HTTP answer nobody reads any   *)
(* more are not counted; those of an HTTP request's body are as soon as they *)
(* come, while its site is still being dialled too.                          *)
Least(a, b) == IF a < b THEN a ELSE b
Fits(d, n) == IF spent = "yes" THEN 0 ELSE Least(n, Budget - bytes[d])

Data(c, d, n) ==
    /\ IF conn[c].kind = "http" /\ d = "up" THEN conn[c].at \in Holding ELSE conn[c].at = "open"
    /\ conn[c].client = "there" \/ (conn[c].kind = "connect" /\ d = "down")
    /\ conn[c].kind = "http" /\ d = "down" => heads[<<c, d>>] # "waits"
    /\ bytes' = [bytes EXCEPT ![d] = @ + Fits(d, n)]
    /\ spent' = IF Fits(d, n) < n THEN "yes" ELSE spent
    /\ IF Fits(d, n) < n THEN LetGo(c, "closing") ELSE UNCHANGED <<conn, active>>
    /\ IF Fits(d, n) = n /\ conn[c].at = "open" /\ heads[<<c, d>>] = "waits" THEN Passes(c, d) ELSE UNCHANGED heads
    /\ UNCHANGED tokens

(* The sandbox's end goes away, or is idle for idleMs.  A tunnel's close     *)
(* listener is set only once the tunnel is dialled: a client that leaves     *)
(* while its host is looked up is not noticed.  An HTTP request goes on to   *)
(* its site, whose own idle time ends it.                                    *)
ClientLeaves(c) ==
    /\ conn[c].at \in {"checking", "dialing", "open"}
    /\ conn[c].client = "there"
    /\ IF conn[c].kind = "connect" /\ conn[c].at # "checking"
       THEN LetGo(c, "closing")
       ELSE conn' = [conn EXCEPT ![c].client = "gone"] /\ UNCHANGED active
    /\ UNCHANGED <<tokens, bytes, spent, heads>>

UpstreamTimeout(c) ==
    /\ conn[c].at = "dialing" \/ (conn[c].at = "open" /\ conn[c].kind = "http")
    /\ LetGo(c, "closing")
    /\ UNCHANGED <<tokens, bytes, spent, heads>>

StepOf(c) ==
    \/ \E k \in Kinds, ok \in BOOLEAN : Request(c, k, ok)
    \/ NotAllowed(c) \/ Allowed(c) \/ Connected(c) \/ UpstreamError(c) \/ UpstreamClose(c)
    \/ \E d \in Directions : Head(c, d) \/ \E n \in 1..Chunk : Data(c, d, n)
    \/ ClientLeaves(c) \/ UpstreamTimeout(c)

NextProxy == (\E c \in Conns : StepOf(c)) \/ (\E b \in DOMAIN tokens : Refill(b))

Spec == InitProxy /\ [][NextProxy]_pvars

-----------------------------------------------------------------------------

(* Once the session's budget is spent no byte is counted any more and no     *)
(* connection is opened, one whose host was being looked up at that moment   *)
(* included.  What may still pass is a head, of a connection that had its    *)
(* slot before (egress-proxy.js writes heads without account).               *)
SpentIsSpent ==
    [][spent = "yes" => /\ bytes' = bytes
                        /\ \A c \in Conns : conn[c].at = "checking" => (conn')[c].at \in {"checking", "refused"}
                        /\ \A c \in Conns, d \in Directions :
                              (heads')[<<c, d>>] # heads[<<c, d>>] => conn[c].at \in Holding]_pvars

(* What the budget does not stop is bounded: over the session's whole life   *)
(* after it, a site sees (or answers with) the heads of at most as many      *)
(* connections as it may have slots.                                         *)
Late(h) == {c \in Conns : HostOf[c] = h /\ \E d \in Directions : heads[<<c, d>>] = "late"}

LateHeadsAreFew == \A h \in Hosts : Cardinality(Late(h)) <= PerHost

Held(h) == {c \in Conns : HostOf[c] = h /\ conn[c].at \in Holding}

(* A host's count is the connections to it that still hold their slot, and   *)
(* never more than the limit: a connection that ends in two events gives its *)
(* slot back once.                                                           *)
SlotsAreCounted ==
    \A h \in Hosts :
        /\ active[h] = Cardinality(Held(h))
        /\ active[h] <= PerHost

(* A connection its client left gives its slot back (repository: "at most 8  *)
(* open at once ... a CONNECT tunnel or an HTTP request in flight").         *)
LeftIsReleased == \A c \in Conns : conn[c].client = "gone" ~> conn[c].at \in {"closed", "closing", "refused"}
=============================================================================
