---------------------------- MODULE SandboxWorker ----------------------------
(***************************************************************************)
(* The chat plays sandbox worker: sandbox/worker.js opens sessions and     *)
(* serves them on a Unix socket, sandbox/session.js makes one bubblewrap   *)
(* sandbox and wipes it, sandbox/supervisor.js runs inside and answers     *)
(* requests line by line.  Nothing from inside is trusted to answer: no    *)
(* fairness is given to the supervisor or the browser, only to the         *)
(* worker's own timers and to the continuations of its promises.           *)
(*                                                                         *)
(* One JavaScript thread runs the worker, so a handler up to its next      *)
(* `await` is one step; the crash of the worker may come between any two.  *)
(***************************************************************************)
EXTENDS Naturals, FiniteSets

CONSTANTS
    Sessions,      \* the sandboxes opened over a run (a session's id is never used again)
    Commands,      \* requests for the terminal or the editor, each made once
    Pages,         \* requests to open a page in the browser, each made once
    MaxSessions,   \* CODES_SANDBOX_MAX_SESSIONS
    MaxCrashes,    \* bound: crashes and stops of the worker
    MaxStuck       \* bound: processes that outlive their SIGKILL for longer than the wipe waits, removals that fail

VARIABLES
    worker,   \* the process: up, its last self-test, how often it went down, what got stuck so far
    box,      \* each sandbox: openSession's progress, sbx.state, the wipe's progress, what exists on the host
    req       \* each request on the socket: its sandbox, how far it is, the page whose DevTools client it calls

vars == <<worker, box, req>>

Reqs == Commands \cup Pages
NoBox == [open |-> "none", st |-> "unborn", wipe |-> "no", on |-> {}, cdp |-> "none",
          known |-> "no",     \* _pidns: where the wipe looks for processes that are left
          outlived |-> "no",  \* the wipe reported some
          said |-> "no"]      \* the log has the error of a directory that could not be removed
NoReq == [at |-> "idle", box |-> "none", cdp |-> "none"]

Init ==
    /\ worker = [up |-> "down", test |-> "none", ends |-> 0, stuck |-> 0]
    /\ box = [s \in Sessions |-> NoBox]
    /\ req = [r \in Reqs |-> NoReq]

Up == worker.up # "down"
ReqsOf(s) == {r \in Reqs : req[r].box = s}
Open == {"start", "command", "version", "page", "spin"}
Done(rs) == [r \in Reqs |-> IF r \in rs THEN [req[r] EXCEPT !.at = "done"] ELSE req[r]]

(* openPage's loop calls this._cdp.call in a try whose catch only looks at   *)
(* the clock.  Once the browser is gone this._cdp is null, the call throws   *)
(* before anything is awaited, and the loop keeps the worker's only thread   *)
(* until its 15 seconds are over.                                            *)
Free == Up /\ \A r \in Reqs : req[r].at # "spin"

(* Closing the sandbox's client ends the calls made through it; the calls of *)
(* a client that another first page replaced are not in it.                  *)
CdpClosed(s) ==
    [r \in Reqs |-> IF r \notin ReqsOf(s) \/ req[r].cdp # box[s].cdp THEN req[r]
                    ELSE CASE req[r].at = "page" -> [req[r] EXCEPT !.at = "done"]
                           [] req[r].at = "version" -> [req[r] EXCEPT !.at = "spin"]
                           [] OTHER -> req[r]]

SpinEnds(r) ==
    /\ Up
    /\ req[r].at = "spin"
    /\ req' = Done({r})
    /\ UNCHANGED <<worker, box>>

-----------------------------------------------------------------------------
(* The worker's own life *)

(* start: the directories an earlier life left are removed, its cgroups too  *)
(* unless they still hold a process; then the first self-test.               *)
UnsweptDirs(b) == [b EXCEPT !.on = @ \ (IF "procs" \in @ THEN {} ELSE {"cgroup"})]

Swept(b) == [b EXCEPT !.on = @ \ (IF "procs" \in @ THEN {"dir"} ELSE {"dir", "cgroup"})]

Start(test) ==
    /\ worker.up = "down"
    /\ worker' = [worker EXCEPT !.up = "up", !.test = test]
    /\ box' = [s \in Sessions |-> Swept(box[s])]
    /\ UNCHANGED req

SelfTest(test) ==
    /\ Free
    /\ worker.up = "up"
    /\ worker' = [worker EXCEPT !.test = test]
    /\ UNCHANGED <<box, req>>

(* The process ends: bubblewrap dies with its parent, as soon as the kernel  *)
(* gets to it; the proxies and every open connection are gone at once.       *)
Orphaned(b) ==
    IF b.open = "none" THEN b
    ELSE [b EXCEPT !.open = "dead", !.on = @ \ {"proxy"}, !.cdp = "none"]

Ends ==
    /\ worker' = [worker EXCEPT !.up = "down", !.test = "none", !.ends = @ + 1]
    /\ box' = [s \in Sessions |-> Orphaned(box[s])]
    /\ req' = Done({r \in Reqs : req[r].at \in Open})

Crash ==
    /\ Up
    /\ worker.ends < MaxCrashes
    /\ Ends

Reaped(s) ==
    /\ box[s].open = "dead" \/ box[s].wipe # "no"
    /\ "procs" \in box[s].on
    /\ box' = [box EXCEPT ![s].on = @ \ {"procs"}]
    /\ UNCHANGED <<worker, req>>

-----------------------------------------------------------------------------
(* The wipe *)

(* wipe: the first call of several, whoever makes it, up to its first await. *)
WipeBegun(b) == [b EXCEPT !.st = "wiping", !.wipe = "kill", !.cdp = "none"]

Wipe(s) ==
    /\ box[s].st = "running"
    /\ box' = [box EXCEPT ![s] = WipeBegun(box[s])]
    /\ req' = CdpClosed(s)

(* Wipe now and DELETE /sessions/:id; a frame too long for the protocol.     *)
WipeNow(s) ==
    /\ Free
    /\ box[s].open = "listed"
    /\ Wipe(s)
    /\ UNCHANGED worker

Protocol(s) ==
    /\ Free
    /\ box[s].open \in {"making", "listed"}
    /\ "procs" \in box[s].on
    /\ Wipe(s)
    /\ UNCHANGED worker

TimeBoxEnds(s) ==
    /\ Free
    /\ box[s].open = "listed"
    /\ Wipe(s)
    /\ UNCHANGED worker

(* bubblewrap exits on its own: out of memory, or the supervisor ended.      *)
ChildExits(s) ==
    /\ Free
    /\ box[s].open \in {"making", "listed"}
    /\ box[s].st = "running"
    /\ box' = [box EXCEPT ![s] = [WipeBegun(box[s]) EXCEPT
                !.on = @ \ {"procs"}, !.open = IF @ = "making" THEN "failed" ELSE @]]
    /\ req' = CdpClosed(s)
    /\ UNCHANGED worker

(* The processes are gone, or were waited for in vain: every request still   *)
(* open on the sandbox is refused.  Processes that are left are looked for,  *)
(* and reported, only where the sandbox's pid namespace is known.            *)
RejectedCommandsOnly(s) == {r \in ReqsOf(s) : req[r].at = "command"}

Rejected(s) == {r \in ReqsOf(s) : req[r].at \in {"start", "command"}}

Stuck(n) ==
    /\ worker.stuck + n <= MaxStuck
    /\ worker' = [worker EXCEPT !.stuck = @ + n]

WipeGoesOn(s, stray) ==
    /\ Free
    /\ box[s].open # "dead"
    /\ box[s].wipe = "kill"
    /\ ("procs" \in box[s].on) = (stray = 1)
    /\ Stuck(stray)
    /\ box' = [box EXCEPT ![s].wipe = "clean", ![s].open = IF @ = "making" THEN "failed" ELSE @,
                          ![s].outlived = IF stray = 1 /\ box[s].known = "yes" THEN "yes" ELSE @]
    /\ req' = Done(Rejected(s))

(* cleanup: the proxy, the cgroup once it is empty, the session's directory. *)
(* What cannot be removed stays; only the directory's error is written down, *)
(* and the sandbox is wiped all the same.                                    *)
Stays(b, fails) == b.on \cap (fails \cup IF "procs" \in b.on THEN {"procs", "cgroup"} ELSE {})

CleanedUp(b, fails) ==
    [b EXCEPT !.st = "wiped", !.wipe = "done", !.on = Stays(b, fails), !.said = IF "dir" \in fails THEN "yes" ELSE @]

Cleanup(s, fails) ==
    /\ Free
    /\ box[s].open # "dead"
    /\ box[s].wipe = "clean"
    /\ Stuck(Cardinality(fails))
    /\ box' = [box EXCEPT ![s] = CleanedUp(box[s], fails)]
    /\ UNCHANGED req

(* A minute after the end the session leaves the worker's map.               *)
Drop(s) ==
    /\ Free
    /\ box[s].open = "listed" /\ box[s].st = "wiped"
    /\ box' = [box EXCEPT ![s].open = "dropped"]
    /\ UNCHANGED <<worker, req>>

-----------------------------------------------------------------------------
(* Opening a session *)

Running == {s \in Sessions : box[s].open = "listed" /\ box[s].st = "running"}

(* POST /sessions up to the proxy's listen: ready, room, then the directory. *)
OpenSession(s) ==
    /\ Free
    /\ worker.up = "up"
    /\ worker.test = "ok"
    /\ Cardinality(Running) < MaxSessions
    /\ box[s].open = "none"
    /\ box' = [box EXCEPT ![s].open = "making", ![s].on = {"dir"}]
    /\ UNCHANGED <<worker, req>>

(* The filter, the cgroup, bubblewrap; or one of them failed and what was    *)
(* made is cleaned up.                                                       *)
Spawned(s) ==
    /\ Free
    /\ box[s].open = "making" /\ box[s].st = "unborn"
    /\ box' = [box EXCEPT ![s].st = "running", ![s].on = {"dir", "proxy", "cgroup", "procs"}]
    /\ UNCHANGED <<worker, req>>

NotSpawned(s, fails) ==
    /\ Free
    /\ box[s].open = "making" /\ box[s].st = "unborn"
    /\ Stuck(Cardinality(fails))
    /\ box' = [box EXCEPT ![s].open = "failed", ![s].on = fails]
    /\ UNCHANGED req

(* The supervisor's first line: the session is in the map from here on, its  *)
(* pid namespace known when /proc still has bubblewrap's child.              *)
Ready(s, known) ==
    /\ Free
    /\ box[s].open = "making" /\ box[s].st \in {"running", "wiping"}
    /\ "procs" \in box[s].on
    /\ box' = [box EXCEPT ![s].open = "listed", ![s].known = known]
    /\ UNCHANGED <<worker, req>>

(* READY_MS without it.                                                      *)
NotReady(s) ==
    /\ Free
    /\ box[s].open = "making" /\ box[s].st = "running"
    /\ box' = [box EXCEPT ![s] = [WipeBegun(box[s]) EXCEPT !.open = "failed"]]
    /\ UNCHANGED <<worker, req>>

(* stop: every session in the map is wiped; the server closes once its last  *)
(* connection is answered, one that still opens a session included.          *)
Stop ==
    /\ Free
    /\ worker.up = "up"
    /\ worker.ends < MaxCrashes
    /\ worker' = [worker EXCEPT !.up = "stopping"]
    /\ box' = [s \in Sessions |-> IF s \in Running THEN WipeBegun(box[s]) ELSE box[s]]
    /\ req' = [r \in Reqs |-> IF req[r].box \in Running THEN CdpClosed(req[r].box)[r] ELSE req[r]]

Stopped ==
    /\ worker.up = "stopping"
    /\ \A s \in Sessions : box[s].open # "making" /\ (box[s].wipe \in {"no", "done"} \/ box[s].open # "listed")
    /\ \A r \in Reqs : req[r].at \notin Open
    /\ Ends

-----------------------------------------------------------------------------
(* Requests on a session *)

Asks(r, s, at) == req' = [req EXCEPT ![r] = [at |-> at, box |-> s, cdp |-> box[s].cdp]]

(* exec, write, read, list: refused at once unless the sandbox runs.         *)
Ask(r, s) ==
    /\ Free
    /\ worker.up = "up"
    /\ req[r].at = "idle"
    /\ box[s].open = "listed"
    /\ Asks(r, s, IF box[s].st = "running" THEN "command" ELSE "done")
    /\ UNCHANGED <<worker, box>>

(* A frame reaches the worker only from a process that is still there.       *)
Hears(r, at) == Free /\ req[r].at = at /\ box[req[r].box].open # "dead" /\ "procs" \in box[req[r].box].on

(* The supervisor's exec: the command ended, was not found, or ran out of    *)
(* its time and was killed with its group; its file operations, in the       *)
(* workspace only.  Either way one last frame carries the request's id.      *)
Answer(r) ==
    /\ Hears(r, "command")
    /\ req' = Done({r})
    /\ UNCHANGED <<worker, box>>

(* openPage: the browser is started by a page that finds no client, and each *)
(* that found none makes one: the last one made is the sandbox's, and what   *)
(* the browser says reaches that one alone.                                  *)
AskPage(r, s) ==
    /\ Free
    /\ worker.up = "up"
    /\ req[r].at = "idle"
    /\ box[s].open = "listed"
    /\ Asks(r, s, IF box[s].cdp # "none" THEN "page" ELSE IF box[s].st = "running" THEN "start" ELSE "done")
    /\ UNCHANGED <<worker, box>>

BrowserStarts(r) ==
    /\ Hears(r, "start")
    /\ box' = [box EXCEPT ![req[r].box].cdp = r]
    /\ req' = [req EXCEPT ![r].at = "version", ![r].cdp = r]
    /\ UNCHANGED worker

NoBrowser(r) ==
    /\ Hears(r, "start")
    /\ req' = Done({r})
    /\ UNCHANGED <<worker, box>>

(* The browser tells its version within 15 seconds, asked every two through  *)
(* the client the sandbox has by then, or the page fails.                    *)
Current(r) == req[r].cdp = box[req[r].box].cdp

Version(r) ==
    /\ Hears(r, "version") /\ Current(r)
    /\ req' = [req EXCEPT ![r].at = "page"]
    /\ UNCHANGED <<worker, box>>

AsksAgain(r) ==
    /\ Free
    /\ req[r].at = "version" /\ ~Current(r)
    /\ req' = [req EXCEPT ![r].cdp = box[req[r].box].cdp,
                          ![r].at = IF box[req[r].box].cdp = "none" THEN "spin" ELSE @]
    /\ UNCHANGED <<worker, box>>

NoVersion(r) ==
    /\ Free
    /\ req[r].at = "version"
    /\ req' = Done({r})
    /\ UNCHANGED <<worker, box>>

(* The page's calls over the DevTools pipe: each waits for its own answer,   *)
(* which a client that was replaced does not get.                            *)
PageShown(r) ==
    /\ Hears(r, "page") /\ Current(r)
    /\ req' = Done({r})
    /\ UNCHANGED <<worker, box>>

(* The browser exits: the supervisor says so and the client is closed.       *)
BrowserExits(s) ==
    /\ Free
    /\ box[s].cdp # "none" /\ "procs" \in box[s].on
    /\ box' = [box EXCEPT ![s].cdp = "none"]
    /\ req' = CdpClosed(s)
    /\ UNCHANGED worker

-----------------------------------------------------------------------------

Next ==
    \/ \E t \in {"ok", "failed"} : Start(t) \/ SelfTest(t)
    \/ Crash \/ Stop \/ Stopped
    \/ \E s \in Sessions :
        \/ OpenSession(s) \/ Spawned(s) \/ NotReady(s)
        \/ \E known \in {"yes", "no"} : Ready(s, known)
        \/ \E fails \in SUBSET {"dir", "cgroup"} : NotSpawned(s, fails) \/ Cleanup(s, fails)
        \/ WipeNow(s) \/ Protocol(s) \/ TimeBoxEnds(s) \/ ChildExits(s)
        \/ WipeGoesOn(s, 0) \/ WipeGoesOn(s, 1) \/ Drop(s) \/ Reaped(s)
        \/ BrowserExits(s)
        \/ \E r \in Commands : Ask(r, s)
        \/ \E r \in Pages : AskPage(r, s)
    \/ \E r \in Commands : Answer(r)
    \/ \E r \in Pages :
        BrowserStarts(r) \/ NoBrowser(r) \/ Version(r) \/ AsksAgain(r) \/ NoVersion(r) \/ PageShown(r) \/ SpinEnds(r)

(* What the worker's timers and promises, and the kernel, do by themselves.  *)
Fair(s) == TimeBoxEnds(s) \/ WipeGoesOn(s, 0) \/ Reaped(s)
FairRequest(r) == SpinEnds(r) \/ NoVersion(r)

Spec ==
    /\ Init /\ [][Next]_vars
    /\ \A s \in Sessions : WF_vars(Fair(s))
    /\ \A r \in Pages : WF_vars(FairRequest(r))

-----------------------------------------------------------------------------

TypeOK ==
    /\ worker \in [up : {"down", "up", "stopping"}, test : {"none", "ok", "failed"},
                   ends : 0..MaxCrashes, stuck : 0..MaxStuck]
    /\ box \in [Sessions -> [open : {"none", "making", "listed", "failed", "dropped", "dead"},
                             st : {"unborn", "running", "wiping", "wiped"},
                             wipe : {"no", "kill", "clean", "done"},
                             on : SUBSET {"dir", "proxy", "cgroup", "procs"},
                             cdp : Pages \cup {"none"}, known : {"no", "yes"},
                             outlived : {"no", "yes"}, said : {"no", "yes"}]]
    /\ req \in [Reqs -> [at : {"idle", "done"} \cup Open, box : Sessions \cup {"none"}, cdp : Pages \cup {"none"}]]

(* What a wipe leaves: never the sandbox's way out; a process only where the *)
(* wipe reported it or could not look for it, and then still inside its      *)
(* limits; the directory only where its error was written down.  And a       *)
(* worker that runs has no directory of a sandbox that died with an earlier  *)
(* one.                                                                      *)
WipeLeavesLittle ==
    \A s \in Sessions :
        /\ box[s].st = "wiped" =>
            /\ "proxy" \notin box[s].on
            /\ "procs" \in box[s].on => "cgroup" \in box[s].on /\ (box[s].outlived = "yes" \/ box[s].known = "no")
            /\ "dir" \in box[s].on => box[s].said = "yes"
        /\ Up /\ box[s].open = "dead" => "dir" \notin box[s].on

(* "Nothing of the sandbox is kept on the host" (session.js:27), unless the  *)
(* wipe said so; an empty cgroup aside.                                      *)
NothingIsKept ==
    \A s \in Sessions :
        box[s].st = "wiped" /\ box[s].outlived = "no" /\ box[s].said = "no" => box[s].on \subseteq {"cgroup"}

(* A page whose calls no answer and no close reaches: its client was         *)
(* replaced by another first page's, or made when the wipe had closed the    *)
(* one before.                                                               *)
Stranded(r) == r \in Pages /\ req[r].at = "page" /\ (~Current(r) \/ box[req[r].box].st # "running")

(* Every request on the worker's socket is answered, whatever happens inside *)
(* the sandbox: by a frame, by the wipe, or at the latest by the time box;   *)
(* but for a page that two first pages at once, or a wipe under a start, cut *)
(* off from the browser.                                                     *)
RequestsAreAnswered == \A r \in Reqs : req[r].at \in Open ~> req[r].at = "done" \/ Stranded(r)

(* The worker never runs more sandboxes than its capacity.                   *)
RoomIsKept == Cardinality(Running) <= MaxSessions
=============================================================================
