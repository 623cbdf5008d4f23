------------------------------ MODULE MemoryDesk ------------------------------
(***************************************************************************)
(* The forms of the Memory page (server/http/memory.js), the client of the *)
(* memory store (server/domain/memory.js) and the signed-in call they all  *)
(* go through: asViewer, refreshSession and the session middleware of      *)
(* server/auth/sso.js.                                                     *)
(*                                                                         *)
(* A form is one call to the store at OpenVibe.AI with the person's token. *)
(* The token may expire on the way, the call or its answer may be lost,    *)
(* and several tabs post at once with the cookies they were sent with.     *)
(***************************************************************************)
EXTENDS Naturals, FiniteSets

CONSTANTS
    Posts,
    MaxExpiries,   \* bound: sessions that expire
    MaxLost        \* bound: calls without an answer

NoteForms == {"edit", "archive", "split", "delete", "accept", "decline", "settle", "remove"}
DraftForms == {"preview", "commit", "discard"}
ServiceForms == {"connect", "sync", "disconnect"}
Forms == NoteForms \cup DraftForms \cup ServiceForms \cup {"import"}

VARIABLES
    jar,        \* the browser's cookies: the access token, the refresh token at / and at /auth
    network,    \* OpenVibe.Network: the access tokens that are good, the refresh token that is
    memory,     \* OpenVibe.AI: a note, an import's draft, a memory service
    post,       \* the form posts
    applied,    \* how often the store carried each of them out
    expiries, unanswered

mvars == <<jar, network, memory, post, applied, expiries, unanswered>>

Unsent == [pc |-> "none", form |-> "none", token |-> 0, refresh |-> 0, fresh |-> "no",
           again |-> "no", says |-> "none"]

(* A session from the site's earlier cookies, or from the SDK's.            *)
InitMemory ==
    /\ jar \in {[access |-> 1, root |-> 1, auth |-> 0], [access |-> 1, root |-> 0, auth |-> 1]}
    /\ network = [good |-> {1}, refresh |-> 1]
    /\ memory = [note |-> "suggested", draft |-> "none", service |-> "none"]
    /\ post = [p \in Posts |-> Unsent]
    /\ applied = [p \in Posts |-> 0]
    /\ expiries = 0
    /\ unanswered = 0

Expires ==
    /\ expiries < MaxExpiries
    /\ expiries' = expiries + 1
    /\ network.good # {}
    /\ network' = [network EXCEPT !.good = {}]
    /\ UNCHANGED <<jar, memory, post, applied, unanswered>>

(* A post arrives with the cookies of its path: the one at /auth stays      *)
(* behind.  The middleware takes a token that verifies, or refreshes.       *)
Send(p, form) ==
    /\ post[p].pc = "none"
    /\ post' = [post EXCEPT ![p] = [Unsent EXCEPT
           !.pc = IF jar.access \in network.good THEN "check" ELSE "session",
           !.form = form, !.token = jar.access, !.refresh = jar.root]]
    /\ UNCHANGED <<jar, network, memory, applied, expiries, unanswered>>

Is(p, pc) == post[p].pc = pc
Answers(p, says) == post' = [post EXCEPT ![p].pc = "answer", ![p].says = says]

(* refreshSession: Network rotates the refresh token; one that was used, or *)
(* none, refreshes nothing.                                                 *)
Refreshable(p) == post[p].refresh # 0 /\ post[p].refresh = network.refresh

Refreshed(p, then) ==
    /\ Refreshable(p)
    /\ network' = [good |-> network.good \cup {network.refresh + 1}, refresh |-> network.refresh + 1]
    /\ post' = [post EXCEPT ![p].pc = then, ![p].token = network'.refresh, ![p].fresh = "yes"]

NotRefreshed(p) ==
    /\ \/ ~Refreshable(p) /\ UNCHANGED <<network, unanswered>>
       \/ /\ Refreshable(p) /\ unanswered < MaxLost
          /\ unanswered' = unanswered + 1
          /\ \/ UNCHANGED network
             \/ network' = [network EXCEPT !.refresh = @ + 1]
    /\ Answers(p, "signin")

(* middleware: no session is left; the page asks to sign in.                *)
Session(p) ==
    /\ Is(p, "session")
    /\ \/ Refreshed(p, "check") /\ UNCHANGED unanswered
       \/ NotRefreshed(p)
    /\ UNCHANGED <<jar, memory, applied, expiries>>

(* The ids and texts of the form are checked before anything is called.     *)
Check(p) ==
    /\ Is(p, "check")
    /\ \/ post' = [post EXCEPT ![p].pc = "call"]
       \/ Answers(p, "refused")
    /\ UNCHANGED <<jar, network, memory, applied, expiries, unanswered>>

(* The store: what each form asks it for, and what it refuses.              *)
Accepted(form) ==
    /\ form \in NoteForms => memory.note # "gone"
    /\ form \in {"commit", "discard"} => memory.draft = "open"
    /\ form \in {"sync", "disconnect"} => memory.service = "on"

Stored(form) ==
    CASE form \in {"accept", "split", "settle"} -> [memory EXCEPT !.note = "active"]
      [] form \in {"archive", "decline"} -> [memory EXCEPT !.note = "archived"]
      [] form \in {"delete", "remove"} -> [memory EXCEPT !.note = "gone"]
      [] form = "preview" -> [memory EXCEPT !.draft = "open"]
      [] form = "commit" -> [memory EXCEPT !.draft = "none", !.note = "active"]
      [] form = "discard" -> [memory EXCEPT !.draft = "none"]
      [] form = "connect" -> [memory EXCEPT !.service = "on"]
      [] form = "disconnect" -> [memory EXCEPT !.service = "none"]
      [] form \in {"sync", "import"} -> [memory EXCEPT !.note = "active"]
      [] OTHER -> memory

CarriedOut(p) ==
    /\ post[p].token \in network.good /\ Accepted(post[p].form)
    /\ memory' = Stored(post[p].form)
    /\ applied' = [applied EXCEPT ![p] = @ + 1]

Done(p) ==
    /\ Is(p, "call")
    /\ CarriedOut(p)
    /\ Answers(p, "done")
    /\ UNCHANGED <<jar, network, expiries, unanswered>>

Refused(p) ==
    /\ Is(p, "call")
    /\ post[p].token \in network.good /\ ~Accepted(post[p].form)
    /\ Answers(p, "refused")
    /\ UNCHANGED <<jar, network, memory, applied, expiries, unanswered>>

(* asViewer: a 401 refreshes once and tries again; any other failure is     *)
(* the answer.  Mutant: any failure is tried again.                         *)
RetriesAny(p, status) == post[p].again = "no"
Retries(p, status) == status = 401 /\ post[p].again = "no"

Failed(p, status, says) ==
    IF Retries(p, status)
       THEN post' = [post EXCEPT ![p].pc = IF status = 401 THEN "refresh" ELSE "call", ![p].again = "yes"]
       ELSE Answers(p, says)

Unauthorized(p) ==
    /\ Is(p, "call")
    /\ post[p].token \notin network.good
    /\ Failed(p, 401, "signin")
    /\ UNCHANGED <<jar, network, memory, applied, expiries, unanswered>>

(* The call, or its answer, is lost: eight seconds later it is a 503.       *)
TimesOut(p) ==
    /\ Is(p, "call")
    /\ unanswered < MaxLost
    /\ unanswered' = unanswered + 1
    /\ \/ CarriedOut(p)
       \/ UNCHANGED <<memory, applied>>
    /\ Failed(p, 503, "unchanged")
    /\ UNCHANGED <<jar, network, expiries>>

Refresh(p) ==
    /\ Is(p, "refresh")
    /\ \/ Refreshed(p, "call") /\ UNCHANGED unanswered
       \/ NotRefreshed(p)
    /\ UNCHANGED <<jar, memory, applied, expiries>>

(* The answer, with the new session's cookies; the earlier ones are cleared.*)
Answer(p) ==
    /\ Is(p, "answer")
    /\ post' = [post EXCEPT ![p].pc = "over"]
    /\ jar' = IF post[p].fresh = "yes" THEN [access |-> post[p].token, root |-> 0, auth |-> post[p].token] ELSE jar
    /\ UNCHANGED <<network, memory, applied, expiries, unanswered>>

NextMemory ==
    \/ Expires
    \/ \E p \in Posts :
        \/ \E form \in Forms : Send(p, form)
        \/ Session(p) \/ Check(p) \/ Done(p) \/ Refused(p) \/ Unauthorized(p) \/ TimesOut(p)
        \/ Refresh(p) \/ Answer(p)

Spec == InitMemory /\ [][NextMemory]_mvars

-----------------------------------------------------------------------------

(* A form is carried out at most once, whatever expires or is lost on the   *)
(* way; one the page calls done was, and one it refused or asked to sign in *)
(* for was not (asViewer, withToken, call).                                 *)
AnswersAreTrue ==
    \A p \in Posts :
        /\ applied[p] <= 1
        /\ post[p].says = "done" => applied[p] = 1
        /\ post[p].says \in {"refused", "signin"} => applied[p] = 0

(* "a 401 refreshes the session once and tries again" (sso.js:184): a       *)
(* person whose refresh token is good is not asked to sign in.  Violated:   *)
(* the rotated cookie has the path /auth and does not come with a form.     *)
RefreshesOnce ==
    \A p \in Posts : post[p].pc = "answer" /\ post[p].says = "signin"
                        => jar.auth # network.refresh /\ jar.root # network.refresh

(* "Your memory could not be changed" (http/memory.js:114): violated when   *)
(* the answer is lost after the store carried the form out.                 *)
NotChangedIsNotChanged ==
    \A p \in Posts : post[p].says = "unchanged" => applied[p] = 0
==============================================================================
