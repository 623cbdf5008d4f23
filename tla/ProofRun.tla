------------------------------ MODULE ProofRun -------------------------------
(***************************************************************************)
(* The proof of one finished attempt (engine/proof.js collectProof with    *)
(* the adapters of harness/proof.js and engine/review.js): the tests the   *)
(* change reaches, the pages it touched at two widths, the diff, and a     *)
(* second model's opinion.  A static page is shot from its file; for the   *)
(* pages the app renders, the repository's own site is brought up and      *)
(* stopped again at each width.                                            *)
(***************************************************************************)
EXTENDS Naturals, Sequences, FiniteSets, FiniteSetsExt, SequencesExt

CONSTANTS
    Statics,      \* the HTML files a change may touch
    Routes,       \* the routes of the rendered pages
    Catalogs,     \* the models a machine may offer, as sequences of their families
    Families      \* the families of models; "none" for a name that says nothing

Widths == 1..2    \* 390, 1440
Kinds == {"tests", "screenshots", "diff", "review"}

VARIABLES
    change,  \* what is given: the pages touched, the browser, a site that is named
    proof,   \* where collectProof stands: its stage, the package, the width, the pages left, the page shots
    site,    \* for each width, the process group startSite brought up
    item,    \* the items said
    seen     \* history: what the tests, the pages and the reviewer really showed

pvars == <<change, proof, site, item, seen>>

(* The pages among the files git diff names, and what the machine has.       *)
Changes == [static : SUBSET Statics, rendered : BOOLEAN, browser : BOOLEAN, named : BOOLEAN]

(* A reviewer's reply: JSON whose verdict has a word of approval in it, or a  *)
(* word for changes only, or neither but a summary, or else its words.       *)
(* praise: a word of approval is somewhere in it; refuses: it asks for       *)
(* changes, whatever its words ("not approved" is a verdict of approval).    *)
Replies == [form : {"approval", "change", "summary", "words"}, praise : BOOLEAN, refuses : BOOLEAN]
NoReply == [form |-> "words", praise |-> FALSE, refuses |-> FALSE]

InitProof ==
    /\ change \in Changes
    /\ proof = [stage |-> "package", start |-> FALSE, test |-> "none", width |-> 1, left |-> {},
                shots |-> {}, skipped |-> {}, bad |-> {}]
    /\ site = [w \in Widths |-> "none"]
    /\ item = [k \in Kinds |-> "none"]
    /\ seen = [tests |-> "none", shot |-> {}, bad |-> {}, unlit |-> {},
               author |-> "none", reviewer |-> "none", reply |-> NoReply]

Say(kind, how) == item' = [item EXCEPT ![kind] = how]
At(stage) == proof.stage = stage
Goto(stage) == proof' = [proof EXCEPT !.stage = stage]

-----------------------------------------------------------------------------
(* The tests *)

(* The repository's package.json, when it is there, is JSON and was not cut: *)
(* its test command ("other": a Go, Python or Rust suite) and start script.  *)
ReadPackage ==
    /\ At("package")
    /\ \E test \in {"none", "script", "other"}, start \in BOOLEAN :
          proof' = [proof EXCEPT !.stage = "tests", !.test = test, !.start = start]
    /\ UNCHANGED <<change, site, item, seen>>

(* words: a changed file's name finds tests; shared: it is a file every test *)
(* shares; allowed: the owner lets the whole suite run.                      *)
TestPlan(test, words, shared, allowed) ==
    IF test = "none" THEN "none"
    ELSE IF test = "other" \/ (allowed /\ (shared \/ ~words)) THEN "full"
    ELSE IF words THEN "targeted" ELSE "none"

(* What a command comes to: a signal, a timeout or no such program is also   *)
(* nonzero; "nomatch" is nonzero with the runner's words for no test.        *)
Results == {"zero", "nonzero", "nomatch"}

(* A run that failed and says that no test matched is a skip.                *)
TestItem(result) ==
    CASE result = "zero" -> "passed"
      [] result = "nomatch" -> "skipped"
      [] OTHER -> "failed"

Tests ==
    /\ At("tests")
    /\ \E words, shared, allowed \in BOOLEAN :
          \/ /\ TestPlan(proof.test, words, shared, allowed) = "none"
             /\ Say("tests", "skipped")
             /\ UNCHANGED seen
          \/ /\ TestPlan(proof.test, words, shared, allowed) # "none"
             /\ \E result \in Results :
                   /\ Say("tests", TestItem(result))
                   /\ seen' = [seen EXCEPT !.tests = result]
    /\ Goto("pages")
    /\ UNCHANGED <<change, site>>

-----------------------------------------------------------------------------
(* The pages, at a phone's and at a desktop's width *)

PageFiles == change.static # {} \/ change.rendered
CanServe == change.named \/ proof.start
WantSite == CanServe /\ change.rendered

NoPages ==
    /\ At("pages")
    /\ ~PageFiles
    /\ Say("screenshots", "skipped")
    /\ Goto("diff")
    /\ UNCHANGED <<change, site, seen>>

(* The answer of the screenshot adapter at one width, and the next width.    *)
Answered(skipped, bad) ==
    proof' = [proof EXCEPT
        !.stage = IF proof.width = Max(Widths) THEN "judge" ELSE "pages",
        !.width = IF @ = Max(Widths) THEN @ ELSE @ + 1,
        !.left = {}, !.shots = {},
        !.skipped = IF skipped THEN @ \cup {proof.width} ELSE @,
        !.bad = IF bad THEN @ \cup {proof.width} ELSE @]

NothingToShoot == ~change.browser \/ (change.static = {} /\ ~WantSite)

Screenshot ==
    /\ At("pages") /\ PageFiles
    /\ IF NothingToShoot THEN Answered(TRUE, FALSE)
       ELSE proof' = [proof EXCEPT !.stage = "files", !.left = change.static]
    /\ UNCHANGED <<change, site, item, seen>>

(* The folder of the pictures cannot be made: collectProof throws, and the   *)
(* job's result has a proof without items or outcome.                        *)
NotCollected ==
    /\ At("pages") /\ PageFiles
    /\ ~NothingToShoot
    /\ Goto("thrown")
    /\ item' = [k \in Kinds |-> "none"]
    /\ UNCHANGED <<change, site, seen>>

(* shootPage of one page: clean, or too wide, throwing or not to be shot.    *)
Shot(page, looks) ==
    /\ proof' = [proof EXCEPT !.left = @ \ {page}, !.shots = @ \cup {looks}]
    /\ seen' = [seen EXCEPT !.shot = @ \cup {proof.width},
                            !.bad = IF looks = "bad" THEN @ \cup {proof.width} ELSE @]

(* A file the change deleted is passed over.                                 *)
ShootFile ==
    /\ At("files")
    /\ \E f \in proof.left :
          \/ \E looks \in {"clean", "bad"} : Shot(f, looks)
          \/ proof' = [proof EXCEPT !.left = @ \ {f}] /\ UNCHANGED seen
    /\ UNCHANGED <<change, site, item>>

(* The answer from the shots of this width.                                  *)
AnswerShots == Answered(proof.shots = {}, "bad" \in proof.shots)

FilesDone ==
    /\ At("files") /\ proof.left = {} /\ ~WantSite
    /\ AnswerShots
    /\ UNCHANGED <<change, site, item, seen>>

(* The site did not start: the step says so, whatever the files showed.      *)
Unlit ==
    /\ Answered(TRUE, FALSE)
    /\ seen' = [seen EXCEPT !.unlit = @ \cup {proof.width}]

(* Mutant: only a site that came up is stopped.                              *)
StoppedOnlyUp(state) == IF state = "up" THEN "signalled" ELSE state

(* SIGTERM to the site's group, once; nobody waits for it to go.             *)
Stopped(state) == IF state \in {"starting", "up"} THEN "signalled" ELSE state

Ours == site[proof.width]

FilesShot == At("files") /\ proof.left = {}

(* startSite: a site that is named is only waited for.                       *)
NamedSite ==
    /\ FilesShot /\ WantSite /\ change.named
    /\ Goto("wait")
    /\ UNCHANGED <<change, site, item, seen>>

(* Otherwise the start command is spawned in a process group of its own.     *)
StartSite ==
    /\ FilesShot /\ WantSite /\ ~change.named
    /\ Goto("wait")
    /\ site' = [site EXCEPT ![proof.width] = "starting"]
    /\ UNCHANGED <<change, item, seen>>

NoPort ==
    /\ FilesShot /\ WantSite /\ ~change.named
    /\ Unlit
    /\ UNCHANGED <<change, site, item>>

(* A command that is not there is an 'error' event nobody listens to: it     *)
(* ends the job's process.                                                   *)
NotSpawned ==
    /\ FilesShot /\ WantSite /\ ~change.named
    /\ Goto("crashed")
    /\ UNCHANGED <<change, site, item, seen>>

(* A site may exit at any time; one that was signalled may also stay.        *)
SiteExits ==
    /\ \E w \in Widths :
          /\ site[w] \in {"starting", "up", "signalled"}
          /\ site' = [site EXCEPT ![w] = "gone"]
    /\ UNCHANGED <<change, proof, item, seen>>

SiteAnswers ==
    /\ At("wait")
    /\ change.named \/ Ours = "starting"
    /\ proof' = [proof EXCEPT !.stage = "routes", !.left = Routes]
    /\ site' = IF change.named THEN site ELSE [site EXCEPT ![proof.width] = "up"]
    /\ UNCHANGED <<change, item, seen>>

(* waitForSite's 30 seconds are over: it is stopped and startSite throws.    *)
SiteSilent ==
    /\ At("wait")
    /\ Unlit
    /\ site' = [site EXCEPT ![proof.width] = Stopped(@)]
    /\ UNCHANGED <<change, item>>

(* A site that went away leaves a page that cannot be shot.                  *)
ShootRoute ==
    /\ At("routes")
    /\ \E r \in proof.left, looks \in {"clean", "bad"} :
          /\ ~change.named /\ Ours = "gone" => looks = "bad"
          /\ Shot(r, looks)
    /\ UNCHANGED <<change, site, item>>

(* finally: the site is stopped, and the shots are the answer.               *)
StopSite ==
    /\ At("routes") /\ proof.left = {}
    /\ AnswerShots
    /\ site' = [site EXCEPT ![proof.width] = Stopped(@)]
    /\ UNCHANGED <<change, item, seen>>

(* Mutant: pictures that were not taken are not told from good ones.         *)
PassedUnseen(made, bad) == IF bad # {} THEN "failed" ELSE "passed"

(* Of the widths that were shot, none may be bad.                            *)
PictureItem(made, bad) ==
    IF bad # {} THEN "failed" ELSE IF made = {} THEN "skipped" ELSE "passed"

Pictures ==
    /\ At("judge")
    /\ Say("screenshots", PictureItem(Widths \ proof.skipped, proof.bad))
    /\ Goto("diff")
    /\ UNCHANGED <<change, site, seen>>

DiffItem ==
    /\ At("diff")
    /\ Say("diff", "passed")
    /\ Goto("review")
    /\ UNCHANGED <<change, site, seen>>

-----------------------------------------------------------------------------
(* The second opinion *)

(* The family a name belongs to, the author's by its model or its harness.   *)
FamilyOf == Families \cup {"none"}
AuthorFamily == Families \cup {"none"}

(* The first model of a known family that is not the author's.               *)
MayReview(family, author) == family # "none" /\ (author # "none" => family # author)

Reviewers(models, author) == {i \in DOMAIN models : MayReview(models[i], author)}

PickReviewer(models, author) == models[Min(Reviewers(models, author))]

ReadVerdict(r) ==
    IF r.form = "approval" \/ (r.form = "words" /\ r.praise) THEN "approved" ELSE "changes_requested"

(* The family of the model that answered, or of the one that was asked.      *)
Resolved(answered, chosen) == IF answered = "none" THEN chosen ELSE answered

ReviewItem(family, author, verdict) ==
    IF family # author /\ verdict = "approved" THEN "passed" ELSE "failed"

(* Nobody to ask: no model of another family, or no run token for it.        *)
NoReviewer ==
    /\ At("review")
    /\ Say("review", "skipped")
    /\ Goto("over")
    /\ UNCHANGED <<change, site, seen>>

(* The call fails: that is a refusal in the chosen model's name.             *)
ReviewFails ==
    /\ At("review")
    /\ \E models \in Catalogs, author \in AuthorFamily :
          /\ Reviewers(models, author) # {}
          /\ Say("review", ReviewItem(PickReviewer(models, author), author, "changes_requested"))
    /\ Goto("over")
    /\ UNCHANGED <<change, site, seen>>

Reviewed ==
    /\ At("review")
    /\ \E models \in Catalogs, author \in AuthorFamily, answered \in FamilyOf, r \in Replies :
          /\ Reviewers(models, author) # {}
          /\ LET chosen == PickReviewer(models, author)
                 family == Resolved(answered, chosen)
             IN  /\ Say("review", ReviewItem(family, author, ReadVerdict(r)))
                 /\ seen' = [seen EXCEPT !.author = author,
                                         !.reviewer = IF answered = "none" THEN chosen ELSE answered,
                                         !.reply = r]
    /\ Goto("over")
    /\ UNCHANGED <<change, site>>

OutcomeOf == IF \E k \in Kinds : item[k] = "failed" THEN "unfinished" ELSE "done"

NextProof ==
    \/ ReadPackage \/ Tests
    \/ NoPages \/ Screenshot \/ NotCollected \/ ShootFile \/ FilesDone
    \/ NamedSite \/ StartSite \/ NoPort \/ NotSpawned \/ SiteExits
    \/ SiteAnswers \/ SiteSilent \/ ShootRoute \/ StopSite \/ Pictures
    \/ DiffItem \/ NoReviewer \/ ReviewFails \/ Reviewed

Spec == InitProof /\ [][NextProof]_pvars

-----------------------------------------------------------------------------

Over == At("over")

(* A reply as the reviewer is asked for it: one of the two verdicts.         *)
AsAsked(r) == r.form = IF r.refuses THEN "change" ELSE "approval"

(* An item that passed was shown by what ran, whatever failed before or      *)
(* after: the tests ended with zero; at some width the pages were shot and   *)
(* all were good; the reviewer that answered is not of the author's family,  *)
(* and one that answered as asked is taken at its word.  A task is done only *)
(* when nothing that was seen speaks against it, but for the pages of a      *)
(* width whose site did not start (engine/proof.js, "Proof, not promises").  *)
DoneIsShown ==
    Over =>
        /\ item["tests"] = "passed" <=> seen.tests = "zero"
        /\ item["screenshots"] = "passed" => seen.shot \ (seen.bad \cup seen.unlit) # {}
        /\ item["review"] = "passed" => /\ seen.reviewer \notin {"none", seen.author}
                                        /\ AsAsked(seen.reply) => ~seen.reply.refuses
        /\ OutcomeOf = "done" => /\ seen.tests # "nonzero"
                                 /\ seen.bad \subseteq seen.unlit
                                 /\ seen.reviewer # "none" => seen.reviewer # seen.author

(* Outside the time it is waited for and shot, every site that was brought   *)
(* up has been told to stop (harness/proof.js startSite, "so the group can   *)
(* be stopped").                                                             *)
SitesAreStopped ==
    At("wait") \/ At("routes") \/ \A w \in Widths : site[w] \notin {"starting", "up"}

(* Not so: "a step that cannot run says so instead of being quietly left     *)
(* out" (engine/proof.js:8).  A page that was shot and is bad is dropped     *)
(* when the site for the other pages does not start.                         *)
BadPageIsTold == Over /\ OutcomeOf = "done" => seen.bad = {}

(* Not so: a reviewer of the author's family is refused (engine/review.js:6) *)
(* when the author's family is not known.                                    *)
AuthorIsKnown == Over /\ item["review"] = "passed" => seen.author # "none"

(* Not so: a reviewer that asks for changes in its own words is read as      *)
(* asking for them (engine/review.js:20, 'changes' and 'needs work' are      *)
(* changes_requested).  A word of approval anywhere in them is read first.   *)
WordsAreRead ==
    Over /\ item["review"] = "passed" => ~(seen.reply.form = "words" /\ seen.reply.refuses)
==============================================================================
