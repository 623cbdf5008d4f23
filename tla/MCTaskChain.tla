----------------------------- MODULE MCTaskChain -----------------------------
(***************************************************************************)
(* The timeline of one task (TaskChain): its instances for TLC, and the    *)
(* properties, which AttemptProofs states of it.                           *)
(***************************************************************************)
EXTENDS Naturals

CONSTANTS Settings, MaxAttempts, MaxContinues, AltModels
VARIABLES attempts, outcome, facts, fleet, setting

Chain == INSTANCE TaskChain

ASSUME ChainAssumption ==
    /\ MaxContinues \in Nat /\ MaxAttempts \in Nat \ {0}
    /\ Settings \subseteq Chain!Setting

(* A task is called done only on work that is done and close to its last attempt:
   what was done before a minute without a new attempt never stands in for the
   attempt that just failed (chain.js annotate's later attempts, step). *)
DoneIsRecent == Chain!DoneIsRecent

(* Only the last attempt makes a task done: what ends a chain is its latest attempt
   or a successor of it (chain.js chainEnd, annotate). It does not hold. *)
DoneMeansFinished == Chain!DoneMeansFinished

(* Left alone, a task that only crashes, meets limits and spends its steps
   settles after 2 * MaxContinues + 5 attempts at most (attempts.js decide). *)
AutomaticChainBounded == Chain!AutomaticChainBounded

ChainSpec == Chain!Spec

-------------------------------------------------------------------------------
Decision == INSTANCE Engine

Incomplete == [api |-> "other", final |-> "incomplete"]
Overflow == [api |-> "context", final |-> "other"]

(* Every kind of ending, with an owner who may press continue. *)
Owned == [starts |-> {"claude", "oc"}, tier |-> "standard", owner |-> TRUE,
          reasons |-> {"capacity", "error", "hung", "context", "turns"},
          hits |-> {"steps", "usd", "tokens"}, facts |-> {Decision!NoFacts, Incomplete, Overflow},
          rooms |-> {Decision!Runners, {"oc"}}, gaps |-> {90}, bound |-> 3]

(* A task left alone for as long as its attempts carry it. *)
Alone == [starts |-> {"mm"}, tier |-> "standard", owner |-> FALSE,
          reasons |-> {"capacity", "error"}, hits |-> {"steps"}, facts |-> {Decision!NoFacts, Incomplete},
          rooms |-> {Decision!Runners}, gaps |-> {10}, bound |-> 8]

(* Attempts within a minute of one another, and not. *)
Close == [starts |-> {"mm"}, tier |-> "standard", owner |-> TRUE,
          reasons |-> {"auth", "error"}, hits |-> {"steps"}, facts |-> {Decision!NoFacts, Incomplete},
          rooms |-> {Decision!Runners}, gaps |-> {50, 90}, bound |-> 3]

OwnedOrAlone == {Owned, Close, Alone}
CloseOnly == {Close}
===============================================================================
