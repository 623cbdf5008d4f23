------------------------------- MODULE MCOutbox -------------------------------
(* Outbox's instances for TLC. *)
EXTENDS Outbox, TLC

PublisherSymmetry == Permutations(Publishers)
===============================================================================
