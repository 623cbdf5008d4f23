----------------------------- MODULE MCHarnessJob -----------------------------
(* HarnessJob's instances for TLC. *)
EXTENDS HarnessJob

(* Agents that print their result, or are read by their words, with or without
   their exit code, and an API model. *)
CatalogReads == [claude |-> "line", codex |-> "code", opencode |-> "text", api |-> "api", aider |-> "code"]
AgentReads == [a \in Agents |-> CatalogReads[a]]

JobOf(kind, agent, patch, branch) == [kind |-> kind, agent |-> agent, patch |-> patch, push |-> branch]

AllJobs ==
    {JobOf("code", "none", "given", "own"), JobOf("code", "none", "none", "base"),
     JobOf("code", "codex", "none", "own"), JobOf("code", "aider", "none", "none"), JobOf("code", "api", "none", "none"),
     JobOf("conductor", "claude", "none", "none"), JobOf("bench", "none", "none", "none"),
     JobOf("refused", "none", "none", "none")}

OneJob == {JobOf("code", "none", "given", "own")}
===============================================================================
