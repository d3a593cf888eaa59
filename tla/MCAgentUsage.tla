----------------------------- MODULE MCAgentUsage -----------------------------
(* Small instances of AgentUsage for TLC.                                   *)
EXTENDS AgentUsage, TLC

\* The processes are interchangeable, and so are the runtimes.
UsageSymmetry == Permutations(Process) \cup Permutations(Runtime)

=============================================================================
