--------------------------- MODULE MCSessionClaims ---------------------------
(* Small instances of SessionClaims for TLC.                                *)
EXTENDS SessionClaims, TLC

\* The processes are interchangeable, and so are the threads.
ClaimsSymmetry == Permutations(Process) \cup Permutations(Thread)

=============================================================================
