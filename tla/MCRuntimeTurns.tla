----------------------------- MODULE MCRuntimeTurns -----------------------------
(* RuntimeTurns for TLC.                                                    *)
EXTENDS RuntimeTurns, TLC

CONSTANTS t1, t2, c1, c2, c3

\* Two turns; the request of the first is repeated.
RepeatedCall == (c1 :> t1) @@ (c2 :> t1) @@ (c3 :> t2)
=============================================================================
