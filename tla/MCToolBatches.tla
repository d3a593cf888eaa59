----------------------------- MODULE MCToolBatches -----------------------------
(* ToolBatches for TLC.                                                     *)
EXTENDS ToolBatches

CONSTANTS c1, c2

\* Two calls of the first model call; the second uses an id again.
ReusedId == {<<c1, 1>>, <<c2, 1>>, <<c1, 2>>}
=============================================================================
