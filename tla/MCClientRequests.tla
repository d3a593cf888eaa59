--------------------------- MODULE MCClientRequests ---------------------------
(* ClientRequests for TLC; the bounds are the cfg's.                        *)
EXTENDS ClientRequests, TLC

Symmetry == Permutations(Attachment) \cup Permutations(Responder)
=============================================================================
