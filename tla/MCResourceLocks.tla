---------------------------- MODULE MCResourceLocks ----------------------------
(* ResourceLocks for TLC: calls that meet on two keys.                      *)
EXTENDS ResourceLocks, TLC

CONSTANTS o1, o2, o3, o4, o5, s1, s2

\* Two calls that need both keys, in opposite modes, one that reads a key and
\* writes it, a reader of both, which belongs to another turn, and a writer
\* that nobody can cancel.
MeetRequest == (o1 :> {<<1, "read">>, <<2, "write">>}
             @@ o2 :> {<<1, "write">>, <<2, "read">>}
             @@ o3 :> {<<1, "read">>, <<1, "write">>}
             @@ o4 :> {<<1, "read">>, <<2, "read">>}
             @@ o5 :> {<<1, "write">>})
MeetSignal == (o1 :> s1 @@ o2 :> s1 @@ o3 :> s1 @@ o4 :> s2 @@ o5 :> None)
=============================================================================
