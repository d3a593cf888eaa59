------------------------------ MODULE ConflictFree ------------------------------
(* What the resource locks of a coordinator promise to the tool calls that  *)
(* go through them: an operation runs only while nothing that conflicts     *)
(* with it runs, and it runs at most once.  How it waits is left open.      *)

CONSTANTS Op,               \* the tool calls
          Conflicts(_, _)   \* two calls that must not run at the same time

VARIABLES busy,    \* the calls whose operation runs
          over     \* the calls whose operation ended

vars == <<busy, over>>

Init == busy = {} /\ over = {}

Enter(o) ==
    /\ o \notin busy \cup over
    /\ \A p \in busy : ~ Conflicts(o, p)
    /\ busy' = busy \cup {o}
    /\ over' = over

Exit(o) ==
    /\ o \in busy
    /\ busy' = busy \ {o}
    /\ over' = over \cup {o}

Next == \E o \in Op : Enter(o) \/ Exit(o)

Spec == Init /\ [][Next]_vars
=============================================================================
