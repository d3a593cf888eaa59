----------------------------- MODULE FencedRuns -----------------------------
(* What the ledger promises to whoever executes runs, with every table and  *)
(* timer taken away: each schedule is a lock, a run that is claimed or      *)
(* running holds it under a fencing token, and tokens only grow.            *)
EXTENDS Naturals

CONSTANTS Schedule, Run

VARIABLES
    owners,    \* per schedule, the <<run, token>> that holds it
    minted     \* tokens handed out so far

vars == <<owners, minted>>

Init ==
    /\ owners = [s \in Schedule |-> {}]
    /\ minted = 0

\* A run takes a free schedule, or takes it again from an attempt of its own
\* that was given up: with a token nobody has seen.
Grant(s, r) ==
    /\ \A o \in owners[s] : o[1] = r
    /\ owners' = [owners EXCEPT ![s] = {<<r, minted + 1>>}]
    /\ minted' = minted + 1

\* The attempts holding the schedules in S end.
Release(S) ==
    /\ owners' = [s \in Schedule |-> IF s \in S THEN {} ELSE owners[s]]
    /\ UNCHANGED minted

Next ==
    \/ \E s \in Schedule, r \in Run : Grant(s, r)
    \/ \E S \in SUBSET Schedule : Release(S)

Spec == Init /\ [][Next]_vars

=============================================================================
