-------------------------- MODULE MCScheduleLedger --------------------------
(* Small instances of ScheduleLedger for TLC.                               *)
EXTENDS ScheduleLedger, TLC

\* The ids are interchangeable, and so are the slots: no operation of the ledger
\* compares two of them but for equality.
LedgerSymmetry ==
    Permutations(Invocation) \cup Permutations(Schedule) \cup
    Permutations(Slot) \cup Permutations(Request)

=============================================================================
