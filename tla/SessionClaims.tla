---------------------------- MODULE SessionClaims ----------------------------
(***************************************************************************)
(* Who may write a conversation: packages/runtime/src/ownership/            *)
(* session-claims.ts.  Processes share a SQLite table with one row per       *)
(* claimed thread; a row stays as long as the process wants the thread, and  *)
(* the row of a process that died is reaped by whoever meets it.  The key    *)
(* Maintenance is the gate of the whole library.                            *)
(*                                                                          *)
(* A method of the class runs to its end without a callback, but its        *)
(* transactions, and the probe between them, interleave with those of the   *)
(* other processes, and the process may die between any two of them.        *)
(* The callers are unconstrained.  The check for aliases of the library in  *)
(* the file system, which only adds errors, is left out.                    *)
(*                                                                          *)
(* A definition marked (bug), named X_..., is X with a plausible mistake;   *)
(* the runs use it to show that a property would notice that mistake.       *)
(***************************************************************************)
EXTENDS Integers

CONSTANTS
    Process,        \* host identities; a process that restarts is another one
    Thread,         \* thread ids
    Maintenance,    \* the key of the library gate
    None,
    Attempts,       \* transactions an acquisition may try (32 in the code)
    MaxClaims,      \* bound: claims inserted
    MaxReferences   \* bound: handles of one claim

ASSUME ClaimsAssumption ==
    /\ Maintenance \notin Thread
    /\ None \notin Process
    /\ Attempts \in Nat \ {0}
    /\ MaxClaims \in Nat
    /\ MaxReferences \in Nat

VARIABLES
    claims,    \* table claims, by thread_id
    minted,    \* claim ids used so far: 1 .. minted
    gate,      \* the process whose transaction initializes the library, and
               \* whether it found the library to be new
    status,    \* "up", "closed" (its SessionClaims) or "dead"
    held,      \* its map `held`, by thread_id
    calls      \* the call it is in

vars == <<claims, minted, gate, status, held, calls>>

Key == Thread \cup {Maintenance}

Row == [id : Nat, owner : Process]

NoRow == [id |-> 0, owner |-> None]

Hold == [id : Nat, references : Nat]

NoHold == [id |-> 0, references |-> 0]

\* try: about to begin a transaction.  probe: met the row `conflict` and is to
\* probe its owner.  reap: the probe said dead.  gate: in the initialization.
\* The key of an initialization is None.
Call ==
    [at : {"idle", "try", "probe", "reap", "gate"},
     key : Key \cup {None},
     left : Nat,
     place : Key,
     conflict : Row \cup {NoRow}]

NoCall == [at |-> "idle", key |-> None, left |-> 0,
           place |-> Maintenance, conflict |-> NoRow]

NoGate == [proc |-> None, fresh |-> FALSE]

Claimed == {k \in Key : claims[k] # NoRow}

\* BEGIN IMMEDIATE waits for the write lock.
Unlocked == gate = NoGate

Init ==
    /\ claims = [k \in Key |-> NoRow]
    /\ minted = 0
    /\ gate = NoGate
    /\ status = [p \in Process |-> "up"]
    /\ held = [p \in Process |-> [k \in Key |-> NoHold]]
    /\ calls = [p \in Process |-> NoCall]

Holds(p, k) == held[p][k] # NoHold

Ready(p) == status[p] = "up" /\ calls[p].at = "idle"

\* The map of p with this entry for k.
Noted(p, k, id, references) ==
    [held EXCEPT ![p] =
        [held[p] EXCEPT ![k] = [id |-> id, references |-> references]]]

Forgotten(p, k) == [held EXCEPT ![p] = [held[p] EXCEPT ![k] = NoHold]]

Doing(p, call) == [calls EXCEPT ![p] = call]

-----------------------------------------------------------------------------
(* acquire, maintenance                                                     *)

\* The process holds the key already: one more reference, unless the row is no
\* longer its own (assert).
acquireAgain(p, k) ==
    /\ Ready(p)
    /\ Holds(p, k)
    /\ claims[k].id = held[p][k].id
    /\ held[p][k].references < MaxReferences
    /\ held' = Noted(p, k, held[p][k].id, held[p][k].references + 1)
    /\ UNCHANGED <<claims, minted, gate, status, calls>>

acquire(p, k) ==
    /\ Ready(p)
    /\ ~Holds(p, k)
    /\ calls' = Doing(p, [NoCall EXCEPT !.at = "try", !.key = k, !.left = Attempts])
    /\ UNCHANGED <<claims, minted, gate, status, held>>

\* (bug) a thread does not look at the gate
Conflicts_noGate(key) ==
    IF key = Maintenance THEN Claimed ELSE Claimed \cap {key}

\* The rows that stand in the way of `key`: the gate before any other.
Conflicts(key) ==
    IF Maintenance \in Claimed THEN {Maintenance}
    ELSE IF key = Maintenance THEN Claimed
    ELSE Claimed \cap {key}

Met(p, k) ==
    Doing(p, [calls[p] EXCEPT !.at = "probe", !.left = @ - 1,
                              !.place = k, !.conflict = claims[k]])

tryAcquire(p) ==
    LET key == calls[p].key IN
    /\ calls[p].at = "try" /\ key # None
    /\ Unlocked
    /\ \/ /\ Conflicts(key) = {}
          /\ minted < MaxClaims
          /\ minted' = minted + 1
          /\ claims' = [claims EXCEPT ![key] = [id |-> minted + 1, owner |-> p]]
          /\ held' = Noted(p, key, minted + 1, 1)
          /\ calls' = Doing(p, NoCall)
       \/ /\ \E k \in Conflicts(key) : calls' = Met(p, k)
          /\ UNCHANGED <<claims, minted, held>>
    /\ UNCHANGED <<gate, status>>

\* What the host's probe may say: only positive evidence is "dead".
SaidDead(q) == {status[q] = "dead", FALSE}

\* reap, outside any transaction; an owner not known to be dead ends the call
\* with SessionOccupiedError.
probe(p) ==
    /\ calls[p].at = "probe"
    /\ \E dead \in SaidDead(calls[p].conflict.owner) :
          calls' = Doing(p, IF dead THEN [calls[p] EXCEPT !.at = "reap"]
                                    ELSE NoCall)
    /\ UNCHANGED <<claims, minted, gate, status, held>>

\* (bug) deletes whatever row the thread has by now
Reaped_byThread(call) == [claims EXCEPT ![call.place] = NoRow]

\* DELETE ... WHERE thread_id = ? AND claim_id = ?
Reaped(call) ==
    [claims EXCEPT ![call.place] =
        IF @.id = call.conflict.id THEN NoRow ELSE @]

\* The next attempt follows, if there is one.
reap(p) ==
    /\ calls[p].at = "reap"
    /\ Unlocked
    /\ claims' = Reaped(calls[p])
    /\ calls' = Doing(p, IF calls[p].left = 0 THEN NoCall
                         ELSE [calls[p] EXCEPT !.at = "try", !.conflict = NoRow])
    /\ UNCHANGED <<minted, gate, status, held>>

\* A transaction that gives up waiting for the write lock ends the call.
busy(p) ==
    /\ calls[p].at \in {"try", "reap"}
    /\ ~Unlocked
    /\ calls' = Doing(p, NoCall)
    /\ UNCHANGED <<claims, minted, gate, status, held>>

-----------------------------------------------------------------------------
(* beginLibraryInitialization                                               *)

initialize(p) ==
    /\ Ready(p)
    /\ calls' = Doing(p, [NoCall EXCEPT !.at = "try", !.left = Attempts])
    /\ UNCHANGED <<claims, minted, gate, status, held>>

\* (bug) asks only the gate
InitConflicts_gateOnly(fresh) == Claimed \cap {Maintenance}

\* A new library must have no writer; any library must be out of maintenance.
InitConflicts(fresh) ==
    IF Maintenance \in Claimed THEN {Maintenance}
    ELSE IF fresh THEN Claimed ELSE {}

\* Each attempt asks again whether the library is new (isNew).  Without a
\* conflict the transaction stays open.
tryInitialize(p) ==
    /\ calls[p].at = "try" /\ calls[p].key = None
    /\ Unlocked
    /\ \E fresh \in BOOLEAN :
       \/ /\ InitConflicts(fresh) = {}
          /\ gate' = [proc |-> p, fresh |-> fresh]
          /\ calls' = Doing(p, [calls[p] EXCEPT !.at = "gate"])
       \/ /\ \E k \in InitConflicts(fresh) : calls' = Met(p, k)
          /\ UNCHANGED gate
    /\ UNCHANGED <<claims, minted, status, held>>

endInitialization(p) ==
    /\ calls[p].at = "gate"
    /\ gate' = NoGate
    /\ calls' = Doing(p, NoCall)
    /\ UNCHANGED <<claims, minted, status, held>>

-----------------------------------------------------------------------------
(* release, close, death                                                    *)

\* A handle is released once; others are left.
releaseOne(p, k) ==
    /\ Ready(p)
    /\ held[p][k].references > 1
    /\ held' = Noted(p, k, held[p][k].id, held[p][k].references - 1)
    /\ UNCHANGED <<claims, minted, gate, status, calls>>

\* The last one: the row is deleted, or the delete gives up waiting for the
\* write lock and throws; then the entry stays, with no reference, and the row.
releaseLast(p, k) ==
    /\ Ready(p)
    /\ held[p][k].references = 1
    /\ Unlocked
    /\ claims' = [claims EXCEPT ![k] =
          IF @.id = held[p][k].id THEN NoRow ELSE @]
    /\ held' = Forgotten(p, k)
    /\ UNCHANGED <<minted, gate, status, calls>>

\* (bug) the failed delete is forgotten
releaseFails_forgets(p, k) ==
    /\ Ready(p)
    /\ held[p][k].references = 1
    /\ ~Unlocked
    /\ held' = Forgotten(p, k)
    /\ UNCHANGED <<claims, minted, gate, status, calls>>

releaseFails(p, k) ==
    /\ Ready(p)
    /\ held[p][k].references = 1
    /\ ~Unlocked
    /\ held' = Noted(p, k, held[p][k].id, 0)
    /\ UNCHANGED <<claims, minted, gate, status, calls>>

\* (bug) looks for references instead of entries
close_unreferenced(p) ==
    /\ Ready(p)
    /\ \A k \in Key : held[p][k].references = 0
    /\ status' = [status EXCEPT ![p] = "closed"]
    /\ UNCHANGED <<claims, minted, gate, held, calls>>

\* close throws while anything is held.
close(p) ==
    /\ Ready(p)
    /\ \A k \in Key : ~Holds(p, k)
    /\ status' = [status EXCEPT ![p] = "closed"]
    /\ UNCHANGED <<claims, minted, gate, held, calls>>

\* The process dies at any point; an open transaction is rolled back.
die(p) ==
    /\ status[p] # "dead"
    /\ status' = [status EXCEPT ![p] = "dead"]
    /\ held' = [held EXCEPT ![p] = [k \in Key |-> NoHold]]
    /\ calls' = Doing(p, NoCall)
    /\ gate' = IF gate.proc = p THEN NoGate ELSE gate
    /\ UNCHANGED <<claims, minted>>

-----------------------------------------------------------------------------

ProcessStep(p) ==
    \/ \E k \in Key : \/ acquireAgain(p, k) \/ acquire(p, k)
                      \/ releaseOne(p, k) \/ releaseLast(p, k)
                      \/ releaseFails(p, k)
    \/ tryAcquire(p) \/ probe(p) \/ reap(p) \/ busy(p)
    \/ initialize(p) \/ tryInitialize(p) \/ endInitialization(p)
    \/ close(p) \/ die(p)

Next == \E p \in Process : ProcessStep(p)

Spec == Init /\ [][Next]_vars

-----------------------------------------------------------------------------
(* What it promises                                                         *)

TypeOK ==
    /\ claims \in [Key -> Row \cup {NoRow}]
    /\ minted \in Nat
    /\ gate \in [proc : Process, fresh : BOOLEAN] \cup {NoGate}
    /\ status \in [Process -> {"up", "closed", "dead"}]
    /\ held \in [Process -> [Key -> Hold]]
    /\ calls \in [Process -> Call]

\* "A live/unknown process is never reaped": what a process holds is in the
\* table, with the id it was given, until it releases it or dies; however its
\* rivals' probes, deletions and insertions interleave.
NeverDispossessed ==
    \A p \in Process, k \in Key :
        Holds(p, k) => claims[k] = [id |-> held[p][k].id, owner |-> p]

\* "No writer can enter while maintenance owns this gate; any held writer blocks
\* it": a live maintainer and a live writer never coexist.
MaintenanceAlone ==
    \A p, q \in Process, t \in Thread : ~(Holds(p, Maintenance) /\ Holds(q, t))

\* The creation of a library happens while nobody holds anything in it, and no
\* initialization happens under maintenance.
InitializationAlone ==
    \A p \in Process, k \in Key :
        gate # NoGate /\ Holds(p, k) => k # Maintenance /\ ~gate.fresh

\* The library gate keeps out whoever may not work beside its holder, though a
\* writer, a maintainer and a creator are admitted by different reads of the table.
GateExclusive == MaintenanceAlone /\ InitializationAlone

\* Somebody can do something about every row: its owner is dead, and anyone may
\* reap it, or is up and remembers it under its id.  That includes the row whose
\* deletion failed: no handle releases it any more and its thread stays closed,
\* but its process can acquire it again, and cannot close over it.
RowsRemembered ==
    \A k \in Key :
        LET p == claims[k].owner IN
        p # None => \/ status[p] = "dead"
                    \/ status[p] = "up" /\ held[p][k].id = claims[k].id

=============================================================================
