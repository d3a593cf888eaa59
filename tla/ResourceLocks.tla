----------------------------- MODULE ResourceLocks -----------------------------
(* The ResourceLockManager of packages/runtime/src/tool-bridge/             *)
(* tool-execution-coordinator.ts: the approved tool calls of a session run  *)
(* at the same time, except for those that read and write the same          *)
(* resource.  A call takes the locks of its resources one after the other,  *)
(* in the order of their keys; between two of them (an `await`) the other   *)
(* calls go on.  The calls of a turn share one abort signal.                *)
(*                                                                          *)
(* A key is a number, whose order is the order of the strings of the code.  *)
(* A lock that nobody holds or waits for is deleted from the map: here it   *)
(* is back in its initial state.  A queue is the set of its waiters, each   *)
(* with those before it (`ahead`).              *)
EXTENDS Integers, FiniteSets

CONSTANTS Op,           \* the calls that reach the locks
          Key,          \* the resources
          Signal,       \* the abort signals, one per turn
          Request,      \* Request[o]: the accesses <<key, mode>> a call asks for
          SignalOf,     \* SignalOf[o]: the signal a call was given, or None
          None

ASSUME KeyAssumption == Key \subseteq Int
ASSUME OpAssumption == IsFiniteSet(Op)
ASSUME RequestAssumption == Request \in [Op -> SUBSET (Key \X {"read", "write"})]
ASSUME SignalAssumption == SignalOf \in [Op -> Signal \cup {None}] /\ None \notin Signal

VARIABLES
    readers,    \* readers[k]: how many calls read k
    writer,     \* writer[k]: some call writes k
    queue,      \* queue[k]: the calls that wait for k
    ahead,      \* ahead[o]: those before o in the queue that o waits in
    pc,         \* "idle", "waiting", "granted", "running", "leaving", "done"
    held,       \* held[o]: the keys whose release the call has
    ran,        \* the calls whose operation was started
    aborted     \* the signals that were aborted

vars == <<readers, writer, queue, ahead, pc, held, ran, aborted>>
-----------------------------------------------------------------------------
(* The resources of a call, normalized: one mode per key, write when any    *)
(* access of the key writes.                                                *)

KeysOf(o) == {access[1] : access \in Request[o]}

\* (bug) a key that is read and written is locked for reading
ModeOf_readWins(o, k) == IF <<k, "read">> \in Request[o] THEN "read" ELSE "write"

ModeOf(o, k) == IF <<k, "write">> \in Request[o] THEN "write" ELSE "read"

\* (bug) the keys are taken in whatever order they come
NextKeys_unsorted(o) == KeysOf(o) \ held[o]

\* The key a call takes next: the smallest of those it lacks (none when it
\* has them all).
NextKeys(o) ==
    {k \in KeysOf(o) \ held[o] : \A j \in KeysOf(o) \ held[o] : k <= j}

Aborted(o) == SignalOf[o] \in aborted
-----------------------------------------------------------------------------
(* One lock.                                                                *)

\* (bug) a reader overtakes a writer that waits
Available_overtakes(k, o) ==
    ~ writer[k] /\ (ModeOf(o, k) = "read" \/ (readers[k] = 0 /\ queue[k] = {}))

\* A reader does not overtake a writer that waits; a writer overtakes nobody.
Available(k, o) ==
    /\ ~ writer[k]
    /\ IF ModeOf(o, k) = "read"
       THEN \A p \in queue[k] : ModeOf(p, k) = "read"
       ELSE readers[k] = 0 /\ queue[k] = {}

\* Those of the queue q of k that a free lock goes to: the writer that came
\* first, or every reader that came before the first writer.
Granted(k, q) ==
    {o \in q :
        \/ ahead[o] \cap q = {}
        \/ \A p \in {o} \cup (ahead[o] \cap q) : ModeOf(p, k) = "read"}

\* (bug) a lock that another reader still holds passes for free
IsFree_noWriter(r, w) == ~ w

IsFree(r, w) == ~ w /\ r = 0

\* (bug) readers that are woken together are counted once
ReadersAmong_once(k, S) == IF \E o \in S : ModeOf(o, k) = "read" THEN 1 ELSE 0

ReadersAmong(k, S) == Cardinality({o \in S : ModeOf(o, k) = "read"})

(* `drain` of the keys D, when the locks have the readers r, the writers w  *)
(* and the queues q: a lock that became free goes to its next waiters.      *)
(* (The code also drops waiters at the head whose signal was aborted: the   *)
(* dispatch of the abort has taken them out already, see NoAbortedWaiter.)  *)
Woken(D, r, w, q) ==
    [k \in Key |-> IF k \in D /\ IsFree(r[k], w[k]) THEN Granted(k, q[k]) ELSE {}]

Drain(D, r, w, q) ==
    LET woken == Woken(D, r, w, q)
    IN  /\ readers' = [k \in Key |-> r[k] + ReadersAmong(k, woken[k])]
        /\ writer' = [k \in Key |->
                        w[k] \/ \E o \in woken[k] : ModeOf(o, k) = "write"]
        /\ queue' = [k \in Key |-> q[k] \ woken[k]]
        /\ ahead' = [o \in Op |-> ahead[o] \cap UNION {q[k] \ woken[k] : k \in Key}]
-----------------------------------------------------------------------------
Init ==
    /\ readers = [k \in Key |-> 0]
    /\ writer = [k \in Key |-> FALSE]
    /\ queue = [k \in Key |-> {}]
    /\ ahead = [o \in Op |-> {}]
    /\ pc = [o \in Op |-> "idle"]
    /\ held = [o \in Op |-> {}]
    /\ ran = {}
    /\ aborted = {}

(* A call is at the head of the loop of `run`: it was just called, or the   *)
(* promise of its last lock was resolved.                                   *)
AtLoop(o) == pc[o] \in {"idle", "granted"}

(* `acquire`: the lock is available.                                        *)
Take(o, k) ==
    /\ AtLoop(o)
    /\ ~ Aborted(o)
    /\ k \in NextKeys(o)
    /\ Available(k, o)
    /\ readers' = [readers EXCEPT ![k] = IF ModeOf(o, k) = "read" THEN @ + 1 ELSE @]
    /\ writer' = [writer EXCEPT ![k] = @ \/ ModeOf(o, k) = "write"]
    /\ held' = [held EXCEPT ![o] = @ \cup {k}]
    /\ pc' = [pc EXCEPT ![o] = "granted"]
    /\ UNCHANGED <<queue, ahead, ran, aborted>>

(* `acquire`: the call waits at the end of the queue.                       *)
Enqueue(o, k) ==
    /\ AtLoop(o)
    /\ ~ Aborted(o)
    /\ k \in NextKeys(o)
    /\ ~ Available(k, o)
    /\ queue' = [queue EXCEPT ![k] = @ \cup {o}]
    /\ ahead' = [ahead EXCEPT ![o] = queue[k]]
    /\ pc' = [pc EXCEPT ![o] = "waiting"]
    /\ UNCHANGED <<readers, writer, held, ran, aborted>>

(* The call has its locks: its operation starts.                            *)
Enter(o) ==
    /\ AtLoop(o)
    /\ ~ Aborted(o)
    /\ KeysOf(o) \subseteq held[o]
    /\ pc' = [pc EXCEPT ![o] = "running"]
    /\ ran' = ran \cup {o}
    /\ UNCHANGED <<readers, writer, queue, ahead, held, aborted>>

(* `acquire`, or the check before the operation, finds the signal aborted.  *)
GiveUp(o) ==
    /\ AtLoop(o)
    /\ Aborted(o)
    /\ pc' = [pc EXCEPT ![o] = "leaving"]
    /\ UNCHANGED <<readers, writer, queue, ahead, held, ran, aborted>>

\* (bug) a reader that leaves wakes nobody
DrainedBy_writers(o) == {k \in held[o] : ModeOf(o, k) = "write"}

DrainedBy(o) == held[o]

ReleasedBy(o) == held[o]

(* The `finally` of `run`: the operation ended or threw, or the call gave   *)
(* up; every lock it has is released.                                       *)
Release(o) ==
    LET r == [k \in Key |-> IF k \in ReleasedBy(o) /\ ModeOf(o, k) = "read"
                            THEN readers[k] - 1 ELSE readers[k]]
        w == [k \in Key |-> writer[k] /\ ~ (k \in ReleasedBy(o) /\ ModeOf(o, k) = "write")]
        woken == Woken(DrainedBy(o), r, w, queue)
    IN  /\ pc[o] \in {"running", "leaving"}
        /\ Drain(DrainedBy(o), r, w, queue)
        /\ held' = [p \in Op |-> IF p = o THEN {}
                                 ELSE held[p] \cup {k \in Key : p \in woken[k]}]
        /\ pc' = [p \in Op |-> IF p = o THEN "done"
                               ELSE IF \E k \in Key : p \in woken[k] THEN "granted"
                               ELSE pc[p]]
        /\ UNCHANGED <<ran, aborted>>

\* The waiters of k that the abort of s takes out of the queue.
Leavers(s, k) == {o \in queue[k] : SignalOf[o] = s}

(* A turn is cancelled: every waiter with its signal leaves its queue, is   *)
(* rejected, and the lock is drained.                                       *)
Abort(s) ==
    LET gone == UNION {Leavers(s, k) : k \in Key}
        q == [k \in Key |-> queue[k] \ gone]
        D == {k \in Key : Leavers(s, k) # {}}
        woken == Woken(D, readers, writer, q)
    IN  /\ s \notin aborted
        /\ aborted' = aborted \cup {s}
        /\ Drain(D, readers, writer, q)
        /\ held' = [p \in Op |-> held[p] \cup {k \in Key : p \in woken[k]}]
        /\ pc' = [p \in Op |-> IF p \in gone THEN "leaving"
                               ELSE IF \E k \in Key : p \in woken[k] THEN "granted"
                               ELSE pc[p]]
        /\ UNCHANGED ran

AllDone == \A o \in Op : pc[o] = "done"

(* Every call was answered.                                                 *)
Terminated == AllDone /\ UNCHANGED vars

OpStep(o) == (\E k \in Key : Take(o, k) \/ Enqueue(o, k)) \/ Enter(o) \/ GiveUp(o) \/ Release(o)

Next == (\E o \in Op : OpStep(o)) \/ (\E s \in Signal : Abort(s)) \/ Terminated

Spec == Init /\ [][Next]_vars

(* The continuations of a call run, and an operation that was started ends  *)
(* (the tools have time limits of their own).                               *)
FairSpec == Spec /\ \A o \in Op : WF_vars(OpStep(o))
-----------------------------------------------------------------------------
(* Properties.                                                              *)

Status == {"idle", "waiting", "granted", "running", "leaving", "done"}

\* The type of the state; a count of readers never goes below zero.
TypeOK ==
    /\ readers \in [Key -> Nat]
    /\ writer \in [Key -> BOOLEAN]
    /\ queue \in [Key -> SUBSET Op]
    /\ ahead \in [Op -> SUBSET Op]
    /\ pc \in [Op -> Status]
    /\ held \in [Op -> SUBSET Key]
    /\ ran \subseteq Op
    /\ aborted \subseteq Signal

\* Two calls of which one writes what the other reads or writes.
Conflicts(o, p) ==
    /\ o # p
    /\ \E k \in KeysOf(o) \cap KeysOf(p) : {<<k, "write">>} \cap (Request[o] \cup Request[p]) # {}

Running == {o \in Op : pc[o] = "running"}

\* No two operations that conflict run at the same time, whatever order the
\* locks were asked for, granted, given back and abandoned in.
Exclusion == \A o, p \in Running : ~ Conflicts(o, p)

\* The calls that hold k in a mode.
Holders(k, mode) == {o \in Op : k \in held[o] /\ ModeOf(o, k) = mode}

\* The counters of a lock tell its holders: an abort, a rejection or a wake-up
\* never leaves a lock held by nobody, nor free while somebody has it.
CountsExact ==
    \A k \in Key :
        /\ readers[k] = Cardinality(Holders(k, "read"))
        /\ writer[k] <=> Holders(k, "write") # {}
        /\ Cardinality(Holders(k, "write")) <= 1
        /\ writer[k] => readers[k] = 0

\* A lock that waiters wait for is held: no release and no abort of the calls
\* in front leaves a waiter that nothing will wake.
NoLostWakeup == \A k \in Key : queue[k] # {} => writer[k] \/ readers[k] > 0

\* A cancelled call does not stay in a queue, so no lock is given to it.
NoAbortedWaiter == \A k \in Key : \A o \in queue[k] : ~ Aborted(o)

\* A call gets a lock in front of one that waits, and stays, only if they do
\* not conflict or if it had come first.
NoOvertaking ==
    [][\A k \in Key : \A p \in queue[k] \cap queue'[k] : \A o \in Op :
          (k \in held'[o] \ held[o] /\ "write" \in {ModeOf(o, k), ModeOf(p, k)})
            => o \in queue[k] /\ o \in ahead[p]]_vars

\* Every call that reached the locks is answered: no circle of calls waits for
\* one another, and no stream of readers keeps a writer out.
EveryCallEnds == \A o \in Op : pc[o] # "idle" ~> pc[o] = "done"

\* The locks implement their promise.
Promise == INSTANCE ConflictFree WITH busy <- Running, over <- ran \ Running

RefinesPromise == Promise!Spec
=============================================================================
