-------------------------- MODULE ResourceLocksProofs --------------------------
(***************************************************************************)
(* Proofs about ResourceLocks, for any calls, resources and signals: the   *)
(* counters of a lock tell its holders, calls that conflict never run at   *)
(* the same time, no waiter is forgotten, and the locks implement          *)
(* ConflictFree.  The invariant says what a queue is: calls that wait for  *)
(* that key only, without having it, in a total order.                     *)
(***************************************************************************)
EXTENDS ResourceLocks, FiniteSetTheorems, WellFoundedInduction, TLAPS

\* A waiter waits for the key of its queue, which it needs and does not have.
WaitersWait ==
    \A k \in Key : \A o \in queue[k] :
        pc[o] = "waiting" /\ k \in KeysOf(o) /\ k \notin held[o]

\* A call waits in one queue.
OneQueue ==
    \A j, k \in Key : \A o \in queue[j] \cap queue[k] : j = k

\* The set q of waiters is strictly and totally ordered by `ahead`.
Ordered(q) ==
    /\ \A o \in q : ahead[o] \subseteq q /\ o \notin ahead[o]
    /\ \A o, p \in q : o = p \/ o \in ahead[p] \/ p \in ahead[o]
    /\ \A o, p, r \in q : r \in ahead[p] /\ p \in ahead[o] => r \in ahead[o]

QueuesOrdered == \A k \in Key : Ordered(queue[k])

\* What a call has done so far: it holds what it needs only, all of it when it
\* runs, nothing when it is done, and it runs once.
Progress ==
    \A o \in Op :
        /\ held[o] \subseteq KeysOf(o)
        /\ pc[o] = "running" => KeysOf(o) \subseteq held[o] /\ o \in ran
        /\ pc[o] \in {"idle", "waiting", "granted"} => o \notin ran

Inv ==
    /\ TypeOK
    /\ CountsExact
    /\ WaitersWait
    /\ OneQueue
    /\ QueuesOrdered
    /\ Progress
    /\ NoAbortedWaiter
    /\ NoLostWakeup

\* The holders of k in a mode when the calls hold h.
HoldersIn(h, k, mode) == {o \in Op : k \in h[o] /\ ModeOf(o, k) = mode}

\* The counters of the lock k, in r and w, tell its holders in h.
ExactAt(k, r, w, h) ==
    /\ r[k] = Cardinality(HoldersIn(h, k, "read"))
    /\ w[k] <=> HoldersIn(h, k, "write") # {}
    /\ Cardinality(HoldersIn(h, k, "write")) <= 1
    /\ w[k] => r[k] = 0

-----------------------------------------------------------------------------
(* What the operators return                                               *)

\* A call has one of two modes for a key, and its keys are resources.
LEMMA Modes ==
    ASSUME NEW o \in Op
    PROVE  /\ \A k \in Key : ModeOf(o, k) \in {"read", "write"}
           /\ KeysOf(o) \subseteq Key
<1>1. Request[o] \in SUBSET (Key \X {"read", "write"})
  BY RequestAssumption
<1> QED BY <1>1 DEF ModeOf, KeysOf

\* The sets of calls the counters count are finite.
LEMMA FiniteOps ==
    ASSUME NEW S \in SUBSET Op
    PROVE  IsFiniteSet(S) /\ Cardinality(S) \in Nat
BY OpAssumption, FS_Subset, FS_CardinalityType

\* A non-empty queue has a first waiter.
LEMMA FirstWaiter ==
    ASSUME NEW q \in SUBSET Op, Ordered(q), q # {}
    PROVE  \E o \in q : ahead[o] = {}
<1> DEFINE T == {ahead[o] : o \in q}
<1>1. IsFiniteSet(q) BY FiniteOps
<1>2. IsWellFoundedOn(StrictSubsetOrdering(q), SUBSET q)
  BY <1>1, FS_StrictSubsetOrderingWellFounded, FS_FiniteSubsetsOfFinite
<1>3. T \subseteq SUBSET q /\ T # {} BY DEF Ordered
<1>4. PICK x \in T : \A y \in T : ~ (<<y, x>> \in StrictSubsetOrdering(q))
  <2> HIDE DEF T
  <2> QED BY <1>2, <1>3, WFMin
<1>5. PICK o \in q : x = ahead[o] OBVIOUS
<1>6. ASSUME NEW p \in ahead[o] PROVE FALSE
  <2>1. p \in q BY <1>5 DEF Ordered
  <2>2. ahead[p] \subseteq ahead[o] /\ p \notin ahead[p] BY <2>1, <1>5 DEF Ordered
  <2>3. ahead[p] # ahead[o] BY <2>2, <1>6
  <2>4. <<ahead[p], ahead[o]>> \in StrictSubsetOrdering(q)
    BY <2>1, <2>2, <2>3, <1>5 DEF Ordered, StrictSubsetOrdering
  <2> QED BY <2>1, <2>4, <1>4, <1>5
<1> QED BY <1>5, <1>6

\* A free lock with waiters goes to some of them: readers, or one writer.
LEMMA GrantedShape ==
    ASSUME NEW k \in Key, NEW q \in SUBSET Op, Ordered(q)
    PROVE  /\ Granted(k, q) \subseteq q
           /\ q # {} => Granted(k, q) # {}
           /\ \/ \A o \in Granted(k, q) : ModeOf(o, k) = "read"
              \/ \E o \in q : Granted(k, q) = {o} /\ ModeOf(o, k) = "write"
<1>1. Granted(k, q) \subseteq q BY DEF Granted
<1>2. q # {} => Granted(k, q) # {}
  <2> HAVE q # {}
  <2>1. PICK o \in q : ahead[o] = {} BY FirstWaiter
  <2> QED BY <2>1 DEF Granted
<1>3. ASSUME NEW o \in Granted(k, q), ModeOf(o, k) # "read"
      PROVE  Granted(k, q) = {o} /\ ModeOf(o, k) = "write"
  <2>1. o \in q /\ ahead[o] \cap q = {} BY <1>3 DEF Granted
  <2>2. ASSUME NEW p \in Granted(k, q), p # o PROVE FALSE
    <3>1. p \in q BY <2>2 DEF Granted
    <3>2. o \in ahead[p] \cap q BY <2>1, <2>2, <3>1 DEF Ordered
    <3> QED BY <3>2, <1>3, <2>2 DEF Granted
  <2>3. ModeOf(o, k) = "write" BY <1>3, <2>1, Modes
  <2> QED BY <2>2, <2>3, <1>3
<1> QED BY <1>1, <1>2, <1>3

\* What is left of an ordered queue is ordered, when `ahead` is cut to it.
LEMMA OrderedRest ==
    ASSUME NEW q \in SUBSET Op, Ordered(q), NEW U, ahead \in [Op -> SUBSET Op],
           ahead' = [o \in Op |-> ahead[o] \cap U],
           NEW k \in Key, queue'[k] = q \cap U
    PROVE  Ordered(queue[k])'
<1>1. \A o \in q \cap U : o \in Op /\ o \in q /\ ahead'[o] = ahead[o] \cap U OBVIOUS
<1> QED BY <1>1 DEF Ordered

-----------------------------------------------------------------------------
(* Counting                                                                *)

\* The counters are the counters of the holders.
LEMMA CountsAreExact ==
    CountsExact <=> \A k \in Key : ExactAt(k, readers, writer, held)
BY DEF CountsExact, ExactAt, HoldersIn, Holders

\* Holders of a key that do not change leave its counters exact.
LEMMA ExactSame ==
    ASSUME NEW k, NEW r, NEW w, NEW h, NEW g, ExactAt(k, r, w, h),
           \A o \in Op : k \in h[o] <=> k \in g[o],
           NEW rr, rr[k] = r[k], NEW ww, ww[k] = w[k]
    PROVE  ExactAt(k, rr, ww, g)
<1>1. \A m : HoldersIn(h, k, m) = HoldersIn(g, k, m) BY DEF HoldersIn
<1> QED BY <1>1 DEF ExactAt

\* A call that takes an available lock.
LEMMA ExactTake ==
    ASSUME NEW k \in Key, NEW o \in Op, NEW r \in [Key -> Nat], NEW w \in [Key -> BOOLEAN], NEW h, NEW g,
           ExactAt(k, r, w, h), k \notin h[o],
           ~ w[k], ModeOf(o, k) = "write" => r[k] = 0,
           \A p \in Op : k \in g[p] <=> k \in h[p] \/ p = o,
           NEW rr, rr[k] = IF ModeOf(o, k) = "read" THEN r[k] + 1 ELSE r[k],
           NEW ww \in [Key -> BOOLEAN], ww[k] <=> w[k] \/ ModeOf(o, k) = "write"
    PROVE  ExactAt(k, rr, ww, g)
<1> DEFINE R2 == HoldersIn(g, k, "read")
           W2 == HoldersIn(g, k, "write")
<1> SUFFICES rr[k] = Cardinality(R2) /\ (ww[k] <=> W2 # {}) /\ Cardinality(W2) <= 1
             /\ (ww[k] => rr[k] = 0)
  BY DEF ExactAt
<1> DEFINE R == HoldersIn(h, k, "read")
           W == HoldersIn(h, k, "write")
<1>1. R \in SUBSET Op /\ W \in SUBSET Op /\ o \notin R /\ W = {}
  BY DEF HoldersIn, ExactAt
<1>2. r[k] = Cardinality(R) BY DEF ExactAt
<1>3. CASE ModeOf(o, k) = "read"
  <2>1. HoldersIn(g, k, "read") = R \cup {o} /\ HoldersIn(g, k, "write") = {}
    BY <1>3, <1>1 DEF HoldersIn
  <2>2. Cardinality(R \cup {o}) = r[k] + 1 BY <1>1, <1>2, FiniteOps, FS_AddElement
  <2>3. R2 = R \cup {o} /\ W2 = {} /\ Cardinality(W2) = 0 BY <2>1, FS_EmptySet
  <2>4. rr[k] = r[k] + 1 /\ ~ ww[k] BY <1>3
  <2> HIDE DEF R, R2, W2
  <2> QED BY <2>2, <2>3, <2>4
<1>4. CASE ModeOf(o, k) = "write"
  <2>1. R = {} BY <1>1, <1>2, <1>4, FiniteOps, FS_EmptySet
  <2>2. HoldersIn(g, k, "read") = {} /\ HoldersIn(g, k, "write") = {o}
    BY <1>4, <1>1, <2>1 DEF HoldersIn
  <2>3. Cardinality({}) = 0 /\ Cardinality({o}) = 1 BY FS_EmptySet, FS_Singleton
  <2>4. r[k] = 0 BY <1>4
  <2>5. rr[k] = 0 /\ ww[k] BY <1>4, <2>4
  <2>6. W2 # {} /\ Cardinality(W2) = 1 /\ Cardinality(R2) = 0 BY <2>2, <2>3
  <2> HIDE DEF R2, W2
  <2> QED BY <2>5, <2>6
<1> QED BY <1>3, <1>4, Modes

\* A call that releases a lock it holds.
LEMMA ExactRelease ==
    ASSUME NEW k \in Key, NEW o \in Op, NEW r \in [Key -> Nat], NEW w \in [Key -> BOOLEAN], NEW h, NEW g,
           ExactAt(k, r, w, h), k \in h[o],
           \A p \in Op : k \in g[p] <=> k \in h[p] /\ p # o,
           NEW rr, rr[k] = IF ModeOf(o, k) = "read" THEN r[k] - 1 ELSE r[k],
           NEW ww \in [Key -> BOOLEAN], ww[k] <=> w[k] /\ ModeOf(o, k) # "write"
    PROVE  ExactAt(k, rr, ww, g) /\ rr[k] \in Nat
<1> DEFINE R2 == HoldersIn(g, k, "read")
           W2 == HoldersIn(g, k, "write")
<1> SUFFICES rr[k] = Cardinality(R2) /\ (ww[k] <=> W2 # {}) /\ Cardinality(W2) <= 1
             /\ (ww[k] => rr[k] = 0) /\ rr[k] \in Nat
  BY DEF ExactAt
<1> DEFINE R == HoldersIn(h, k, "read")
           W == HoldersIn(h, k, "write")
<1>1. R \in SUBSET Op /\ W \in SUBSET Op BY DEF HoldersIn
<1>2. HoldersIn(g, k, "read") = R \ {o} /\ HoldersIn(g, k, "write") = W \ {o}
  BY DEF HoldersIn
<1>3. r[k] = Cardinality(R) /\ (w[k] <=> W # {}) /\ Cardinality(W) <= 1 /\ (w[k] => r[k] = 0)
  BY DEF ExactAt
<1>4. CASE ModeOf(o, k) = "read"
  <2>1. o \in R /\ o \notin W BY <1>4 DEF HoldersIn
  <2>2. Cardinality(R \ {o}) = r[k] - 1 /\ Cardinality(R \ {o}) \in Nat
    BY <1>1, <1>3, <2>1, FiniteOps, FS_RemoveElement
  <2>3. r[k] # 0 BY <2>2
  <2>4. W \ {o} = W BY <2>1
  <2>5. R2 = R \ {o} /\ W2 = W BY <1>2, <2>4
  <2>6. rr[k] = r[k] - 1 /\ (ww[k] <=> w[k]) BY <1>4
  <2> HIDE DEF R, W, R2, W2
  <2> QED BY <1>3, <2>2, <2>3, <2>5, <2>6
<1>5. CASE ModeOf(o, k) = "write"
  <2>1. o \in W /\ o \notin R BY <1>5 DEF HoldersIn
  <2>2. Cardinality(W \ {o}) = Cardinality(W) - 1 /\ Cardinality(W \ {o}) \in Nat /\ Cardinality(W) \in Nat
    BY <1>1, <2>1, FiniteOps, FS_RemoveElement
  <2>3. Cardinality(W \ {o}) = 0 BY <1>3, <2>2
  <2>4. W \ {o} = {} BY <1>1, <2>3, FiniteOps, FS_EmptySet
  <2>5. R \ {o} = R BY <2>1
  <2>6. R2 = R /\ W2 = {} /\ Cardinality(W2) = 0 BY <1>2, <2>3, <2>4, <2>5
  <2>7. rr[k] = r[k] /\ ~ ww[k] BY <1>5
  <2> HIDE DEF R, W, R2, W2
  <2> QED BY <1>3, <2>6, <2>7
<1> QED BY <1>4, <1>5, Modes

\* A free lock that goes to the first waiters of its queue.
LEMMA ExactGrant ==
    ASSUME NEW k \in Key, NEW q \in SUBSET Op, Ordered(q),
           NEW r \in [Key -> Nat], NEW w \in [Key -> BOOLEAN], NEW h, NEW g,
           ExactAt(k, r, w, h), ~ w[k], r[k] = 0,
           \A p \in Op : k \in g[p] <=> k \in h[p] \/ p \in Granted(k, q),
           NEW rr, rr[k] = r[k] + ReadersAmong(k, Granted(k, q)),
           NEW ww \in [Key -> BOOLEAN], ww[k] <=> w[k] \/ \E o \in Granted(k, q) : ModeOf(o, k) = "write"
    PROVE  ExactAt(k, rr, ww, g)
<1> DEFINE R2 == HoldersIn(g, k, "read")
           W2 == HoldersIn(g, k, "write")
<1> SUFFICES rr[k] = Cardinality(R2) /\ (ww[k] <=> W2 # {}) /\ Cardinality(W2) <= 1
             /\ (ww[k] => rr[k] = 0)
  BY DEF ExactAt
<1> DEFINE S == Granted(k, q)
<1>1. S \in SUBSET Op BY GrantedShape
<1>2. HoldersIn(h, k, "read") \in SUBSET Op BY DEF HoldersIn
<1>3. HoldersIn(h, k, "read") = {} /\ HoldersIn(h, k, "write") = {}
  BY <1>2, FiniteOps, FS_EmptySet DEF ExactAt, IsFree
<1>4. /\ HoldersIn(g, k, "read") = {o \in S : ModeOf(o, k) = "read"}
      /\ HoldersIn(g, k, "write") = {o \in S : ModeOf(o, k) = "write"}
  BY <1>1, <1>3 DEF HoldersIn
<1>5. r[k] = 0 /\ ~ w[k] OBVIOUS
<1>6. ReadersAmong(k, S) = Cardinality(HoldersIn(g, k, "read"))
  BY <1>4 DEF ReadersAmong
<1>7. ReadersAmong(k, S) \in Nat
  <2>1. HoldersIn(g, k, "read") \in SUBSET Op BY DEF HoldersIn
  <2> QED BY <2>1, <1>6, FiniteOps
<1>8. CASE \A o \in S : ModeOf(o, k) = "read"
  <2>1. HoldersIn(g, k, "write") = {} BY <1>4, <1>8
  <2>2. Cardinality(W2) = 0 BY <2>1, FS_EmptySet
  <2>3. rr[k] = ReadersAmong(k, S) BY <1>5, <1>7
  <2>4. ~ ww[k] BY <1>5, <1>8
  <2> QED BY <1>6, <2>1, <2>2, <2>3, <2>4
<1>9. CASE \E o \in q : S = {o} /\ ModeOf(o, k) = "write"
  <2>1. PICK o \in q : S = {o} /\ ModeOf(o, k) = "write" BY <1>9
  <2>2. HoldersIn(g, k, "write") = {o} /\ HoldersIn(g, k, "read") = {}
    BY <1>4, <2>1
  <2>3. Cardinality({}) = 0 /\ Cardinality({o}) = 1 BY FS_EmptySet, FS_Singleton
  <2>4. ReadersAmong(k, S) = 0 BY <1>6, <2>2, <2>3
  <2>5. rr[k] = 0 BY <2>4, <1>5
  <2>6. ww[k] BY <2>1
  <2>7. W2 # {} /\ Cardinality(W2) = 1 /\ Cardinality(R2) = 0 BY <2>2, <2>3
  <2> HIDE DEF R2, W2
  <2> QED BY <2>5, <2>6, <2>7
<1> QED BY <1>8, <1>9, GrantedShape

-----------------------------------------------------------------------------
(* The steps                                                               *)

\* `drain` after the locks were set to r, w and q, and the holders to h: the
\* part of the invariant that is about locks and queues.
LEMMA DrainStep ==
    ASSUME TypeOK, QueuesOrdered, OneQueue, WaitersWait,
           NEW D \in SUBSET Key,
           NEW r \in [Key -> Nat], NEW w \in [Key -> BOOLEAN],
           NEW q \in [Key -> SUBSET Op], NEW h \in [Op -> SUBSET Key],
           \A k \in Key : q[k] \subseteq queue[k],
           \A k \in Key : Ordered(q[k]),
           \A k \in Key : \A o \in q[k] : h[o] = held[o],
           \A k \in Key : ExactAt(k, r, w, h),
           \A k \in Key \ D : q[k] # {} => w[k] \/ r[k] > 0,
           Drain(D, r, w, q),
           held' = [p \in Op |-> h[p] \cup {k \in Key : p \in Woken(D, r, w, q)[k]}]
    PROVE  /\ \A k \in Key : Woken(D, r, w, q)[k] \subseteq q[k]
           /\ \A k \in Key : ExactAt(k, readers', writer', held')
           /\ readers' \in [Key -> Nat] /\ writer' \in [Key -> BOOLEAN]
           /\ queue' = [k \in Key |-> q[k] \ Woken(D, r, w, q)[k]]
           /\ ahead' \in [Op -> SUBSET Op]
           /\ QueuesOrdered'
           /\ NoLostWakeup'
<1> DEFINE S == Woken(D, r, w, q)
<1>1. \A k \in Key : S[k] = IF k \in D /\ IsFree(r[k], w[k]) THEN Granted(k, q[k]) ELSE {}
  BY DEF Woken
<1>2. \A k \in Key : S[k] \subseteq q[k] BY <1>1 DEF Granted
<1>3. /\ readers' = [k \in Key |-> r[k] + ReadersAmong(k, S[k])]
      /\ writer' = [k \in Key |-> w[k] \/ \E o \in S[k] : ModeOf(o, k) = "write"]
      /\ queue' = [k \in Key |-> q[k] \ S[k]]
      /\ ahead' = [o \in Op |-> ahead[o] \cap UNION {q[k] \ S[k] : k \in Key}]
  BY DEF Drain
<1>4. \A k \in Key : ReadersAmong(k, S[k]) \in Nat
  <2> TAKE k \in Key
  <2>1. {o \in S[k] : ModeOf(o, k) = "read"} \in SUBSET Op BY <1>2
  <2> QED BY <2>1, FiniteOps DEF ReadersAmong
<1>5. ASSUME NEW k \in Key PROVE ExactAt(k, readers', writer', held')
  <2>1. \A p \in Op : k \in held'[p] <=> k \in h[p] \/ p \in S[k] OBVIOUS
  <2>2. CASE k \in D /\ IsFree(r[k], w[k])
    <3>1. S[k] = Granted(k, q[k]) BY <1>1, <2>2
    <3>2. readers'[k] = r[k] + ReadersAmong(k, Granted(k, q[k])) BY <1>3, <3>1
    <3>3. writer'[k] <=> w[k] \/ \E o \in Granted(k, q[k]) : ModeOf(o, k) = "write"
      BY <1>3, <3>1
    <3>4. \A p \in Op : k \in held'[p] <=> k \in h[p] \/ p \in Granted(k, q[k])
      BY <2>1, <3>1
    <3>5. q[k] \in SUBSET Op /\ Ordered(q[k]) /\ ExactAt(k, r, w, h)
      OBVIOUS
    <3>6. writer' \in [Key -> BOOLEAN] BY <1>3
    <3>7. ~ w[k] /\ r[k] = 0 BY <2>2 DEF IsFree
    <3> HIDE DEF S
    <3> QED BY <3>2, <3>3, <3>4, <3>5, <3>6, <3>7, ExactGrant, ZenonT(40)
  <2>3. CASE ~ (k \in D /\ IsFree(r[k], w[k]))
    <3>1. S[k] = {} BY <1>1, <2>3
    <3>2. ReadersAmong(k, S[k]) = 0 BY <3>1, FS_EmptySet DEF ReadersAmong
    <3>3. readers'[k] = r[k] BY <1>3, <3>2
    <3>4. writer'[k] = w[k] BY <1>3, <3>1
    <3>5. \A p \in Op : k \in h[p] <=> k \in held'[p] BY <2>1, <3>1
    <3>6. ExactAt(k, r, w, h) OBVIOUS
    <3> HIDE DEF S
    <3> QED BY <3>3, <3>4, <3>5, <3>6, ExactSame
  <2> QED BY <2>2, <2>3
<1>6. readers' \in [Key -> Nat] /\ writer' \in [Key -> BOOLEAN]
  <2>1. \A k \in Key : r[k] + ReadersAmong(k, S[k]) \in Nat BY <1>4
  <2> HIDE DEF S
  <2> QED BY <1>3, <2>1
<1>7. ahead' \in [Op -> SUBSET Op] BY <1>3 DEF TypeOK
<1>8. ASSUME NEW k \in Key PROVE Ordered(queue[k])'
  <2> DEFINE T == q[k] \ S[k]
             U == UNION {q[j] \ S[j] : j \in Key}
  <2>1. q[k] \cap U = T
    <3>1. \A j \in Key : \A o \in (q[j] \ S[j]) \cap q[k] : j = k BY DEF OneQueue
    <3> QED BY <3>1
  <2>2. T \in SUBSET q[k] /\ q[k] \in SUBSET Op /\ Ordered(q[k]) OBVIOUS
  <2>3. ahead' = [o \in Op |-> ahead[o] \cap U] /\ queue'[k] = T BY <1>3
  <2>4. ahead \in [Op -> SUBSET Op] BY DEF TypeOK
  <2> HIDE DEF T, U
  <2> QED BY <2>1, <2>2, <2>3, <2>4, OrderedRest
<1>9. ASSUME NEW k \in Key, queue'[k] # {} PROVE writer'[k] \/ readers'[k] > 0
  <2>0. queue'[k] = q[k] \ S[k] /\ q[k] # {} BY <1>3, <1>9
  <2>1. CASE k \in D /\ IsFree(r[k], w[k])
    <3>1. S[k] = Granted(k, q[k]) /\ q[k] \in SUBSET Op /\ Ordered(q[k]) BY <1>1, <2>1
    <3>2. PICK o \in S[k] : TRUE BY <3>1, <2>0, GrantedShape
    <3>3. o \in Op /\ ModeOf(o, k) \in {"read", "write"} BY <3>1, <1>2, Modes
    <3>4. CASE ModeOf(o, k) = "write" BY <3>2, <3>4, <1>3
    <3>5. CASE ModeOf(o, k) = "read"
      <4>1. {p \in S[k] : ModeOf(p, k) = "read"} \in SUBSET Op
            /\ {p \in S[k] : ModeOf(p, k) = "read"} # {}
        BY <3>2, <3>5, <1>2
      <4>2. ReadersAmong(k, S[k]) # 0 BY <4>1, FiniteOps, FS_EmptySet DEF ReadersAmong
      <4>3. readers'[k] = r[k] + ReadersAmong(k, S[k]) BY <1>3
      <4>4. r[k] \in Nat OBVIOUS
      <4> HIDE DEF S
      <4> QED BY <4>2, <4>3, <4>4, <1>4
    <3> QED BY <3>3, <3>4, <3>5
  <2>2. CASE ~ (k \in D /\ IsFree(r[k], w[k]))
    <3>1. S[k] = {} BY <1>1, <2>2
    <3>2. ReadersAmong(k, S[k]) = 0 BY <3>1, FS_EmptySet DEF ReadersAmong
    <3>3. readers'[k] = r[k] /\ writer'[k] = w[k] /\ r[k] \in Nat
      <4>1. readers'[k] = r[k] + 0 /\ r[k] \in Nat BY <1>3, <3>2
      <4>2. writer'[k] = w[k] BY <1>3, <3>1
      <4> QED BY <4>1, <4>2
    <3>4. w[k] \/ r[k] > 0
      <4>1. CASE k \notin D BY <4>1, <2>0
      <4>2. CASE k \in D BY <4>2, <2>2, <3>3 DEF IsFree
      <4> QED BY <4>1, <4>2
    <3> QED BY <3>3, <3>4
  <2> QED BY <2>1, <2>2
<1> QED BY <1>2, <1>3, <1>5, <1>6, <1>7, <1>8, <1>9 DEF QueuesOrdered, NoLostWakeup

\* A call is given a lock it waited for, and only that.
LEMMA WokenStep ==
    ASSUME TypeOK, OneQueue, WaitersWait,
           NEW D \in SUBSET Key,
           NEW r, NEW w, NEW q \in [Key -> SUBSET Op],
           \A k \in Key : q[k] \subseteq queue[k],
           NEW p \in Op, NEW k \in Key, p \in Woken(D, r, w, q)[k]
    PROVE  /\ pc[p] = "waiting" /\ k \in KeysOf(p) /\ k \notin held[p] /\ p \in queue[k]
           /\ \A j \in Key : p \in Woken(D, r, w, q)[j] => j = k
<1>1. \A j \in Key : Woken(D, r, w, q)[j] \subseteq q[j] BY DEF Woken, Granted
<1>2. p \in queue[k] BY <1>1
<1>3. \A j \in Key : p \in Woken(D, r, w, q)[j] => p \in queue[j] BY <1>1
<1> QED BY <1>2, <1>3 DEF WaitersWait, OneQueue

\* A call takes an available lock.
LEMMA TakeStep ==
    ASSUME Inv, NEW o \in Op, NEW k \in Key, Take(o, k)
    PROVE  Inv'
<1> USE DEF Take
<1>1. k \in KeysOf(o) /\ k \notin held[o] /\ pc[o] \in {"idle", "granted"} /\ ~ writer[k]
  BY DEF NextKeys, AtLoop, Available
<1>2. ModeOf(o, k) = "write" => readers[k] = 0
  BY DEF Available
<1>3. TypeOK'
  <2>1. readers[k] + 1 \in Nat BY DEF Inv, TypeOK
  <2>2. writer' \in [Key -> BOOLEAN] BY DEF Inv, TypeOK
  <2> QED BY <2>1, <2>2 DEF Inv, TypeOK, Status
<1>4. CountsExact'
  <2> SUFFICES ASSUME NEW j \in Key PROVE ExactAt(j, readers', writer', held')
    BY CountsAreExact, <1>3 DEF CountsExact, ExactAt, HoldersIn, Holders
  <2>1. ExactAt(j, readers, writer, held) BY CountsAreExact DEF Inv
  <2>2. held' \in [Op -> SUBSET Key] /\ held \in [Op -> SUBSET Key]
        /\ readers \in [Key -> Nat] /\ writer \in [Key -> BOOLEAN]
        /\ writer' \in [Key -> BOOLEAN]
    BY <1>3 DEF Inv, TypeOK
  <2>3. CASE j = k
    <3>1. \A p \in Op : k \in held'[p] <=> k \in held[p] \/ p = o BY <2>2
    <3>2. readers'[k] = IF ModeOf(o, k) = "read" THEN readers[k] + 1 ELSE readers[k]
      BY <2>2
    <3>3. writer'[k] <=> writer[k] \/ ModeOf(o, k) = "write" BY <2>2
    <3>4. ExactAt(k, readers, writer, held) /\ k \notin held[o] /\ ~ writer[k]
      BY <1>1, <2>1, <2>3
    <3>5. ExactAt(k, readers', writer', held')
      <4> HIDE DEF Take
      <4> QED BY <1>2, <2>2, <3>1, <3>2, <3>3, <3>4, ExactTake
    <3> QED BY <2>3, <3>5
  <2>4. CASE j # k
    <3>1. readers'[j] = readers[j] /\ writer'[j] = writer[j] BY <2>2, <2>4
    <3>2. \A p \in Op : j \in held[p] <=> j \in held'[p] BY <2>2, <2>4
    <3> QED BY <2>1, <3>1, <3>2, ExactSame
  <2> QED BY <2>3, <2>4
<1>5. \A j \in Key : o \notin queue[j] BY <1>1 DEF Inv, WaitersWait
<1>6. \A p \in Op : p # o => pc'[p] = pc[p] /\ held'[p] = held[p]
  BY DEF Inv, TypeOK
<1>7. pc'[o] = "granted" /\ held'[o] = held[o] \cup {k} BY DEF Inv, TypeOK
<1>8. queue \in [Key -> SUBSET Op] BY DEF Inv, TypeOK
<1>9. WaitersWait' BY <1>5, <1>6, <1>8 DEF Inv, WaitersWait
<1>10. OneQueue' /\ QueuesOrdered' BY DEF Inv, OneQueue, QueuesOrdered, Ordered
<1>11. Progress'
  <2> SUFFICES ASSUME NEW p \in Op
               PROVE  /\ held'[p] \subseteq KeysOf(p)
                      /\ pc'[p] = "running" => KeysOf(p) \subseteq held'[p] /\ p \in ran'
                      /\ pc'[p] \in {"idle", "waiting", "granted"} => p \notin ran'
    BY DEF Progress
  <2> QED BY <1>1, <1>6, <1>7 DEF Inv, Progress
<1>12. NoAbortedWaiter' BY DEF Inv, NoAbortedWaiter, Aborted
<1>13. NoLostWakeup'
  <2> SUFFICES ASSUME NEW j \in Key, queue[j] # {} PROVE writer'[j] \/ readers'[j] > 0
    BY DEF NoLostWakeup
  <2>1. writer[j] \/ readers[j] > 0 BY DEF Inv, NoLostWakeup
  <2>2. readers[j] \in Nat BY DEF Inv, TypeOK
  <2>3. writer[j] => writer'[j] BY DEF Inv, TypeOK
  <2>4. readers'[j] >= readers[j] BY <2>2 DEF Inv, TypeOK
  <2>5. readers'[j] \in Nat BY <1>3 DEF TypeOK
  <2> HIDE DEF Take
  <2> QED BY <2>1, <2>2, <2>3, <2>4, <2>5
<1> QED BY <1>3, <1>4, <1>9, <1>10, <1>11, <1>12, <1>13 DEF Inv

\* A call joins the queue of a lock that is not available.
LEMMA EnqueueStep ==
    ASSUME Inv, NEW o \in Op, NEW k \in Key, Enqueue(o, k)
    PROVE  Inv'
<1> USE DEF Enqueue
<1>1. k \in KeysOf(o) /\ k \notin held[o] /\ pc[o] \in {"idle", "granted"} /\ ~ Aborted(o)
  BY DEF NextKeys, AtLoop
<1>2. TypeOK' BY DEF Inv, TypeOK, Status
<1>3. CountsExact' BY DEF Inv, CountsExact, Holders
<1>4. \A j \in Key : o \notin queue[j] BY <1>1 DEF Inv, WaitersWait
<1>5. \A p \in Op : p # o => pc'[p] = pc[p] /\ ahead'[p] = ahead[p]
  BY DEF Inv, TypeOK
<1>6. pc'[o] = "waiting" /\ ahead'[o] = queue[k] BY DEF Inv, TypeOK
<1>7. \A j \in Key : queue'[j] = IF j = k THEN queue[k] \cup {o} ELSE queue[j]
  BY DEF Inv, TypeOK
<1>8. queue \in [Key -> SUBSET Op] BY DEF Inv, TypeOK
<1>9. WaitersWait' BY <1>1, <1>5, <1>6, <1>7, <1>8 DEF Inv, WaitersWait
<1>10. OneQueue' BY <1>4, <1>7, <1>8 DEF Inv, OneQueue
<1>11. QueuesOrdered'
  <2> SUFFICES ASSUME NEW j \in Key PROVE Ordered(queue[j])' BY DEF QueuesOrdered
  <2>1. Ordered(queue[j]) BY DEF Inv, QueuesOrdered
  <2>2. CASE j # k
    <3>1. queue'[j] = queue[j] /\ \A p \in queue[j] : ahead'[p] = ahead[p]
      BY <2>2, <1>4, <1>5, <1>7, <1>8
    <3> QED BY <2>1, <3>1 DEF Ordered
  <2>3. CASE j = k
    <3>1. queue'[j] = queue[k] \cup {o} /\ o \notin queue[k]
          /\ \A p \in queue[k] : ahead'[p] = ahead[p]
      BY <2>3, <1>4, <1>5, <1>7, <1>8
    <3> QED BY <2>1, <2>3, <3>1, <1>6 DEF Ordered
  <2> QED BY <2>2, <2>3
<1>12. Progress'
  <2> SUFFICES ASSUME NEW p \in Op
               PROVE  /\ held'[p] \subseteq KeysOf(p)
                      /\ pc'[p] = "running" => KeysOf(p) \subseteq held'[p] /\ p \in ran'
                      /\ pc'[p] \in {"idle", "waiting", "granted"} => p \notin ran'
    BY DEF Progress
  <2> QED BY <1>1, <1>5, <1>6 DEF Inv, Progress
<1>13. NoAbortedWaiter' BY <1>1, <1>7 DEF Inv, NoAbortedWaiter, Aborted
<1>14. NoLostWakeup'
  <2> SUFFICES ASSUME NEW j \in Key, queue'[j] # {} PROVE writer[j] \/ readers[j] > 0
    BY DEF NoLostWakeup
  <2>1. CASE queue[j] # {} BY <2>1 DEF Inv, NoLostWakeup
  <2>2. CASE queue[j] = {}
    <3>1. j = k /\ readers[k] \in Nat BY <2>2, <1>7 DEF Inv, TypeOK
    <3> QED BY <3>1, <2>2 DEF Available
  <2> QED BY <2>1, <2>2
<1> QED BY <1>2, <1>3, <1>9, <1>10, <1>11, <1>12, <1>13, <1>14 DEF Inv

\* A call goes on, or gives up, without touching the locks.
LEMMA CallStep ==
    ASSUME Inv, NEW o \in Op, Enter(o) \/ GiveUp(o)
    PROVE  Inv'
<1> USE DEF Enter, GiveUp
<1>1. pc[o] \in {"idle", "granted"} /\ pc'[o] \in {"running", "leaving"}
      /\ UNCHANGED <<readers, writer, queue, ahead, held, aborted>>
  BY DEF AtLoop, Inv, TypeOK
<1>2. \A p \in Op : p # o => pc'[p] = pc[p] /\ (p \in ran' <=> p \in ran)
  BY DEF Inv, TypeOK
<1>3. TypeOK' BY DEF Inv, TypeOK, Status
<1>4. pc'[o] = "running" => KeysOf(o) \subseteq held[o] /\ o \in ran'
  BY <1>1 DEF Inv, TypeOK
<1> HIDE DEF Enter, GiveUp
<1>5. CountsExact' BY <1>1 DEF Inv, CountsExact, Holders
<1>6. \A j \in Key : o \notin queue[j] BY <1>1 DEF Inv, WaitersWait
<1>7. queue \in [Key -> SUBSET Op] BY DEF Inv, TypeOK
<1>8. WaitersWait' BY <1>1, <1>2, <1>6, <1>7 DEF Inv, WaitersWait
<1>9. OneQueue' /\ QueuesOrdered' BY <1>1 DEF Inv, OneQueue, QueuesOrdered, Ordered
<1>10. Progress' BY <1>1, <1>2, <1>4 DEF Inv, Progress
<1>11. NoAbortedWaiter' /\ NoLostWakeup'
  BY <1>1 DEF Inv, NoAbortedWaiter, NoLostWakeup, Aborted
<1> QED BY <1>3, <1>5, <1>8, <1>9, <1>10, <1>11 DEF Inv

\* A call ends and releases its locks.
LEMMA ReleaseStep ==
    ASSUME Inv, NEW o \in Op, Release(o)
    PROVE  Inv'
<1> DEFINE r == [k \in Key |-> IF k \in ReleasedBy(o) /\ ModeOf(o, k) = "read"
                               THEN readers[k] - 1 ELSE readers[k]]
           w == [k \in Key |-> writer[k] /\ ~ (k \in ReleasedBy(o) /\ ModeOf(o, k) = "write")]
           h == [p \in Op |-> IF p = o THEN {} ELSE held[p]]
           S == Woken(DrainedBy(o), r, w, queue)
<1>1. /\ pc[o] \in {"running", "leaving"}
      /\ Drain(DrainedBy(o), r, w, queue)
      /\ held' = [p \in Op |-> IF p = o THEN {}
                               ELSE held[p] \cup {k \in Key : p \in S[k]}]
      /\ pc' = [p \in Op |-> IF p = o THEN "done"
                             ELSE IF \E k \in Key : p \in S[k] THEN "granted"
                             ELSE pc[p]]
      /\ UNCHANGED <<ran, aborted>>
  BY DEF Release
<1>2. ReleasedBy(o) = held[o] /\ DrainedBy(o) = held[o] BY DEF ReleasedBy, DrainedBy
<1>3. /\ readers \in [Key -> Nat] /\ writer \in [Key -> BOOLEAN]
      /\ queue \in [Key -> SUBSET Op] /\ held \in [Op -> SUBSET Key]
  BY DEF Inv, TypeOK
<1>4. \A k \in Key : o \notin queue[k] BY <1>1 DEF Inv, WaitersWait
<1>5. \A k \in Key : o \notin S[k] BY <1>4 DEF Woken, Granted
<1>6. w \in [Key -> BOOLEAN] /\ h \in [Op -> SUBSET Key] BY <1>3
<1>7. ASSUME NEW k \in Key PROVE ExactAt(k, r, w, h) /\ r[k] \in Nat
  <2>1. ExactAt(k, readers, writer, held) BY CountsAreExact DEF Inv
  <2>2. CASE k \in held[o]
    <3>1. r[k] = (IF ModeOf(o, k) = "read" THEN readers[k] - 1 ELSE readers[k])
          /\ (w[k] <=> writer[k] /\ ModeOf(o, k) # "write")
      BY <1>2, <2>2
    <3>2. \A p \in Op : k \in h[p] <=> k \in held[p] /\ p # o OBVIOUS
    <3> HIDE DEF r, w, h
    <3> QED BY <1>3, <1>6, <2>1, <2>2, <3>1, <3>2, ExactRelease
  <2>3. CASE k \notin held[o]
    <3>1. r[k] = readers[k] /\ w[k] = writer[k] BY <1>2, <1>3, <2>3
    <3>2. \A p \in Op : k \in held[p] <=> k \in h[p] BY <2>3
    <3> HIDE DEF r, w, h
    <3> QED BY <1>3, <2>1, <3>1, <3>2, ExactSame
  <2> QED BY <2>2, <2>3
<1>8. r \in [Key -> Nat] BY <1>7
<1>9. held' = [p \in Op |-> h[p] \cup {k \in Key : p \in S[k]}]
  <2>1. \A p \in Op : p # o => h[p] = held[p] OBVIOUS
  <2>2. h[o] \cup {k \in Key : o \in S[k]} = {} BY <1>5
  <2> HIDE DEF h, S
  <2> QED BY <1>1, <2>1, <2>2
<1>10. \A k \in Key : \A p \in queue[k] : h[p] = held[p] BY <1>3, <1>4
<1>11. \A k \in Key \ DrainedBy(o) : queue[k] # {} => w[k] \/ r[k] > 0
  <2> TAKE k \in Key \ DrainedBy(o)
  <2>1. w[k] = writer[k] /\ r[k] = readers[k] BY <1>2, <1>3
  <2> QED BY <2>1 DEF Inv, NoLostWakeup
<1>12. \A k \in Key : Ordered(queue[k]) BY DEF Inv, QueuesOrdered
<1>13. /\ \A k \in Key : S[k] \subseteq queue[k]
       /\ \A k \in Key : ExactAt(k, readers', writer', held')
       /\ readers' \in [Key -> Nat] /\ writer' \in [Key -> BOOLEAN]
       /\ queue' = [k \in Key |-> queue[k] \ S[k]]
       /\ ahead' \in [Op -> SUBSET Op]
       /\ QueuesOrdered'
       /\ NoLostWakeup'
  <2>1. DrainedBy(o) \in SUBSET Key BY <1>2, <1>3
  <2> HIDE DEF r, w, h
  <2> QED BY <1>1, <1>3, <1>6, <1>7, <1>8, <1>9, <1>10, <1>11, <1>12, <2>1, DrainStep DEF Inv
<1>14. \A p \in Op, k \in Key : p \in S[k] =>
          /\ pc[p] = "waiting" /\ k \in KeysOf(p) /\ k \notin held[p] /\ p \in queue[k]
          /\ \A j \in Key : p \in S[j] => j = k
  <2>1. DrainedBy(o) \in SUBSET Key BY <1>2, <1>3
  <2> HIDE DEF r, w
  <2> QED BY <1>3, <2>1, WokenStep DEF Inv
<1> HIDE DEF r, w, h, S
<1>15. TypeOK'
  <2>1. held' \in [Op -> SUBSET Key] BY <1>9, <1>6
  <2>2. queue' \in [Key -> SUBSET Op] BY <1>13, <1>3
  <2>3. pc' \in [Op -> Status] BY <1>1 DEF Inv, TypeOK, Status
  <2> QED BY <1>1, <1>13, <2>1, <2>2, <2>3 DEF Inv, TypeOK
<1>16. CountsExact' BY <1>13 DEF CountsExact, ExactAt, HoldersIn, Holders
<1>17. \A k \in Key : \A p \in queue'[k] :
          p \in queue[k] /\ p # o /\ p \in Op /\ pc'[p] = "waiting" /\ held'[p] = held[p]
  <2> TAKE k \in Key
  <2> TAKE p \in queue'[k]
  <2>1. p \in queue[k] /\ p \notin S[k] /\ p # o /\ p \in Op BY <1>13, <1>3, <1>4
  <2>2. \A j \in Key : p \notin S[j] BY <2>1, <1>13 DEF Inv, OneQueue
  <2>3. pc[p] = "waiting" BY <2>1 DEF Inv, WaitersWait
  <2>4. {j \in Key : p \in S[j]} = {} BY <2>2
  <2> QED BY <2>1, <2>2, <2>3, <2>4, <1>1
<1>18. WaitersWait' BY <1>17 DEF Inv, WaitersWait
<1>19. OneQueue' BY <1>17 DEF Inv, OneQueue
<1>20. Progress'
  <2> SUFFICES ASSUME NEW p \in Op
               PROVE  /\ held'[p] \subseteq KeysOf(p)
                      /\ pc'[p] = "running" => KeysOf(p) \subseteq held'[p] /\ p \in ran'
                      /\ pc'[p] \in {"idle", "waiting", "granted"} => p \notin ran'
    BY DEF Progress
  <2>1. CASE p = o BY <2>1, <1>1
  <2>2. CASE p # o /\ \E k \in Key : p \in S[k]
    BY <2>2, <1>1, <1>14 DEF Inv, Progress
  <2>3. CASE p # o /\ ~ \E k \in Key : p \in S[k]
    <3>1. {j \in Key : p \in S[j]} = {} /\ pc'[p] = pc[p] BY <2>3, <1>1
    <3>2. held'[p] = held[p] BY <3>1, <2>3, <1>1
    <3> QED BY <3>1, <3>2, <1>1 DEF Inv, Progress
  <2> QED BY <2>1, <2>2, <2>3
<1>21. NoAbortedWaiter' BY <1>1, <1>17 DEF Inv, NoAbortedWaiter, Aborted
<1> QED BY <1>13, <1>15, <1>16, <1>18, <1>19, <1>20, <1>21 DEF Inv

\* A turn is cancelled.
LEMMA AbortStep ==
    ASSUME Inv, NEW s \in Signal, Abort(s)
    PROVE  Inv'
<1> DEFINE gone == UNION {Leavers(s, k) : k \in Key}
           q == [k \in Key |-> queue[k] \ gone]
           D == {k \in Key : Leavers(s, k) # {}}
           S == Woken(D, readers, writer, q)
<1>1. /\ aborted' = aborted \cup {s}
      /\ Drain(D, readers, writer, q)
      /\ held' = [p \in Op |-> held[p] \cup {k \in Key : p \in S[k]}]
      /\ pc' = [p \in Op |-> IF p \in gone THEN "leaving"
                             ELSE IF \E k \in Key : p \in S[k] THEN "granted"
                             ELSE pc[p]]
      /\ ran' = ran
  BY DEF Abort
<1>2. /\ readers \in [Key -> Nat] /\ writer \in [Key -> BOOLEAN]
      /\ queue \in [Key -> SUBSET Op] /\ held \in [Op -> SUBSET Key]
      /\ ahead \in [Op -> SUBSET Op]
  BY DEF Inv, TypeOK
<1>3. \A k \in Key : queue[k] \cap gone = Leavers(s, k)
  BY <1>2 DEF Inv, OneQueue, Leavers
<1>4. q \in [Key -> SUBSET Op] /\ \A k \in Key : q[k] \subseteq queue[k] BY <1>2
\* A queue that is left to others had a holder, and keeps it: no waiter of a
\* held lock is woken.
<1>5. \A k \in Key : queue[k] # {} => ~ IsFree(readers[k], writer[k])
  BY <1>2 DEF Inv, NoLostWakeup, IsFree
<1>6. \A k \in Key : S[k] = {}
  BY <1>4, <1>5 DEF Woken, Granted
<1>7. queue' = q /\ readers' = readers /\ writer' = writer
  <2>1. \A k \in Key : ReadersAmong(k, S[k]) = 0 BY <1>6, FS_EmptySet DEF ReadersAmong
  <2>2. \A k \in Key : readers[k] + 0 = readers[k] BY <1>2
  <2>3. readers' = [k \in Key |-> readers[k] + ReadersAmong(k, S[k])]
        /\ writer' = [k \in Key |-> writer[k] \/ \E o \in S[k] : ModeOf(o, k) = "write"]
        /\ queue' = [k \in Key |-> q[k] \ S[k]]
    BY <1>1 DEF Drain
  <2>4. \A k \in Key : readers[k] + ReadersAmong(k, S[k]) = readers[k] BY <2>1, <2>2
  <2>5. \A k \in Key : q[k] \ S[k] = q[k] BY <1>6
  <2> HIDE DEF S, q
  <2>6. readers' = readers BY <2>3, <2>4, <1>2
  <2>7. writer' = writer BY <2>3, <1>6, <1>2
  <2>8. queue' = q BY <2>3, <2>5, <1>4
  <2> QED BY <2>6, <2>7, <2>8
<1>8. ahead' = [o \in Op |-> ahead[o] \cap UNION {q[k] : k \in Key}]
  <2>1. ahead' = [o \in Op |-> ahead[o] \cap UNION {q[k] \ S[k] : k \in Key}]
    BY <1>1 DEF Drain
  <2>2. \A k \in Key : q[k] \ S[k] = q[k] BY <1>6
  <2> HIDE DEF S, q
  <2> QED BY <2>1, <2>2
<1>9. held' = held
  <2>1. \A p \in Op : {k \in Key : p \in S[k]} = {} BY <1>6
  <2> HIDE DEF S
  <2> QED BY <1>1, <1>2, <2>1
<1>10. pc' = [p \in Op |-> IF p \in gone THEN "leaving" ELSE pc[p]]
  <2>1. \A p \in Op : ~ \E k \in Key : p \in S[k] BY <1>6
  <2> HIDE DEF S, gone
  <2> QED BY <1>1, <2>1
<1>11. \A p \in gone : p \in Op /\ pc[p] = "waiting" BY <1>2 DEF Leavers, Inv, WaitersWait
<1>12. TypeOK'
  <2>1. pc' \in [Op -> Status] BY <1>10 DEF Inv, TypeOK, Status
  <2>2. aborted' \subseteq Signal BY <1>1 DEF Inv, TypeOK
  <2>3. ahead' \in [Op -> SUBSET Op] BY <1>8, <1>2
  <2> HIDE DEF q, gone, S
  <2> QED BY <1>1, <1>2, <1>4, <1>7, <1>9, <2>1, <2>2, <2>3 DEF Inv, TypeOK
<1>13. CountsExact' BY <1>7, <1>9 DEF Inv, CountsExact, Holders
<1>14. WaitersWait'
  <2>1. \A k \in Key : \A p \in q[k] : p \in queue[k] /\ p \in Op /\ p \notin gone BY <1>4
  <2> HIDE DEF q, gone
  <2> QED BY <1>7, <1>9, <1>10, <2>1 DEF Inv, WaitersWait
<1>15. OneQueue' BY <1>7 DEF Inv, OneQueue
<1>16. QueuesOrdered'
  <2> SUFFICES ASSUME NEW k \in Key PROVE Ordered(queue[k])' BY DEF QueuesOrdered
  <2> DEFINE U == UNION {q[j] : j \in Key}
  <2>1. queue[k] \cap U = q[k] BY DEF Inv, OneQueue
  <2>2. queue[k] \in SUBSET Op /\ Ordered(queue[k]) BY <1>2 DEF Inv, QueuesOrdered
  <2>3. queue'[k] = queue[k] \cap U BY <1>7, <2>1
  <2> HIDE DEF U, q, gone
  <2>4. ahead' = [o \in Op |-> ahead[o] \cap U] BY <1>8 DEF U
  <2> QED BY <1>2, <2>2, <2>3, <2>4, OrderedRest
<1>17. Progress'
  <2> HIDE DEF gone
  <2>1. \A p \in Op : pc'[p] = pc[p] \/ (p \in gone /\ pc'[p] = "leaving") BY <1>10
  <2> QED BY <1>1, <1>9, <2>1 DEF Inv, Progress
<1>18. NoAbortedWaiter'
  <2> SUFFICES ASSUME NEW k \in Key, NEW p \in queue'[k] PROVE SignalOf[p] \notin aborted'
    BY DEF NoAbortedWaiter, Aborted
  <2>1. p \in queue[k] /\ p \notin gone BY <1>7
  <2>2. SignalOf[p] # s BY <2>1 DEF Leavers
  <2>3. SignalOf[p] \notin aborted BY <2>1 DEF Inv, NoAbortedWaiter, Aborted
  <2> QED BY <1>1, <2>2, <2>3
<1>19. NoLostWakeup' BY <1>7 DEF Inv, NoLostWakeup
<1> QED BY <1>12, <1>13, <1>14, <1>15, <1>16, <1>17, <1>18, <1>19 DEF Inv

-----------------------------------------------------------------------------
(* The theorems                                                            *)

\* The initial state satisfies the invariant.
LEMMA InitInv == Init => Inv
<1> SUFFICES ASSUME Init PROVE Inv OBVIOUS
<1> USE DEF Init
<1>1. TypeOK BY DEF TypeOK, Status
<1>2. CountsExact
  <2>1. \A k \in Key : Holders(k, "read") = {} /\ Holders(k, "write") = {} BY DEF Holders
  <2> QED BY <2>1, FS_EmptySet DEF CountsExact
<1>3. WaitersWait /\ OneQueue /\ QueuesOrdered /\ NoAbortedWaiter /\ NoLostWakeup
  BY DEF WaitersWait, OneQueue, QueuesOrdered, Ordered, NoAbortedWaiter, NoLostWakeup
<1>4. Progress BY DEF Progress
<1> QED BY <1>1, <1>2, <1>3, <1>4 DEF Inv

\* Every step preserves the invariant.
LEMMA StepInv == Inv /\ [Next]_vars => Inv'
<1> SUFFICES ASSUME Inv, [Next]_vars PROVE Inv' OBVIOUS
<1>1. ASSUME NEW o \in Op, OpStep(o) PROVE Inv'
  BY <1>1, TakeStep, EnqueueStep, CallStep, ReleaseStep DEF OpStep
<1>2. ASSUME NEW s \in Signal, Abort(s) PROVE Inv' BY <1>2, AbortStep
<1>3. CASE UNCHANGED vars
  <2> USE <1>3 DEF vars
  <2>1. TypeOK' /\ WaitersWait' BY DEF Inv, TypeOK, WaitersWait
  <2>2. CountsExact' BY DEF Inv, CountsExact, Holders
  <2>3. OneQueue' /\ QueuesOrdered' BY DEF Inv, OneQueue, QueuesOrdered, Ordered
  <2>4. Progress' BY DEF Inv, Progress
  <2>5. NoAbortedWaiter' /\ NoLostWakeup' BY DEF Inv, NoAbortedWaiter, NoLostWakeup, Aborted
  <2> QED BY <2>1, <2>2, <2>3, <2>4, <2>5 DEF Inv
<1> QED BY <1>1, <1>2, <1>3 DEF Next, Terminated

\* The invariant holds in every state.
THEOREM Invariance == Spec => []Inv
BY InitInv, StepInv, PTL DEF Spec

\* The state is of its type: in particular no counter of readers goes below
\* zero, however calls end, give up and are cancelled.
THEOREM TypeCorrect == Spec => []TypeOK
BY Invariance, PTL DEF Inv

\* The counters of every lock tell its holders, of which at most one writes.
THEOREM Counts == Spec => []CountsExact
BY Invariance, PTL DEF Inv

\* A lock that calls wait for is held by a call that will wake them.
THEOREM Wakeups == Spec => []NoLostWakeup
BY Invariance, PTL DEF Inv

\* A call that was cancelled waits in no queue.
THEOREM Cancelled == Spec => []NoAbortedWaiter
BY Invariance, PTL DEF Inv

\* Two calls that hold a key hold it for reading.
LEMMA SharedReads ==
    ASSUME Inv, NEW o \in Op, NEW p \in Op, o # p, NEW k \in Key,
           k \in held[o], k \in held[p]
    PROVE  ModeOf(o, k) = "read" /\ ModeOf(p, k) = "read"
<1> DEFINE R == Holders(k, "read")
           W == Holders(k, "write")
<1>1. R \in SUBSET Op /\ W \in SUBSET Op BY DEF Holders
<1>2. /\ readers[k] = Cardinality(R) /\ (writer[k] <=> W # {})
      /\ Cardinality(W) <= 1 /\ (writer[k] => readers[k] = 0)
  BY DEF Inv, CountsExact
<1>3. IsFiniteSet(R) /\ IsFiniteSet(W) /\ Cardinality(W) \in Nat BY <1>1, FiniteOps
<1>4. W # {} => R = {}
  <2>1. Cardinality(R) = 0 => R = {} BY <1>3, FS_EmptySet
  <2> HIDE DEF R, W
  <2> QED BY <1>2, <2>1
<1>5. \A x, y \in W : x = y
  <2> SUFFICES ASSUME NEW x \in W, NEW y \in W, x # y PROVE FALSE OBVIOUS
  <2>1. {x, y} \in SUBSET W OBVIOUS
  <2>2. Cardinality({x, y}) = 2
    <3>1. IsFiniteSet({x}) /\ Cardinality({x}) = 1 BY FS_Singleton
    <3>2. Cardinality({x} \cup {y}) = 2 BY <3>1, FS_AddElement, SMTT(30)
    <3>3. {x} \cup {y} = {x, y} OBVIOUS
    <3> QED BY <3>2, <3>3
  <2>3. Cardinality({x, y}) <= Cardinality(W) BY <2>1, <1>3, FS_Subset
  <2> HIDE DEF W
  <2> QED BY <2>2, <2>3, <1>2, <1>3
<1>6. ModeOf(o, k) \in {"read", "write"} /\ ModeOf(p, k) \in {"read", "write"} BY Modes
<1>7. /\ ModeOf(o, k) = "read" => o \in R
      /\ ModeOf(p, k) = "read" => p \in R
      /\ ModeOf(o, k) = "write" => o \in W
      /\ ModeOf(p, k) = "write" => p \in W
  BY DEF Holders
<1> HIDE DEF R, W
<1> QED BY <1>4, <1>5, <1>6, <1>7

\* The invariant excludes two calls that run and conflict.
LEMMA InvExcludes == Inv => Exclusion
<1> SUFFICES ASSUME Inv, NEW o \in Running, NEW p \in Running, Conflicts(o, p) PROVE FALSE
  BY DEF Exclusion
<1>1. PICK k \in KeysOf(o) \cap KeysOf(p) :
          {<<k, "write">>} \cap (Request[o] \cup Request[p]) # {}
  BY DEF Conflicts
<1>2. o \in Op /\ p \in Op /\ o # p BY DEF Conflicts, Running
<1>3. k \in Key BY <1>1, <1>2, Modes
<1>4. k \in held[o] /\ k \in held[p] BY <1>1, <1>2 DEF Inv, Progress, Running
<1>5. ModeOf(o, k) = "read" /\ ModeOf(p, k) = "read" BY <1>2, <1>3, <1>4, SharedReads
<1>6. <<k, "write">> \notin Request[o] /\ <<k, "write">> \notin Request[p]
  BY <1>5 DEF ModeOf
<1> QED BY <1>1, <1>6

\* It does so in the next state.
LEMMA NextExcludes == Inv' => Exclusion'
BY InvExcludes, PTL

\* Operations that conflict never run at the same time.
THEOREM Excludes == Spec => []Exclusion
BY Invariance, InvExcludes, PTL

\* A step of the locks is a step of the promise, or changes nothing of it.
LEMMA StepRefines == Inv /\ Inv' /\ [Next]_vars => [Promise!Next]_(Promise!vars)
<1> SUFFICES ASSUME Inv, Inv', [Next]_vars PROVE [Promise!Next]_(Promise!vars) OBVIOUS
<1> USE DEF Promise!vars
<1>0. Exclusion' BY NextExcludes
<1>1. pc \in [Op -> Status] /\ ran \subseteq Op BY DEF Inv, TypeOK
<1>2. ASSUME NEW o \in Op, Enter(o) PROVE Promise!Enter(o)
  <2>1. /\ pc[o] \in {"idle", "granted"} /\ pc' = [pc EXCEPT ![o] = "running"]
        /\ ran' = ran \cup {o}
    BY <1>2 DEF Enter, AtLoop
  <2>2. o \notin ran /\ o \notin Running BY <2>1 DEF Inv, Progress, Running
  <2>3. Running' = Running \cup {o} BY <1>1, <2>1 DEF Running
  <2>4. \A p \in Running : ~ Conflicts(o, p) BY <2>3, <1>0 DEF Exclusion
  <2>5. ran' \ Running' = ran \ Running BY <2>1, <2>2, <2>3
  <2> QED BY <2>2, <2>3, <2>4, <2>5 DEF Promise!Enter
<1>3. ASSUME NEW o \in Op, Release(o) PROVE [Promise!Exit(o)]_(Promise!vars)
  <2>1. /\ pc[o] \in {"running", "leaving"} /\ ran' = ran /\ pc'[o] = "done"
        /\ \A p \in Op : p # o => pc'[p] = pc[p] \/ (pc'[p] = "granted" /\ pc[p] = "waiting")
    <3>1. DrainedBy(o) \in SUBSET Key BY DEF DrainedBy, Inv, TypeOK
    <3>2. queue \in [Key -> SUBSET Op] BY DEF Inv, TypeOK
    <3>3. \A r, w : \A p \in Op, k \in Key :
              p \in Woken(DrainedBy(o), r, w, queue)[k] => pc[p] = "waiting"
      BY <3>1, <3>2, WokenStep DEF Inv
    <3> QED BY <1>3, <3>3 DEF Release
  <2>2. Running' = Running \ {o} BY <2>1 DEF Running
  <2>3. CASE pc[o] = "running"
    <3>1. o \in Running /\ o \in ran BY <2>3 DEF Running, Inv, Progress
    <3>2. ran' \ Running' = (ran \ Running) \cup {o} BY <2>1, <2>2, <3>1
    <3> QED BY <2>2, <3>1, <3>2 DEF Promise!Exit
  <2>4. CASE pc[o] = "leaving"
    <3>1. Running' = Running BY <2>2, <2>4 DEF Running
    <3> QED BY <2>1, <3>1
  <2> QED BY <2>1, <2>3, <2>4
<1>4. ASSUME NEW o \in Op, NEW k \in Key, Take(o, k) \/ Enqueue(o, k)
      PROVE  UNCHANGED Promise!vars
  <2>1. ran' = ran /\ Running' = Running
    BY <1>1, <1>4 DEF Take, Enqueue, AtLoop, Running
  <2> QED BY <2>1
<1>5. ASSUME NEW o \in Op, GiveUp(o) PROVE UNCHANGED Promise!vars
  <2>1. ran' = ran /\ Running' = Running
    BY <1>1, <1>5 DEF GiveUp, AtLoop, Running
  <2> QED BY <2>1
<1>6. ASSUME NEW s \in Signal, Abort(s) PROVE UNCHANGED Promise!vars
  <2> DEFINE gone == UNION {Leavers(s, k) : k \in Key}
             q == [k \in Key |-> queue[k] \ gone]
             D == {k \in Key : Leavers(s, k) # {}}
             S == Woken(D, readers, writer, q)
  <2>1. queue \in [Key -> SUBSET Op] BY DEF Inv, TypeOK
  <2>2. \A p \in gone : pc[p] = "waiting" BY <2>1 DEF Leavers, Inv, WaitersWait
  <2>3. \A k \in Key : S[k] \subseteq queue[k] BY <2>1 DEF Woken, Granted
  <2>4. \A p \in Op : (\E k \in Key : p \in S[k]) => pc[p] = "waiting"
    BY <2>1, <2>3 DEF Inv, WaitersWait
  <2>5. /\ ran' = ran
        /\ pc' = [p \in Op |-> IF p \in gone THEN "leaving"
                               ELSE IF \E k \in Key : p \in S[k] THEN "granted" ELSE pc[p]]
    BY <1>6 DEF Abort
  <2> HIDE DEF gone, S
  <2>6. Running' = Running BY <1>1, <2>2, <2>4, <2>5 DEF Running
  <2> QED BY <2>5, <2>6
<1>7. CASE UNCHANGED vars
  <2>1. ran' = ran /\ Running' = Running BY <1>7 DEF vars, Running
  <2> QED BY <2>1
<1> QED
  BY <1>2, <1>3, <1>4, <1>5, <1>6, <1>7 DEF Next, OpStep, Terminated, Promise!Next

\* The locks implement their promise.
THEOREM Implements == Spec => RefinesPromise
<1>1. Init => Promise!Init BY DEF Init, Promise!Init, Running
<1> QED BY <1>1, StepRefines, Invariance, PTL DEF Spec, RefinesPromise, Promise!Spec

\* A call that is woken came before those that stay and conflict with it.
LEMMA WokenInOrder ==
    ASSUME NEW k \in Key, NEW q \in SUBSET Op, Ordered(q),
           NEW o \in Granted(k, q), NEW p \in q, p \notin Granted(k, q),
           "write" \in {ModeOf(o, k), ModeOf(p, k)}
    PROVE  o \in q /\ o \in ahead[p]
<1>1. o \in q /\ o # p BY DEF Granted
<1>2. CASE ahead[o] \cap q = {} BY <1>1, <1>2 DEF Ordered
<1>3. CASE \A x \in {o} \cup (ahead[o] \cap q) : ModeOf(x, k) = "read"
  <2>1. ModeOf(p, k) = "write" BY <1>3
  <2>2. p \notin ahead[o] BY <1>3, <2>1
  <2> QED BY <1>1, <2>2 DEF Ordered
<1> QED BY <1>2, <1>3 DEF Granted

\* A call gets a lock in front of one that waits, and stays, only if they do
\* not conflict or if it had come first.
THEOREM InOrder == Spec => NoOvertaking
<1> DEFINE A == \A k \in Key : \A p \in queue[k] \cap queue'[k] : \A o \in Op :
                  (k \in held'[o] \ held[o] /\ "write" \in {ModeOf(o, k), ModeOf(p, k)})
                    => o \in queue[k] /\ o \in ahead[p]
<1>1. Inv /\ [Next]_vars => [A]_vars
  <2> SUFFICES ASSUME Inv, Next, NEW k \in Key, NEW p \in queue[k] \cap queue'[k],
                      NEW o \in Op, k \in held'[o] \ held[o],
                      "write" \in {ModeOf(o, k), ModeOf(p, k)}
               PROVE  o \in queue[k] /\ o \in ahead[p]
    OBVIOUS
  <2>1. /\ queue \in [Key -> SUBSET Op] /\ held \in [Op -> SUBSET Key]
        /\ Ordered(queue[k])
    BY DEF Inv, TypeOK, QueuesOrdered
  <2>2. ASSUME NEW x \in Op, NEW j \in Key, Take(x, j) PROVE FALSE
    <3>1. x = o /\ j = k BY <2>1, <2>2 DEF Take
    <3>2. Available(k, o) BY <2>2, <3>1 DEF Take
    <3>3. ModeOf(o, k) \in {"read", "write"} BY Modes
    <3> QED BY <3>2, <3>3 DEF Available
  <2>3. ASSUME NEW x \in Op, Release(x) PROVE o \in queue[k] /\ o \in ahead[p]
    <3> DEFINE r == [j \in Key |-> IF j \in ReleasedBy(x) /\ ModeOf(x, j) = "read"
                                   THEN readers[j] - 1 ELSE readers[j]]
               w == [j \in Key |-> writer[j] /\ ~ (j \in ReleasedBy(x) /\ ModeOf(x, j) = "write")]
               S == Woken(DrainedBy(x), r, w, queue)
    <3>1. o \in S[k] BY <2>1, <2>3 DEF Release
    <3>2. p \notin S[k] BY <2>3 DEF Release, Drain
    <3>3. S[k] = Granted(k, queue[k]) BY <3>1 DEF Woken
    <3> HIDE DEF S
    <3> QED BY <2>1, <3>1, <3>2, <3>3, WokenInOrder
  <2>4. ASSUME NEW s \in Signal, Abort(s) PROVE FALSE
    <3> DEFINE gone == UNION {Leavers(s, j) : j \in Key}
               q == [j \in Key |-> queue[j] \ gone]
               D == {j \in Key : Leavers(s, j) # {}}
               S == Woken(D, readers, writer, q)
    <3>1. o \in S[k] BY <2>1, <2>4 DEF Abort
    <3>2. IsFree(readers[k], writer[k]) BY <3>1 DEF Woken
    <3>3. writer[k] \/ readers[k] > 0 BY DEF Inv, NoLostWakeup
    <3> QED BY <3>2, <3>3 DEF IsFree
  <2>5. ASSUME held' = held PROVE FALSE BY <2>5
  <2> QED
    BY <2>2, <2>3, <2>4, <2>5
    DEF Next, OpStep, Terminated, vars, Enqueue, Enter, GiveUp
<1> QED BY <1>1, Invariance, PTL DEF Spec, NoOvertaking
=============================================================================
