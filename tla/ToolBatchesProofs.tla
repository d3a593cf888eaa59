--------------------------- MODULE ToolBatchesProofs ---------------------------
(***************************************************************************)
(* Proofs about ToolBatches, for any ids, model calls and turns: a rejected  *)
(* batch does not run, a call runs on its own decision once its whole batch  *)
(* was decided, what was started is told, and the tables belong to the turn  *)
(* that runs.  The tables are keyed by ids that models use again, so the     *)
(* invariant says which occurrence an entry is about: always a call of the   *)
(* latest batch of the turn, since the batches before it are complete and    *)
(* took their entries with them.                                             *)
(***************************************************************************)
EXTENDS ToolBatches, FiniteSetTheorems, TLAPS

PrepType == [at : {"none", "queued", "checking", "over"}, batch : Batch \cup {0},
             prev : Call \cup {None}, outcome : Outcome \cup {"none"}]

ExecType == [at : {"none", "admission", "locks", "revalidating", "running", "done"},
             batch : Batch \cup {0}, entry : Entry \cup {None}]

Types ==
    /\ batch \in [Batch -> BatchType]
    /\ mapped \subseteq Batch
    /\ byCall \in [Id -> Batch \cup {None}]
    /\ active \in Batch \cup {None}
    /\ prepared \in [Id -> Entry \cup {None}]
    /\ tail \in Call \cup {None}
    /\ prep \in [Call -> PrepType]
    /\ exec \in [Call -> ExecType]
    /\ flags \subseteq Id \X Batch
    /\ turn \in 0 .. MaxTurn
    /\ over \subseteq 0 .. MaxTurn
    /\ stream \in {"open", "ended", "failed"}
    /\ ran \subseteq Call

\* The batch of the model call that the turn is at.
Current(b) == ~ Idle /\ Latest(b) /\ batch[b].turn = turn

\* Nothing of the batch b is left to do (what IsComplete counts).
Complete(b) == batch[b].released /\ batch[b].completed = batch[b].ids

\* Turns and batches begin in order, and a batch is blank until it does.
Order ==
    /\ \A t \in over : t <= turn
    /\ \A b \in Batch : batch[b].turn <= turn
    /\ \A x, y \in Batch : x < y /\ Started(y) => Started(x)
    /\ \A b \in Batch : ~ Started(b) => batch[b] = NoBatch

\* Where the stream is, its last batch is.
StreamKnows ==
    /\ Idle => stream = "ended"
    /\ stream # "ended" => active # None
    /\ active # None => Current(active) /\ stream # "ended"
    /\ \A b \in Batch : Current(b) =>
          /\ stream # "ended" => ~ batch[b].sealed
          /\ stream = "ended" => batch[b].sealed /\ batch[b].ids = batch[b].known

\* What a batch has of its calls is a part of what it has.
Parts ==
    \A b \in Batch :
        /\ batch[b].ids \subseteq IdsOf(b)
        /\ batch[b].known \subseteq batch[b].ids
        /\ batch[b].prepared \subseteq batch[b].ids
        /\ batch[b].completed \subseteq batch[b].ids

\* What a batch knows of a call, and the call of its batch.
CallsOf ==
    \A c \in Call :
        /\ prep[c].at # "none" => prep[c].batch = c[2] /\ c[1] \in batch[c[2]].ids
        /\ c[1] \in batch[c[2]].prepared <=> prep[c].at = "over"
        /\ c[1] \in batch[c[2]].completed <=> exec[c].at = "done"
        /\ exec[c].at # "none" => exec[c].batch = c[2] /\ prep[c].at = "over"
        /\ exec[c].at \in {"none", "admission"} => exec[c].entry = None
        /\ prep[c].outcome # "none" => prep[c].at = "over"
        /\ prep[c].outcome = "rejected" => batch[c[2]].rejected

\* A batch is released as soon as it is ready, and is not left behind by the
\* turn before it is complete, unless it is cancelled.
Batches ==
    \A b \in Batch :
        /\ Ready(batch[b]) => batch[b].released
        /\ batch[b].released =>
              batch[b].sealed /\ (batch[b].cancelled \/ batch[b].ids \subseteq batch[b].prepared)
        /\ Started(b) => Complete(b) \/ batch[b].cancelled \/ Current(b)
        /\ ~ Idle /\ Started(b) /\ batch[b].turn = turn /\ ~ Latest(b) => Complete(b)
        /\ Current(b) => b \in mapped \/ Complete(b)
        /\ b \in mapped => Started(b)

\* An entry is about a call of the current batch, which is incomplete; all
\* the calls of such a batch have theirs.
TablesCurrent ==
    /\ \A i \in Id : byCall[i] # None =>
          Current(byCall[i]) /\ i \in batch[byCall[i]].ids /\ ~ Complete(byCall[i])
    /\ \A i \in Id : prepared[i] # None =>
          LET e == prepared[i] IN
          /\ e.call = <<i, e.batch>> /\ Current(e.batch) /\ ~ Complete(e.batch)
          /\ prep[e.call].at = "over" /\ (e.blocked <=> prep[e.call].outcome # "ok")
    /\ \A b \in Batch : Current(b) /\ ~ Complete(b) => \A i \in batch[b].ids : byCall[i] = b

\* Every call of the batch b was decided.
Decided(b) ==
    batch[b].sealed /\ batch[b].released /\ batch[b].ids \subseteq batch[b].prepared

\* A call that was admitted may run, and nothing has changed that since.
Allowed ==
    \A c \in Call : exec[c].at \in {"locks", "revalidating", "running"} \/ c \in ran =>
        /\ exec[c].entry = [call |-> c, batch |-> c[2], blocked |-> FALSE]
        /\ prep[c].outcome = "ok"
        /\ Decided(c[2]) /\ ~ batch[c[2]].rejected

Inv ==
    /\ Types /\ Order /\ StreamKnows /\ Parts /\ CallsOf /\ Batches
    /\ TablesCurrent /\ Allowed /\ StartedIsTold

-----------------------------------------------------------------------------
(* Lemmas about the operators.                                              *)

\* The count of completed calls says whether all of them are.
LEMMA CompleteIsAll ==
    ASSUME NEW r \in BatchType, r.completed \subseteq r.ids
    PROVE  IsComplete(r) <=> r.released /\ r.completed = r.ids
<1>1. IsFiniteSet(r.ids)
    BY BatchesAssumption, FS_Subset, SMT DEF BatchType
<1>2. /\ Cardinality(r.completed) \in Nat /\ Cardinality(r.ids) \in Nat
      /\ r.completed # r.ids => Cardinality(r.completed) < Cardinality(r.ids)
    <2>1. IsFiniteSet(r.completed)
        BY <1>1, FS_Subset
    <2>2. Cardinality(r.completed) \in Nat /\ Cardinality(r.ids) \in Nat
        BY <1>1, <2>1, FS_CardinalityType
    <2>3. ASSUME r.completed # r.ids
          PROVE  Cardinality(r.completed) < Cardinality(r.ids)
        BY <1>1, <2>2, <2>3, FS_Subset, SMT
    <2>. QED  BY <2>2, <2>3
<1>. QED  BY <1>2, SMT DEF IsComplete

\* What a change of the batch b does, of which the calls in r.completed are
\* complete: the others stay, and what is complete leaves the tables.
Became(b, r, map, by, entries) ==
    /\ batch' \in [Batch -> BatchType] /\ batch'[b] = r
    /\ \A x \in Batch : x # b => batch'[x] = batch[x]
    /\ mapped' \in SUBSET Batch
    /\ \A x \in Batch : x \in mapped' <=> x \in map /\ ~ (Complete(b)' /\ x = b)
    /\ byCall' \in [Id -> Batch \cup {None}]
    /\ \A i \in Id : byCall'[i] # by[i] => byCall'[i] = None /\ Complete(b)' /\ by[i] = b
    /\ Complete(b)' => \A i \in r.ids : byCall'[i] # b
    /\ prepared' \in [Id -> Entry \cup {None}]
    /\ \A i \in Id : prepared'[i] # entries[i] => prepared'[i] = None /\ Complete(b)'
    /\ Complete(b)' => \A i \in r.ids : prepared'[i] # None => prepared'[i].batch # b

\* It is what Become does to a state of the types.
LEMMA BecomeEffect ==
    ASSUME NEW b \in Batch, NEW r \in BatchType, r.completed \subseteq r.ids,
           NEW map \in SUBSET Batch, NEW by \in [Id -> Batch \cup {None}],
           NEW entries \in [Id -> Entry \cup {None}],
           batch \in [Batch -> BatchType],
           Become(b, r, map, by, entries)
    PROVE  Became(b, r, map, by, entries)
<1>0. r.ids \subseteq Id
    BY DEF BatchType
<1>1. /\ batch' \in [Batch -> BatchType]
      /\ batch'[b] = r
      /\ \A x \in Batch : x # b => batch'[x] = batch[x]
    BY SMT DEF Become
<1>2. Complete(b)' <=> IsComplete(r)
    BY <1>1, CompleteIsAll, SMT DEF Complete
<1>3. /\ mapped' \in SUBSET Batch
      /\ \A x \in Batch : x \in mapped' <=> x \in map /\ ~ (IsComplete(r) /\ x = b)
    BY SMT DEF Become
<1>4. /\ byCall' \in [Id -> Batch \cup {None}]
      /\ \A i \in Id : byCall'[i] =
            IF IsComplete(r) /\ i \in r.ids /\ by[i] = b THEN None ELSE by[i]
    BY SMT DEF Become
<1>5. /\ prepared' \in [Id -> Entry \cup {None}]
      /\ \A i \in Id : prepared'[i] =
            IF IsComplete(r) /\ i \in r.ids /\ entries[i] # None /\ entries[i].batch = b
            THEN None ELSE entries[i]
    BY SMT DEF Become
<1>6. /\ \A i \in Id : byCall'[i] # by[i] => byCall'[i] = None /\ IsComplete(r) /\ by[i] = b
      /\ IsComplete(r) => \A i \in r.ids : byCall'[i] # b
    <2>1. ASSUME NEW i \in Id, IsComplete(r), i \in r.ids, by[i] = b PROVE byCall'[i] = None
        BY <1>4, <2>1
    <2>2. ASSUME NEW i \in Id, ~ (IsComplete(r) /\ i \in r.ids /\ by[i] = b)
          PROVE  byCall'[i] = by[i]
        BY <1>4, <2>2
    <2>3. \A i \in Id : byCall'[i] # by[i] => byCall'[i] = None /\ IsComplete(r) /\ by[i] = b
        BY <2>1, <2>2
    <2>4. ASSUME NEW i \in r.ids, IsComplete(r)
          PROVE  byCall'[i] # b
        BY <1>0, <2>1, <2>2, <2>4, BatchesAssumption
    <2>. QED  BY <2>3, <2>4
<1>7. /\ \A i \in Id : prepared'[i] # entries[i] => prepared'[i] = None /\ IsComplete(r)
      /\ IsComplete(r) => \A i \in r.ids : prepared'[i] # None => prepared'[i].batch # b
    <2>1. ASSUME NEW i \in Id, IsComplete(r), i \in r.ids, entries[i] # None,
                 entries[i].batch = b
          PROVE  prepared'[i] = None
        BY <1>5, <2>1
    <2>2. ASSUME NEW i \in Id,
                 ~ (IsComplete(r) /\ i \in r.ids /\ entries[i] # None /\ entries[i].batch = b)
          PROVE  prepared'[i] = entries[i]
        BY <1>5, <2>2
    <2>3. \A i \in Id : prepared'[i] # entries[i] => prepared'[i] = None /\ IsComplete(r)
        BY <2>1, <2>2
    <2>4. ASSUME NEW i \in r.ids, IsComplete(r), prepared'[i] # None
          PROVE  prepared'[i].batch # b
        BY <1>0, <2>1, <2>2, <2>4
    <2>. QED  BY <2>3, <2>4
<1>. QED  BY <1>1, <1>2, <1>3, <1>4, <1>5, <1>6, <1>7, Zenon DEF Became

\* A released batch has everything it had.
LEMMA ReleasedParts ==
    ASSUME NEW r \in BatchType
    PROVE  /\ Released(r) \in BatchType
           /\ Released(r).released <=> r.released \/ Ready(r)
           /\ Ready(Released(r)) <=> Ready(r)
           /\ Released(r).turn = r.turn /\ Released(r).ids = r.ids
           /\ Released(r).prepared = r.prepared /\ Released(r).completed = r.completed
           /\ Released(r).known = r.known /\ Released(r).rejected = r.rejected
           /\ Released(r).cancelled = r.cancelled /\ Released(r).sealed = r.sealed
BY SMT DEF Released, Ready, BatchType

\* A cancelled batch is sealed and released, and otherwise what it was.
LEMMA CancelledParts ==
    ASSUME NEW r \in BatchType
    PROVE  /\ Cancelled(r) \in BatchType
           /\ Cancelled(r).cancelled /\ Cancelled(r).sealed /\ Cancelled(r).released
           /\ Cancelled(r).turn = r.turn /\ Cancelled(r).ids = r.ids
           /\ Cancelled(r).known = r.known /\ Cancelled(r).prepared = r.prepared
           /\ Cancelled(r).completed = r.completed /\ Cancelled(r).rejected = r.rejected
<1> DEFINE c == [r EXCEPT !.cancelled = TRUE, !.sealed = TRUE]
<1>1. /\ c \in BatchType /\ c.cancelled /\ c.sealed /\ c.turn = r.turn /\ c.ids = r.ids
      /\ c.known = r.known /\ c.prepared = r.prepared /\ c.completed = r.completed
      /\ c.rejected = r.rejected
    BY DEF BatchType
<1>2. Cancelled(r) = Released(c)
    BY DEF Cancelled
<1>. HIDE DEF c
<1>3. Ready(c)
    BY <1>1, Zenon DEF Ready
<1>. QED  BY <1>1, <1>2, <1>3, ReleasedParts, Zenon

\* What StartBatch makes of a batch in the turn t.
Blank(t) == [NoBatch EXCEPT !.turn = t]

\* It has no calls, and is not sealed.
LEMMA BlankParts ==
    ASSUME NEW t \in 0 .. MaxTurn
    PROVE  /\ Blank(t) \in BatchType
           /\ Blank(t).turn = t /\ Blank(t).ids = {} /\ Blank(t).known = {}
           /\ Blank(t).prepared = {} /\ Blank(t).completed = {}
           /\ ~ Blank(t).sealed /\ ~ Blank(t).released /\ ~ Blank(t).cancelled
<1>1. NoBatch \in BatchType
    BY BatchesAssumption, SMT DEF NoBatch, BatchType
<1>2. ASSUME NEW r \in BatchType
      PROVE  /\ [r EXCEPT !.turn = t] \in BatchType
             /\ [r EXCEPT !.turn = t].turn = t /\ [r EXCEPT !.turn = t].ids = r.ids
             /\ [r EXCEPT !.turn = t].known = r.known
             /\ [r EXCEPT !.turn = t].prepared = r.prepared
             /\ [r EXCEPT !.turn = t].completed = r.completed
             /\ [r EXCEPT !.turn = t].sealed = r.sealed
             /\ [r EXCEPT !.turn = t].released = r.released
             /\ [r EXCEPT !.turn = t].cancelled = r.cancelled
    BY SMT DEF BatchType
<1>3. /\ NoBatch.ids = {} /\ NoBatch.known = {} /\ NoBatch.prepared = {}
      /\ NoBatch.completed = {} /\ ~ NoBatch.sealed /\ ~ NoBatch.released
      /\ ~ NoBatch.cancelled
    BY SMT DEF NoBatch
<1>. QED  BY <1>1, <1>2, <1>3, Zenon DEF Blank

\* What SealBatch writes into the batch r.
Sealed(r, calls) == [r EXCEPT !.ids = calls, !.known = calls, !.sealed = TRUE]

\* It leaves the rest of the batch as it was.
LEMMA SealedParts ==
    ASSUME NEW r \in BatchType, NEW calls \in SUBSET Id
    PROVE  LET s == Sealed(r, calls) IN
           /\ s \in BatchType /\ s.turn = r.turn /\ s.ids = calls /\ s.known = calls
           /\ s.prepared = r.prepared /\ s.completed = r.completed /\ s.rejected = r.rejected
           /\ s.cancelled = r.cancelled /\ s.sealed /\ s.released = r.released
BY DEF BatchType, Sealed

\* The turn is at one batch at most.
LEMMA OneCurrent ==
    ASSUME NEW x \in Batch, NEW y \in Batch, Current(x), Current(y)
    PROVE  x = y
BY SMT DEF Current, Latest, Batch

\* A step that begins neither a turn nor a batch leaves them where they are.
LEMMA SameTurns ==
    ASSUME \A x \in Batch : batch'[x].turn = batch[x].turn, turn' = turn, over' = over
    PROVE  /\ Idle' <=> Idle
           /\ \A x \in Batch : Started(x)' <=> Started(x)
           /\ \A x \in Batch : Latest(x)' <=> Latest(x)
           /\ \A x \in Batch : Current(x)' <=> Current(x)
<1>1. Idle' <=> Idle
    BY Zenon DEF Idle
<1>2. \A x \in Batch : Started(x)' <=> Started(x)
    BY Zenon DEF Started
<1>3. \A x \in Batch : Latest(x)' <=> Latest(x)
    BY <1>2, Zenon DEF Latest
<1>. QED  BY <1>1, <1>2, <1>3, Zenon DEF Current

\* A call is of a batch.
LEMMA CallParts ==
    ASSUME NEW c \in Call
    PROVE  c[1] \in Id /\ c[2] \in Batch /\ c = <<c[1], c[2]>>
BY BatchesAssumption, SMT

\* A call that was handed over and is not answered keeps its batch open.
LEMMA CallKeepsOpen ==
    ASSUME Inv, NEW c \in Call, prep[c].at # "none", exec[c].at # "done"
    PROVE  c[1] \in batch[c[2]].ids /\ c[1] \notin batch[c[2]].completed /\ ~ Complete(c[2])
BY CallParts, SMT DEF Inv, CallsOf, Complete

\* If its turn runs, its batch is the one that the turn is at.
LEMMA CallIsCurrent ==
    ASSUME Inv, NEW c \in Call, prep[c].at # "none", exec[c].at # "done",
           \/ ~ batch[c[2]].cancelled
           \/ ~ Idle /\ TurnOf(c) = turn
    PROVE  Current(c[2])
<1>1. c[2] \in Batch /\ ~ Complete(c[2]) /\ batch[c[2]].ids # {}
    BY CallParts, CallKeepsOpen
<1>2. Started(c[2])
    BY <1>1, SMT DEF Inv, Order, NoBatch
<1>. QED  BY <1>1, <1>2, SMT DEF Inv, Batches, Current, TurnOf

\* When every call of the last model call was answered, its batch is complete.
LEMMA StepOverCompletes ==
    ASSUME Inv, StepOver, NEW b \in Batch, Current(b)
    PROVE  Complete(b)
<1>1. stream = "ended" /\ Latest(b)
    BY Zenon DEF StepOver, Current
<1>2. batch[b].ids = batch[b].known /\ batch[b].ids \subseteq IdsOf(b)
    BY <1>1, Zenon DEF Inv, StreamKnows, Parts
<1>3. ASSUME NEW i \in batch[b].ids
      PROVE  i \in batch[b].completed /\ i \in batch[b].prepared
    <2>1. <<i, b>> \in Call /\ exec[<<i, b>>].at = "done"
        BY <1>1, <1>2, Zenon DEF StepOver, IdsOf
    <2>. QED  BY <2>1, SMT DEF Inv, CallsOf
<1>4. batch[b].completed = batch[b].ids
    BY <1>3, Zenon DEF Inv, Parts
<1>5. batch[b].ids \subseteq batch[b].prepared /\ batch[b].sealed
    BY <1>1, <1>3, Zenon DEF Inv, StreamKnows
<1>. QED  BY <1>4, <1>5, Zenon DEF Inv, Batches, Ready, Complete
-----------------------------------------------------------------------------
(* The invariant: one lemma for each kind of step.                          *)

\* At first no batch has come.
LEMMA InitInv == Init => Inv
<1> SUFFICES ASSUME Init PROVE Inv
    OBVIOUS
<1>1. Types
    <2>1. batch \in [Batch -> BatchType]
        BY BatchesAssumption, SMT DEF Init, NoBatch, BatchType
    <2>2. prep \in [Call -> PrepType] /\ exec \in [Call -> ExecType]
        BY SMT DEF Init, NoPrep, NoExec, PrepType, ExecType
    <2>. QED  BY <2>1, <2>2, BatchesAssumption, SMT DEF Init, Types
<1>2. Idle /\ \A b \in Batch : ~ Started(b) /\ batch[b] = NoBatch
    BY SMT DEF Init, Idle, Started, NoBatch
<1>3. Order
    BY <1>2, SMT DEF Init, Order, NoBatch
<1>4. StreamKnows /\ TablesCurrent
    BY <1>2, SMT DEF Init, StreamKnows, Current, TablesCurrent
<1>5. Parts /\ Batches
    BY <1>2, SMT DEF Init, Parts, Batches, Ready, NoBatch, Current
<1>6. CallsOf /\ Allowed
    BY <1>2, CallParts, SMT DEF Init, CallsOf, Allowed, NoPrep, NoExec, NoBatch
<1>. QED  BY <1>1, <1>3, <1>4, <1>5, <1>6, Zenon DEF Init, Inv, StartedIsTold

\* A turn begins: no batch is current, and none is of this turn.
LEMMA StartTurnInv == Inv /\ StartTurn => Inv'
<1> SUFFICES ASSUME Inv, StartTurn PROVE Inv'
    OBVIOUS
<1>1. /\ UNCHANGED <<batch, mapped, byCall, active, prepared, tail, prep, exec, flags, over, ran>>
      /\ Idle /\ turn' = turn + 1 /\ stream' = "ended" /\ turn < MaxTurn
    BY Zenon DEF StartTurn, tables
<1>2. turn \in Nat /\ turn' \in 0 .. MaxTurn
    BY <1>1, BatchesAssumption, SMT DEF Inv, Types
<1>3. \A b \in Batch : /\ ~ Current(b) /\ ~ Current(b)'
                       /\ (Started(b)' <=> Started(b)) /\ (Complete(b)' <=> Complete(b))
                       /\ batch'[b].turn # turn'
    BY <1>1, <1>2, SMT DEF Inv, Order, Types, BatchType, Current, Started, Complete
<1>4. Types'
    BY <1>1, <1>2, SMT DEF Inv, Types
<1>5. Order'
    BY <1>1, <1>2, <1>3, SMT DEF Inv, Types, BatchType, Order
<1>6. StreamKnows'
    BY <1>1, <1>3, SMT DEF Inv, Types, StreamKnows
<1>7. Parts' /\ CallsOf' /\ StartedIsTold'
    BY <1>1, Zenon DEF Inv, Parts, CallsOf, StartedIsTold
<1>8. Batches'
    BY <1>1, <1>3, Zenon DEF Inv, Batches
<1>9. TablesCurrent' /\ Allowed'
    BY <1>1, <1>3, SMT DEF Inv, TablesCurrent, Allowed, Decided, Types, Entry
<1>. QED  BY <1>4, <1>5, <1>6, <1>7, <1>8, <1>9, Zenon DEF Inv

\* The stream of the current batch fails.
LEMMA StreamFailsInv == Inv /\ StreamFails => Inv'
<1> SUFFICES ASSUME Inv, StreamFails PROVE Inv'
    OBVIOUS
<1>1. /\ UNCHANGED <<batch, mapped, byCall, active, prepared, tail, prep, exec, flags, over, turn, ran>>
      /\ ~ Idle /\ stream = "open" /\ stream' = "failed"
    BY Zenon DEF StreamFails, tables
<1>2. /\ Idle' <=> Idle
      /\ \A x \in Batch : /\ (Started(x)' <=> Started(x)) /\ (Latest(x)' <=> Latest(x))
                          /\ (Current(x)' <=> Current(x)) /\ (Complete(x)' <=> Complete(x))
    BY <1>1, SameTurns, Zenon DEF Complete
<1>3. Types' /\ Order'
    BY <1>1, <1>2, SMT DEF Inv, Types, Order
<1>4. StreamKnows'
    BY <1>1, <1>2, SMT DEF Inv, Types, StreamKnows
<1>5. Parts' /\ CallsOf' /\ StartedIsTold' /\ Allowed'
    BY <1>1, Zenon DEF Inv, Parts, CallsOf, StartedIsTold, Allowed, Decided
<1>6. Batches'
    BY <1>1, <1>2, Zenon DEF Inv, Batches
<1>7. TablesCurrent'
    BY <1>1, <1>2, SMT DEF Inv, TablesCurrent, Types, Entry
<1>. QED  BY <1>3, <1>4, <1>5, <1>6, <1>7, Zenon DEF Inv

\* The signal of the turn is no part of the invariant.
LEMMA AbortInv == Inv /\ (Abort \/ UNCHANGED vars) => Inv'
<1> SUFFICES ASSUME Inv, Abort \/ UNCHANGED vars PROVE Inv'
    OBVIOUS
<1>1. UNCHANGED <<batch, mapped, byCall, active, prepared, tail, prep, exec, flags, over, turn,
                  stream, ran>>
    BY Zenon DEF Abort, vars, tables, turns
<1>. QED
    BY <1>1, ZenonT(40) DEF Inv, Types, Order, StreamKnows, Parts, CallsOf, Batches, TablesCurrent,
       Allowed, Decided, StartedIsTold, Complete, Current, Idle, Latest, Started

\* A model call starts: the batches before it in the turn are complete, and
\* took all of their entries with them, so that no entry is left; one that is
\* given up, without calls, has none.
LEMMA StartBatchInv == \A b \in Batch : Inv /\ StartBatch(b) => Inv'
<1> SUFFICES ASSUME NEW b \in Batch, Inv, StartBatch(b) PROVE Inv'
    OBVIOUS
<1>1. /\ ~ Idle /\ ~ Started(b) /\ \A x \in Batch : x < b => Started(x)
      /\ (\E x \in Batch : batch[x].turn = turn) => StepOver \/ Repeats
      /\ mapped' = {b} /\ active' = b /\ stream' = "open"
      /\ UNCHANGED <<byCall, prepared, tail, prep, exec, flags, turn, over, ran>>
    BY Zenon DEF StartBatch
<1>2. turn \in Nat /\ turn # 0
    BY <1>1, BatchesAssumption, SMT DEF Inv, Types, Idle
<1>3. active # None => /\ active \in Batch /\ Current(active) /\ batch[active].ids = {}
                       /\ ~ batch[active].sealed
    <2> SUFFICES ASSUME active # None
                 PROVE  /\ active \in Batch /\ Current(active) /\ batch[active].ids = {}
                        /\ ~ batch[active].sealed
        OBVIOUS
    <2>1. active \in Batch /\ Current(active) /\ stream # "ended" /\ ~ batch[active].sealed
        BY Zenon DEF Inv, Types, StreamKnows
    <2>2. Repeats /\ Latest(active)
        BY <1>1, <2>1, Zenon DEF Current, StepOver
    <2>. QED  BY <2>1, <2>2, Zenon DEF Repeats
<1>4. ASSUME NEW x \in Batch, batch[x].turn = turn
      PROVE  Complete(x) \/ (x = active /\ batch[x].ids = {})
    <2>1. CASE Latest(x) /\ StepOver
        BY <1>1, <1>4, <2>1, StepOverCompletes, Zenon DEF Current
    <2>2. CASE Latest(x) /\ ~ StepOver
        <3>1. Current(x) /\ stream # "ended" /\ active # None
            BY <1>1, <1>4, <2>2, Zenon DEF Repeats, Current, Inv, StreamKnows
        <3>. QED  BY <1>3, <3>1, OneCurrent, Zenon
    <2>3. CASE ~ Latest(x)
        BY <1>1, <1>2, <1>4, <2>3, Zenon DEF Inv, Batches, Started
    <2>. QED  BY <2>1, <2>2, <2>3
<1>5. /\ batch' \in [Batch -> BatchType] /\ batch'[b] = Blank(turn)
      /\ \A x \in Batch : x # b => batch'[x] = IF x = active /\ ~ batch[x].sealed
                                               THEN Cancelled(batch[x]) ELSE batch[x]
    <2>1. Blank(turn) \in BatchType
        BY BlankParts, Zenon DEF Inv, Types
    <2>2. \A x \in Batch : batch[x] \in BatchType /\ Cancelled(batch[x]) \in BatchType
        BY CancelledParts DEF Inv, Types
    <2>3. batch' = [x \in Batch |-> IF x = b THEN Blank(turn)
                                    ELSE IF x = active /\ ~ batch[x].sealed
                                         THEN Cancelled(batch[x]) ELSE batch[x]]
        BY SMT DEF StartBatch, Blank
    <2>. QED  BY <2>1, <2>2, <2>3, Zenon
<1>6. /\ batch' \in [Batch -> BatchType]
      /\ batch'[b].turn = turn /\ batch'[b].ids = {} /\ batch'[b].known = {}
      /\ batch'[b].prepared = {} /\ batch'[b].completed = {} /\ ~ batch'[b].sealed
      /\ ~ batch'[b].released /\ ~ batch'[b].cancelled
      /\ batch[b].ids = {} /\ ~ batch[b].sealed
      /\ active # b
    <2>1. batch[b].ids = {} /\ ~ batch[b].sealed
        BY <1>1, SMT DEF Inv, Order, NoBatch
    <2>2. active # b
        BY <1>1, <1>3, BatchesAssumption, Zenon DEF Current, Latest
    <2>. QED  BY <1>5, <2>1, <2>2, BlankParts, Zenon DEF Inv, Types
<1>18. ASSUME NEW x \in Batch, x # b, x # active
       PROVE  batch'[x] = batch[x]
    BY <1>5, <1>18, Zenon
<1>19. active # None =>
         LET r == batch[active] s == batch'[active] IN
         /\ s.turn = r.turn /\ s.ids = {} /\ s.known = {} /\ s.prepared = {}
         /\ s.completed = {} /\ s.rejected = r.rejected
         /\ s.cancelled /\ s.sealed /\ s.released
         /\ r.known = {} /\ r.prepared = {} /\ r.completed = {}
    <2> SUFFICES ASSUME active # None
                 PROVE  LET r == batch[active] s == batch'[active] IN
                        /\ s.turn = r.turn /\ s.ids = {} /\ s.known = {} /\ s.prepared = {}
                        /\ s.completed = {} /\ s.rejected = r.rejected
                        /\ s.cancelled /\ s.sealed /\ s.released
                        /\ r.known = {} /\ r.prepared = {} /\ r.completed = {}
        OBVIOUS
    <2>1. batch[active] \in BatchType /\ batch'[active] = Cancelled(batch[active])
        BY <1>3, <1>5, <1>6, Zenon DEF Inv, Types
    <2>2. /\ batch[active].ids = {} /\ batch[active].known = {}
          /\ batch[active].prepared = {} /\ batch[active].completed = {}
        BY <1>3, SMT DEF Inv, Parts
    <2>. QED  BY <2>1, <2>2, CancelledParts, Zenon
<1>20. ASSUME NEW x \in Batch, x # b
       PROVE  /\ batch'[x].turn = batch[x].turn /\ batch'[x].ids = batch[x].ids
              /\ batch'[x].known = batch[x].known /\ batch'[x].prepared = batch[x].prepared
              /\ batch'[x].completed = batch[x].completed
              /\ batch'[x].rejected = batch[x].rejected
    BY <1>3, <1>18, <1>19, <1>20, BatchesAssumption, Zenon
<1>7. /\ ~ Idle'
      /\ \A x \in Batch : (Current(x)' <=> x = b) /\ (Started(x)' <=> Started(x) \/ x = b)
                          /\ (x # b => (Complete(x)' <=> Complete(x) \/ x = active))
    <2>1. ~ Idle' /\ \A x \in Batch : Started(x)' <=> Started(x) \/ x = b
        BY <1>1, <1>2, <1>6, <1>20, SMT DEF Idle, Started
    <2>2. \A x \in Batch : Started(x) => x < b
        BY <1>1, SMT DEF Inv, Order, Batch
    <2>3. \A x \in Batch : Latest(x)' <=> x = b
        BY <1>1, <2>1, <2>2, SMT DEF Latest, Batch
    <2>4. \A x \in Batch : x # b => (Complete(x)' <=> Complete(x) \/ x = active)
        BY <1>18, <1>19, BatchesAssumption, Zenon DEF Complete
    <2>. QED  BY <1>1, <1>6, <2>1, <2>3, <2>4, Zenon DEF Current
<1>8. ASSUME NEW c \in Call, c[2] = b \/ c[2] = active
      PROVE  prep[c].at = "none" /\ exec[c].at = "none" /\ c \notin ran
    <2>0. c[2] \in Batch /\ batch[c[2]].ids = {} /\ ~ batch[c[2]].sealed
        BY <1>3, <1>6, <1>8, CallParts, BatchesAssumption, Zenon
    <2>1. prep[c].at = "none" /\ exec[c].at = "none"
        BY <2>0, SMT DEF Inv, CallsOf
    <2>2. c \notin ran
        BY <2>0, Zenon DEF Inv, Allowed, Decided
    <2>. QED  BY <2>1, <2>2
<1>9. \A i \in Id : byCall[i] = None /\ prepared[i] = None
    <2>1. ASSUME NEW i \in Id, byCall[i] # None
          PROVE  FALSE
        <3>1. byCall[i] \in Batch
            BY <2>1, SMT DEF Inv, Types
        <3>2. /\ Current(byCall[i]) /\ i \in batch[byCall[i]].ids /\ ~ Complete(byCall[i])
            BY <2>1, Zenon DEF Inv, TablesCurrent
        <3>. QED  BY <1>4, <3>1, <3>2 DEF Current
    <2>2. ASSUME NEW i \in Id, prepared[i] # None
          PROVE  FALSE
        <3>1. prepared[i] \in Entry
            BY <2>2, Zenon DEF Inv, Types
        <3>2. /\ prepared[i].call \in Call /\ prepared[i].batch \in Batch
              /\ prepared[i].call = <<i, prepared[i].batch>>
              /\ prep[prepared[i].call].at = "over"
              /\ batch[prepared[i].batch].turn = turn /\ ~ Complete(prepared[i].batch)
            BY <2>2, <3>1, SMT DEF Inv, TablesCurrent, Current, Entry, Idle
        <3>3. prepared[i].batch = active
            BY <1>4, <3>2
        <3>. QED  BY <1>8, <3>2, <3>3, SMT
    <2>. QED  BY <2>1, <2>2
<1>10. Types'
    BY <1>1, <1>6, SMT DEF Inv, Types
<1>11. Order'
    <2>1. (\A t \in over' : t <= turn') /\ \A x \in Batch : batch'[x].turn <= turn'
        BY <1>1, <1>2, <1>6, <1>20, SMT DEF Inv, Order
    <2>2. \A x, y \in Batch : x < y /\ Started(y)' => Started(x)'
        BY <1>1, <1>7, SMT DEF Inv, Order
    <2>3. \A x \in Batch : ~ Started(x)' => batch'[x] = NoBatch
        <3>1. active # None => Started(active)
            BY <1>3, Zenon DEF Current, Latest
        <3>. QED  BY <1>3, <1>7, <1>18, <3>1, BatchesAssumption, Zenon DEF Inv, Order
    <2>. QED  BY <2>1, <2>2, <2>3 DEF Order
<1>12. StreamKnows'
    BY <1>1, <1>6, <1>7, BatchesAssumption, SMT DEF StreamKnows
<1>13. Parts'
    BY <1>6, <1>20, SMT DEF Inv, Parts
<1>14. CallsOf'
    BY <1>1, <1>6, <1>8, <1>20, CallParts, SMT DEF Inv, CallsOf
<1>15. Batches'
    <2>1. \A x \in Batch : Ready(batch'[x]) => batch'[x].released
        BY <1>6, <1>18, <1>19, BatchesAssumption, SMT DEF Inv, Batches, Ready
    <2>2. \A x \in Batch : batch'[x].released =>
             batch'[x].sealed /\ (batch'[x].cancelled \/ batch'[x].ids \subseteq batch'[x].prepared)
        BY <1>6, <1>18, <1>19, BatchesAssumption, SMT DEF Inv, Batches
    <2>3. ASSUME NEW x \in Batch, x # b, Started(x)
          PROVE  Complete(x)' \/ batch'[x].cancelled
        <3>1. CASE x = active
            BY <1>7, <2>3, <3>1, Zenon
        <3>2. CASE x # active
            <4>1. Complete(x) \/ batch[x].cancelled
                BY <1>4, <2>3, <3>2, Zenon DEF Inv, Batches, Current
            <4>. QED  BY <1>7, <1>18, <2>3, <3>2, <4>1, Zenon
        <3>. QED  BY <3>1, <3>2
    <2>4. \A x \in Batch : x # b /\ batch'[x].turn = turn' => Complete(x)'
        BY <1>1, <1>4, <1>7, <1>20, Zenon
    <2>. QED
        BY <1>1, <1>6, <1>7, <2>1, <2>2, <2>3, <2>4, Zenon DEF Batches, Current
<1>16. TablesCurrent'
    BY <1>1, <1>6, <1>7, <1>9, SMT DEF TablesCurrent
<1>17. Allowed' /\ StartedIsTold'
    <2>1. StartedIsTold'
        BY <1>1, Zenon DEF Inv, StartedIsTold
    <2>2. ASSUME NEW c \in Call, c[2] # b, c[2] # active
          PROVE  Decided(c[2])' <=> Decided(c[2])
        BY <1>18, <2>2, CallParts, Zenon DEF Decided
    <2>3. ASSUME NEW c \in Call, exec[c].at \in {"locks", "revalidating", "running"} \/ c \in ran
          PROVE  /\ exec[c].entry = [call |-> c, batch |-> c[2], blocked |-> FALSE]
                 /\ prep[c].outcome = "ok"
                 /\ Decided(c[2])' /\ ~ batch'[c[2]].rejected
        <3>1. c[2] # b /\ c[2] # active
            BY <1>8, <2>3
        <3>. QED  BY <1>18, <2>2, <2>3, <3>1, CallParts, Zenon DEF Inv, Allowed
    <2>. QED  BY <1>1, <2>1, <2>3, Zenon DEF Allowed
<1>. QED
    BY <1>10, <1>11, <1>12, <1>13, <1>14, <1>15, <1>16, <1>17, Zenon DEF Inv

\* A model call ends: its batch waits for the calls that it made, whether
\* the stream has handed them over or not.
LEMMA SealBatchInv ==
    \A b \in Batch : \A calls \in SUBSET IdsOf(b) : Inv /\ SealBatch(b, calls) => Inv'
<1> SUFFICES ASSUME NEW b \in Batch, NEW calls \in SUBSET IdsOf(b), Inv, SealBatch(b, calls)
             PROVE  Inv'
    OBVIOUS
<1> DEFINE s == Sealed(batch[b], calls)
           r == Released(s)
           map == IF calls = {} THEN mapped \ {b} ELSE mapped
           by == [i \in Id |-> IF i \in calls THEN b ELSE byCall[i]]
<1>1. /\ Current(b) /\ stream = "open" /\ stream' = "ended" /\ ~ Idle
      /\ batch[b].ids \subseteq calls /\ calls \subseteq Id
      /\ UNCHANGED <<tail, prep, exec, flags, turn, over, ran>>
    BY Zenon DEF SealBatch, Current, IdsOf
<1>2. active = b /\ active' = None
    BY <1>1, OneCurrent, SMT DEF SealBatch, Inv, StreamKnows, Types
<1>3. /\ s \in BatchType /\ s.turn = batch[b].turn /\ s.ids = calls /\ s.known = calls
      /\ s.prepared = batch[b].prepared /\ s.completed = batch[b].completed
      /\ s.rejected = batch[b].rejected /\ s.cancelled = batch[b].cancelled
      /\ s.sealed /\ s.released = batch[b].released /\ ~ batch[b].released
    <2>1. batch[b] \in BatchType
        BY Zenon DEF Inv, Types
    <2>2. ~ batch[b].released
        BY <1>1, Zenon DEF Inv, StreamKnows, Batches
    <2>. QED  BY <1>1, <2>1, <2>2, SealedParts, Zenon
<1>. HIDE DEF s
<1>4. /\ r \in BatchType /\ r.turn = batch[b].turn /\ r.ids = calls /\ r.known = calls
      /\ r.prepared = batch[b].prepared /\ r.completed = batch[b].completed
      /\ r.rejected = batch[b].rejected /\ r.cancelled = batch[b].cancelled
      /\ r.sealed /\ (r.released <=> r.cancelled \/ calls \subseteq r.prepared)
    <2>1. Ready(s) <=> s.cancelled \/ calls \subseteq s.prepared
        BY <1>3, Zenon DEF Ready
    <2>. QED  BY <1>3, <2>1, ReleasedParts, Zenon
<1>5. Become(b, r, map, by, prepared)
    <2>1. batch[b].ids \cup calls = calls
        BY <1>1
    <2>. QED  BY <2>1, Zenon DEF SealBatch, SealedIds, s, Sealed
<1>6. /\ map \in SUBSET Batch /\ by \in [Id -> Batch \cup {None}]
      /\ r.completed \subseteq r.ids
    BY <1>1, <1>4, SMT DEF Inv, Types, Parts
<1>7. /\ batch' \in [Batch -> BatchType] /\ batch'[b] = r
      /\ \A x \in Batch : x # b => batch'[x] = batch[x]
      /\ mapped' \in SUBSET Batch
      /\ \A x \in Batch : x \in mapped' <=> x \in map /\ ~ (Complete(b)' /\ x = b)
      /\ byCall' \in [Id -> Batch \cup {None}]
      /\ \A i \in Id : byCall'[i] # by[i] => byCall'[i] = None /\ Complete(b)' /\ by[i] = b
      /\ Complete(b)' => \A i \in r.ids : byCall'[i] # b
      /\ prepared' \in [Id -> Entry \cup {None}]
      /\ \A i \in Id : prepared'[i] # prepared[i] => prepared'[i] = None /\ Complete(b)'
      /\ Complete(b)' => \A i \in r.ids : prepared'[i] # None => prepared'[i].batch # b
    <2>. HIDE DEF r, map, by
    <2>1. /\ prepared \in [Id -> Entry \cup {None}] /\ batch \in [Batch -> BatchType]
          /\ r \in BatchType /\ map \in SUBSET Batch /\ by \in [Id -> Batch \cup {None}]
          /\ r.completed \subseteq r.ids /\ Become(b, r, map, by, prepared)
        BY <1>4, <1>5, <1>6, Zenon DEF Inv, Types
    <2>2. Became(b, r, map, by, prepared)
        BY <2>1, BecomeEffect, Zenon
    <2>. QED  BY <2>2, Zenon DEF Became
<1>. HIDE DEF r
<1>8. /\ Idle' <=> Idle
      /\ \A x \in Batch : /\ (Started(x)' <=> Started(x)) /\ (Latest(x)' <=> Latest(x))
                          /\ (Current(x)' <=> x = b) /\ (Current(x) <=> x = b)
                          /\ (x # b => (Complete(x)' <=> Complete(x)))
      /\ ~ Complete(b)
    <2>1. \A x \in Batch : batch'[x].turn = batch[x].turn
        BY <1>4, <1>7, Zenon
    <2>2. \A x \in Batch : x # b => (Complete(x)' <=> Complete(x))
        BY <1>7, Zenon DEF Complete
    <2>3. ~ Complete(b)
        BY <1>3, Zenon DEF Complete
    <2>. QED  BY <1>1, <2>1, <2>2, <2>3, SameTurns, OneCurrent, Zenon
<1>9. Types'
    BY <1>1, <1>2, <1>7, SMT DEF Inv, Types
<1>10. Order'
    <2>1. (\A t \in over' : t <= turn') /\ \A x \in Batch : batch'[x].turn <= turn'
        BY <1>1, <1>4, <1>7, SMT DEF Inv, Order
    <2>2. \A x \in Batch : ~ Started(x)' => batch'[x] = NoBatch
        BY <1>1, <1>7, <1>8, Zenon DEF Inv, Order, Current, Latest
    <2>. QED  BY <1>8, <2>1, <2>2, Zenon DEF Inv, Order
<1>11. StreamKnows'
    BY <1>1, <1>2, <1>4, <1>7, <1>8, SMT DEF StreamKnows
<1>12. Parts'
    <2>1. r.prepared \subseteq calls /\ r.completed \subseteq calls
        BY <1>1, <1>4, <1>6, SMT DEF Inv, Parts
    <2>. QED  BY <1>4, <1>7, <2>1, SMT DEF Inv, Parts
<1>13. CallsOf'
    BY <1>1, <1>4, <1>7, CallParts, SMT DEF Inv, CallsOf
<1>14. Batches'
    <2>1. \A x \in Batch : Ready(batch'[x]) => batch'[x].released
        BY <1>4, <1>7, SMT DEF Inv, Batches, Ready
    <2>2. \A x \in Batch : batch'[x].released =>
             batch'[x].sealed /\ (batch'[x].cancelled \/ batch'[x].ids \subseteq batch'[x].prepared)
        BY <1>4, <1>7, SMT DEF Inv, Batches
    <2>3. b \in mapped
        BY <1>1, <1>8, Zenon DEF Inv, Batches
    <2>4. b \in mapped' \/ Complete(b)'
        <3>1. CASE calls = {}
            BY <1>4, <1>6, <1>7, <3>1 DEF Complete
        <3>2. CASE calls # {}
            BY <1>7, <2>3, <3>2
        <3>. QED  BY <3>1, <3>2
    <2>5. \A x \in Batch : Current(x)' => x \in mapped' \/ Complete(x)'
        BY <1>8, <2>4
    <2>6. \A x \in Batch : Started(x)' => Complete(x)' \/ batch'[x].cancelled \/ Current(x)'
        BY <1>7, <1>8, Zenon DEF Inv, Batches
    <2>7. \A x \in Batch : ~ Idle' /\ Started(x)' /\ batch'[x].turn = turn' /\ ~ Latest(x)'
                           => Complete(x)'
        BY <1>1, <1>7, <1>8, Zenon DEF Inv, Batches, Current
    <2>8. \A x \in Batch : x \in mapped' => Started(x)'
        BY <1>7, <1>8, Zenon DEF Inv, Batches
    <2>. QED  BY <2>1, <2>2, <2>5, <2>6, <2>7, <2>8, Zenon DEF Batches
<1>15. TablesCurrent'
    <2>1. ASSUME NEW i \in Id, byCall'[i] # None
          PROVE  byCall'[i] = b /\ i \in calls /\ ~ Complete(b)'
        <3>1. CASE i \in calls
            BY <1>4, <1>7, <2>1, <3>1, Zenon
        <3>2. CASE i \notin calls
            BY <1>1, <1>7, <1>8, <2>1, <3>2, SMT DEF Inv, TablesCurrent, Types
        <3>. QED  BY <3>1, <3>2
    <2>2. ASSUME NEW i \in Id, prepared'[i] # None
          PROVE  /\ prepared'[i] = prepared[i] /\ prepared[i] \in Entry
                 /\ prepared[i].call = <<i, b>> /\ prepared[i].batch = b /\ ~ Complete(b)'
                 /\ prep[prepared[i].call].at = "over"
                 /\ (prepared[i].blocked <=> prep[prepared[i].call].outcome # "ok")
        <3>1. prepared'[i] = prepared[i] /\ prepared[i] \in Entry
            BY <1>7, <2>2, Zenon DEF Inv, Types
        <3>2. /\ prepared[i].batch = b /\ prepared[i].call = <<i, b>> /\ <<i, b>> \in Call
              /\ prep[<<i, b>>].at = "over"
              /\ (prepared[i].blocked <=> prep[prepared[i].call].outcome # "ok")
            BY <1>8, <2>2, <3>1, SMT DEF Inv, TablesCurrent, Entry
        <3>3. i \in batch[b].ids
            BY <3>2, SMT DEF Inv, CallsOf
        <3>. QED  BY <1>1, <1>4, <1>7, <2>2, <3>1, <3>2, <3>3, Zenon
    <2>3. ~ Complete(b)' => \A i \in calls : byCall'[i] = b
        BY <1>1, <1>7, Zenon
    <2>. QED
        BY <1>1, <1>4, <1>7, <1>8, <2>1, <2>2, <2>3, SMT DEF TablesCurrent
<1>16. Allowed' /\ StartedIsTold'
    <2>1. ASSUME NEW c \in Call, exec[c].at \in {"locks", "revalidating", "running"} \/ c \in ran
          PROVE  c[2] # b /\ c[2] \in Batch
        BY <1>3, <2>1, CallParts, Zenon DEF Inv, Allowed, Decided
    <2>. QED  BY <1>1, <1>7, <2>1, Zenon DEF Inv, Allowed, Decided, StartedIsTold
<1>. QED
    BY <1>9, <1>10, <1>11, <1>12, <1>13, <1>14, <1>15, <1>16, Zenon DEF Inv

\* The end of a turn: what is left of its current batch is cancelled, and the
\* tables are empty.
LEMMA FinishTurnInv == Inv /\ FinishTurn => Inv'
<1> SUFFICES ASSUME Inv, FinishTurn PROVE Inv'
    OBVIOUS
<1>1. /\ ~ Idle /\ mapped' = {} /\ active' = None /\ stream' = "ended"
      /\ tail' = None /\ byCall' = [i \in Id |-> None] /\ prepared' = [i \in Id |-> None]
      /\ over' = over \cup {turn} /\ UNCHANGED <<prep, exec, flags, turn, ran>>
      /\ batch' = [b \in Batch |-> IF b \in mapped THEN Cancelled(batch[b]) ELSE batch[b]]
    BY Zenon DEF FinishTurn, AtFinish
<1>2. /\ batch' \in [Batch -> BatchType]
      /\ \A b \in Batch : b \notin mapped => batch'[b] = batch[b]
      /\ \A b \in mapped : batch'[b].cancelled /\ batch'[b].sealed /\ batch'[b].released
      /\ \A b \in Batch :
            /\ batch'[b].turn = batch[b].turn /\ batch'[b].ids = batch[b].ids
            /\ batch'[b].known = batch[b].known /\ batch'[b].prepared = batch[b].prepared
            /\ batch'[b].completed = batch[b].completed
            /\ batch'[b].rejected = batch[b].rejected
    <2>1. ASSUME NEW b \in mapped
          PROVE  /\ Cancelled(batch[b]) \in BatchType
                 /\ Cancelled(batch[b]).cancelled /\ Cancelled(batch[b]).sealed
                 /\ Cancelled(batch[b]).released
                 /\ Cancelled(batch[b]).turn = batch[b].turn
                 /\ Cancelled(batch[b]).ids = batch[b].ids
                 /\ Cancelled(batch[b]).known = batch[b].known
                 /\ Cancelled(batch[b]).prepared = batch[b].prepared
                 /\ Cancelled(batch[b]).completed = batch[b].completed
                 /\ Cancelled(batch[b]).rejected = batch[b].rejected
        BY <2>1, CancelledParts, Zenon DEF Inv, Types
    <2>2. \A b \in Batch : batch'[b] = IF b \in mapped THEN Cancelled(batch[b]) ELSE batch[b]
        BY <1>1
    <2>3. mapped \subseteq Batch /\ batch \in [Batch -> BatchType]
        BY Zenon DEF Inv, Types
    <2>4. \A b \in mapped : batch'[b] = Cancelled(batch[b])
        BY <2>2, <2>3
    <2>5. \A b \in Batch : b \notin mapped => batch'[b] = batch[b]
        BY <2>2
    <2>6. batch' \in [Batch -> BatchType]
        BY <1>1, <2>1, <2>3
    <2>. QED  BY <2>1, <2>3, <2>4, <2>5, <2>6, Zenon
<1>3. Idle' /\ \A b \in Batch : ~ Current(b)' /\ (Started(b)' <=> Started(b))
    BY <1>1, <1>2, SMT DEF Idle, Started, Current
<1>4. \A b \in Batch : batch'[b].released <=> batch[b].released \/ b \in mapped
    BY <1>2, Zenon
<1>5. Types'
    BY <1>1, <1>2, SMT DEF Inv, Types
<1>6. Order'
    <2>1. \A t \in over' : t <= turn'
        BY <1>1, SMT DEF Inv, Order, Types
    <2>2. \A b \in Batch : batch'[b].turn <= turn'
        BY <1>1, <1>2, SMT DEF Inv, Order
    <2>3. \A b \in Batch : ~ Started(b)' => batch'[b] = NoBatch
        <3> SUFFICES ASSUME NEW b \in Batch, ~ Started(b) PROVE batch'[b] = NoBatch
            BY <1>3
        <3>1. b \notin mapped
            BY Zenon DEF Inv, Batches
        <3>. QED  BY <1>2, <3>1, Zenon DEF Inv, Order
    <2>. QED  BY <1>3, <2>1, <2>2, <2>3, Zenon DEF Inv, Order
<1>7. StreamKnows'
    BY <1>1, <1>3, Zenon DEF StreamKnows
<1>8. Parts' /\ CallsOf'
    BY <1>1, <1>2, CallParts, Zenon DEF Inv, Parts, CallsOf
<1>9. Batches'
    <2>1. \A b \in Batch : batch'[b].released =>
             batch'[b].sealed /\ (batch'[b].cancelled \/ batch'[b].ids \subseteq batch'[b].prepared)
        BY <1>2, Zenon DEF Inv, Batches
    <2>2. \A b \in Batch : Ready(batch'[b]) => batch'[b].released
        BY <1>2, Zenon DEF Inv, Batches, Ready
    <2>3. ASSUME NEW b \in Batch, Started(b)
          PROVE  Complete(b)' \/ batch'[b].cancelled
        <3>1. Complete(b) => Complete(b)'
            BY <1>2, <1>4, Zenon DEF Complete
        <3>. QED  BY <1>2, <2>3, <3>1, Zenon DEF Inv, Batches
    <2>. QED  BY <1>1, <1>3, <2>1, <2>2, <2>3, Zenon DEF Batches
<1>10. TablesCurrent'
    BY <1>1, <1>3, SMT DEF TablesCurrent
<1>11. Allowed' /\ StartedIsTold'
    <2>1. \A b \in Batch : Decided(b) => Decided(b)'
        BY <1>2, <1>4, Zenon DEF Decided
    <2>. QED  BY <1>1, <1>2, <2>1, CallParts, Zenon DEF Inv, Allowed, StartedIsTold
<1>. QED
    BY <1>5, <1>6, <1>7, <1>8, <1>9, <1>10, <1>11, Zenon DEF Inv

\* The stream hands a call over: it joins the batch that the turn is at, which
\* is not decided yet.
LEMMA PrepareInv == \A c \in Call : Inv /\ Prepare(c) => Inv'
<1> SUFFICES ASSUME NEW c \in Call, Inv, Prepare(c) PROVE Inv'
    OBVIOUS
<1> DEFINE id == c[1]
           b == c[2]
<1>1. /\ id \in Id /\ b \in Batch /\ c = <<id, b>>
      /\ Current(b) /\ ~ Idle /\ prep[c].at = "none"
      /\ stream = "open" \/ (stream = "ended" /\ id \in batch[b].known)
      /\ UNCHANGED <<mapped, active, prepared, exec, flags, turn, stream, over, ran>>
    BY CallParts, Zenon DEF Prepare, Current, turns
<1>2. /\ id \notin batch[b].prepared /\ id \notin batch[b].completed
      /\ exec[c].at = "none"
      /\ \A d \in Call : d[2] = b /\ d # c => d[1] # id
    <2>1. exec[c].at = "none"
        BY <1>1, SMT DEF Inv, CallsOf
    <2>2. ASSUME NEW d \in Call, d[2] = b, d # c PROVE d[1] # id
        BY <1>1, <2>2, CallParts, Zenon
    <2>. QED  BY <1>1, <2>1, <2>2, SMT DEF Inv, CallsOf
<1>3. stream = "ended" => id \in batch[b].ids
    BY <1>1, SMT DEF Inv, Parts
<1>4. ~ Complete(b) /\ ~ Decided(b)
    <2>1. CASE stream = "open"
        BY <1>1, <2>1, Zenon DEF Inv, StreamKnows, Batches, Complete, Decided
    <2>2. CASE stream = "ended"
        BY <1>1, <1>2, <1>3, <2>2, Zenon DEF Complete, Decided
    <2>. QED  BY <1>1, <2>1, <2>2
<1>5. PrepareBatch(id) = b
    <2>1. byCall[id] # None => byCall[id] = b
        BY <1>1, OneCurrent, SMT DEF Inv, TablesCurrent, Types
    <2>2. CASE stream = "open"
        <3>1. active = b
            BY <1>1, <2>2, OneCurrent, SMT DEF Inv, StreamKnows, Types
        <3>. QED  BY <2>1, <3>1, Zenon DEF PrepareBatch, BatchOf
    <2>3. CASE stream = "ended"
        <3>1. byCall[id] = b
            BY <1>1, <1>3, <1>4, <2>3, Zenon DEF Inv, TablesCurrent
        <3>. QED  BY <1>1, <3>1, BatchesAssumption, Zenon DEF PrepareBatch, BatchOf
    <2>. QED  BY <1>1, <2>2, <2>3
<1>6. /\ batch' = [batch EXCEPT ![b].ids = @ \cup {id}]
      /\ byCall' = [byCall EXCEPT ![id] = b]
      /\ prep' = [prep EXCEPT ![c] = [NoPrep EXCEPT !.at = "queued", !.batch = b, !.prev = tail]]
      /\ tail' = c
    BY <1>1, <1>5, BatchesAssumption, Zenon DEF Prepare
<1>7. /\ batch' \in [Batch -> BatchType]
      /\ \A x \in Batch : x # b => batch'[x] = batch[x]
      /\ batch'[b].turn = batch[b].turn /\ batch'[b].ids = batch[b].ids \cup {id}
      /\ batch'[b].known = batch[b].known /\ batch'[b].prepared = batch[b].prepared
      /\ batch'[b].completed = batch[b].completed /\ batch'[b].rejected = batch[b].rejected
      /\ batch'[b].cancelled = batch[b].cancelled /\ batch'[b].sealed = batch[b].sealed
      /\ batch'[b].released = batch[b].released
    <2>1. batch \in [Batch -> BatchType] /\ batch[b] \in BatchType
        BY <1>1, Zenon DEF Inv, Types
    <2>2. [batch[b] EXCEPT !.ids = @ \cup {id}] \in BatchType
        BY <1>1, <2>1 DEF BatchType
    <2>3. batch' = [batch EXCEPT ![b] = [batch[b] EXCEPT !.ids = @ \cup {id}]]
        BY <1>6
    <2>. QED  BY <1>1, <2>1, <2>2, <2>3 DEF BatchType
<1>8. /\ prep' \in [Call -> PrepType]
      /\ prep'[c].at = "queued" /\ prep'[c].batch = b /\ prep'[c].outcome = "none"
      /\ \A d \in Call : d # c => prep'[d] = prep[d]
    <2>1. tail \in Call \cup {None} /\ prep \in [Call -> PrepType]
        BY Zenon DEF Inv, Types
    <2>2. [NoPrep EXCEPT !.at = "queued", !.batch = b, !.prev = tail] \in PrepType
        BY <1>1, <2>1 DEF NoPrep, PrepType, Outcome
    <2>. QED  BY <1>6, <2>1, <2>2 DEF NoPrep
<1>. HIDE DEF id, b
<1>9. /\ Idle' <=> Idle
      /\ \A x \in Batch : /\ (Started(x)' <=> Started(x)) /\ (Latest(x)' <=> Latest(x))
                          /\ (Current(x)' <=> x = b) /\ (Current(x) <=> x = b)
                          /\ (x # b => (Complete(x)' <=> Complete(x)))
      /\ ~ Complete(b)'
    <2>1. \A x \in Batch : batch'[x].turn = batch[x].turn
        BY <1>7, Zenon
    <2>2. \A x \in Batch : x # b => (Complete(x)' <=> Complete(x))
        BY <1>7, Zenon DEF Complete
    <2>3. ~ Complete(b)'
        BY <1>2, <1>7, SMT DEF Complete
    <2>. QED  BY <1>1, <2>1, <2>2, <2>3, SameTurns, OneCurrent, Zenon
<1>10. Types'
    BY <1>1, <1>6, <1>7, <1>8, SMT DEF Inv, Types
<1>11. Order'
    <2>1. (\A t \in over' : t <= turn') /\ \A x \in Batch : batch'[x].turn <= turn'
        BY <1>1, <1>7, SMT DEF Inv, Order
    <2>2. \A x \in Batch : ~ Started(x)' => batch'[x] = NoBatch
        BY <1>1, <1>7, <1>9, Zenon DEF Inv, Order, Current, Latest
    <2>. QED  BY <1>9, <2>1, <2>2, Zenon DEF Inv, Order
<1>12. StreamKnows'
    <2>1. stream = "ended" => batch'[b].ids = batch[b].ids
        BY <1>3, <1>7
    <2>2. active # None => active \in Batch
        BY Zenon DEF Inv, Types
    <2>. QED  BY <1>1, <1>7, <1>9, <2>1, <2>2, Zenon DEF Inv, StreamKnows
<1>13. Parts'
    <2>1. id \in IdsOf(b)
        BY <1>1, Zenon DEF IdsOf
    <2>. QED  BY <1>1, <1>7, <2>1, SMT DEF Inv, Parts
<1>14. CallsOf'
    <2>1. \A d \in Call : d[1] \in batch'[d[2]].prepared <=> d[1] \in batch[d[2]].prepared
        BY <1>7, CallParts, Zenon
    <2>2. \A d \in Call : d[1] \in batch'[d[2]].completed <=> d[1] \in batch[d[2]].completed
        BY <1>7, CallParts, Zenon
    <2>3. \A d \in Call : d[1] \in batch[d[2]].ids => d[1] \in batch'[d[2]].ids
        BY <1>7, CallParts, SMT
    <2>4. \A d \in Call : batch'[d[2]].rejected = batch[d[2]].rejected
        BY <1>7, CallParts, Zenon
    <2>5. c[2] = b /\ c[1] = id /\ c[1] \in batch'[c[2]].ids
        BY <1>7 DEF id, b
    <2>. QED  BY <1>1, <1>2, <1>8, <2>1, <2>2, <2>3, <2>4, <2>5, SMT DEF Inv, CallsOf
<1>15. Batches'
    <2>1. \A x \in Batch : Ready(batch'[x]) => batch'[x].released
        BY <1>1, <1>7, SMT DEF Inv, Batches, Ready
    <2>2. \A x \in Batch : batch'[x].released =>
             batch'[x].sealed /\ (batch'[x].cancelled \/ batch'[x].ids \subseteq batch'[x].prepared)
        BY <1>1, <1>4, <1>7, Zenon DEF Inv, Batches, Decided
    <2>. QED  BY <1>1, <1>4, <1>7, <1>9, <2>1, <2>2, Zenon DEF Inv, Batches
<1>16. TablesCurrent'
    <2>1. \A i \in Id : byCall'[i] # None => byCall'[i] = b /\ i \in batch'[b].ids
        BY <1>1, <1>6, <1>7, <1>9, SMT DEF Inv, TablesCurrent, Types
    <2>2. \A i \in Id : prepared[i] # None =>
             prepared[i].call \in Call /\ prepared[i].call # c /\ prepared[i].batch = b
        BY <1>1, <1>9, SMT DEF Inv, TablesCurrent, Types, Entry
    <2>3. \A i \in batch'[b].ids : byCall'[i] = b
        BY <1>1, <1>4, <1>6, <1>7, SMT DEF Inv, TablesCurrent, Types, Parts, IdsOf
    <2>. QED  BY <1>1, <1>8, <1>9, <2>1, <2>2, <2>3, SMT DEF Inv, TablesCurrent
<1>17. Allowed' /\ StartedIsTold'
    <2>1. ASSUME NEW d \in Call, exec[d].at \in {"locks", "revalidating", "running"} \/ d \in ran
          PROVE  d[2] # b /\ d[2] \in Batch /\ d # c
        <3>1. d[2] # b
            BY <1>4, <2>1, Zenon DEF Inv, Allowed
        <3>. QED  BY <3>1, CallParts DEF b
    <2>. QED  BY <1>1, <1>7, <1>8, <2>1, Zenon DEF Inv, Allowed, Decided, StartedIsTold
<1>. QED
    BY <1>10, <1>11, <1>12, <1>13, <1>14, <1>15, <1>16, <1>17, Zenon DEF Inv

\* The turn of a preparation comes, and its call is looked at.
LEMMA CheckingInv ==
    ASSUME Inv, NEW c \in Call, prep[c].at = "queued",
           prep' = [prep EXCEPT ![c].at = "checking"],
           UNCHANGED <<batch, mapped, byCall, active, prepared, tail, exec, flags, turn, stream,
                       over, ran>>
    PROVE  Inv'
<1>1. /\ prep' \in [Call -> PrepType] /\ prep'[c].at = "checking"
      /\ prep'[c].batch = prep[c].batch /\ prep'[c].outcome = prep[c].outcome
      /\ \A d \in Call : d # c => prep'[d] = prep[d]
    <2>1. prep \in [Call -> PrepType]
        BY Zenon DEF Inv, Types
    <2>. QED  BY <2>1 DEF PrepType
<1>2. /\ Idle' <=> Idle
      /\ \A x \in Batch : /\ (Started(x)' <=> Started(x)) /\ (Latest(x)' <=> Latest(x))
                          /\ (Current(x)' <=> Current(x)) /\ (Complete(x)' <=> Complete(x))
    BY SameTurns, Zenon DEF Complete
<1>3. Types'
    BY <1>1, Zenon DEF Inv, Types
<1>4. Order' /\ StreamKnows' /\ Parts'
    BY <1>2, Zenon DEF Inv, Order, StreamKnows, Parts, Types
<1>5. CallsOf'
    BY <1>1, SMT DEF Inv, CallsOf
<1>6. Batches'
    BY <1>2, Zenon DEF Inv, Batches
<1>7. TablesCurrent'
    <2>1. \A i \in Id : byCall[i] # None => byCall[i] \in Batch
        BY Zenon DEF Inv, Types
    <2>2. \A i \in Id : prepared[i] # None =>
             prepared[i].call \in Call /\ prepared[i].batch \in Batch /\ prepared[i].call # c
        BY SMT DEF Inv, TablesCurrent, Types, Entry
    <2>. QED  BY <1>1, <1>2, <2>1, <2>2, Zenon DEF Inv, TablesCurrent
<1>8. Allowed' /\ StartedIsTold'
    BY <1>1, SMT DEF Inv, Allowed, Decided, StartedIsTold
<1>. QED  BY <1>3, <1>4, <1>5, <1>6, <1>7, <1>8, Zenon DEF Inv

\* What the end of a preparation writes into the batch r.
Noted(r, id, outcome) == [r EXCEPT !.rejected = @ \/ outcome = "rejected", !.prepared = @ \cup {id}]

\* It leaves the rest of the batch as it was.
LEMMA NotedParts ==
    ASSUME NEW r \in BatchType, NEW id \in Id, NEW outcome \in Outcome
    PROVE  /\ Noted(r, id, outcome) \in BatchType
           /\ Noted(r, id, outcome).rejected <=> r.rejected \/ outcome = "rejected"
           /\ Noted(r, id, outcome).prepared = r.prepared \cup {id}
           /\ Noted(r, id, outcome).turn = r.turn /\ Noted(r, id, outcome).ids = r.ids
           /\ Noted(r, id, outcome).known = r.known
           /\ Noted(r, id, outcome).completed = r.completed
           /\ Noted(r, id, outcome).cancelled = r.cancelled
           /\ Noted(r, id, outcome).sealed = r.sealed
           /\ Noted(r, id, outcome).released = r.released
<1>1. (r.rejected \/ outcome = "rejected") \in BOOLEAN /\ r.prepared \cup {id} \in SUBSET Id
    BY DEF BatchType
<1>. QED  BY <1>1 DEF BatchType, Noted

\* A preparation is over: until then its batch was neither complete nor
\* decided, so that the decision is about a call that has not run.
LEMMA PrepareOverInv ==
    ASSUME Inv, NEW c \in Call, NEW outcome \in Outcome, prep[c].at \in {"queued", "checking"},
           PrepareOver(c, outcome)
    PROVE  Inv'
<1> DEFINE id == c[1]
           b == c[2]
           entry == [call |-> c, batch |-> b, blocked |-> outcome # "ok"]
           s == Noted(batch[b], id, outcome)
           r == Released(s)
           entries == IF IsKept(batch[b]) THEN [prepared EXCEPT ![id] = entry] ELSE prepared
<1>1. /\ id \in Id /\ b \in Batch /\ c = <<id, b>> /\ prep[c].batch = b /\ b # None
      /\ id \in batch[b].ids /\ id \notin batch[b].completed /\ id \notin batch[b].prepared
      /\ exec[c].at # "done" /\ ~ Complete(b) /\ ~ Decided(b)
      /\ prep[c].at # "over" /\ prep[c].at # "none"
    <2>1. id \in Id /\ b \in Batch /\ c = <<id, b>> /\ b # None
        BY CallParts, BatchesAssumption, SMT
    <2>2. prep[c].batch = b /\ exec[c].at # "done" /\ id \notin batch[b].prepared
        BY SMT DEF Inv, CallsOf
    <2>3. id \in batch[b].ids /\ id \notin batch[b].completed /\ ~ Complete(b)
        BY <2>2, CallKeepsOpen
    <2>4. ~ Decided(b)
        BY <2>2, <2>3, Zenon DEF Decided
    <2>. QED  BY <2>1, <2>2, <2>3, <2>4
<1>2. ~ batch[b].cancelled => Current(b)
    BY <1>1, CallIsCurrent
<1>3. /\ prep' = [prep EXCEPT ![c].at = "over", ![c].outcome = outcome]
      /\ Become(b, r, mapped, byCall, entries)
      /\ UNCHANGED <<active, tail, exec, flags, turn, stream, over, ran>>
    BY <1>1, Zenon DEF PrepareOver, Noted, turns
<1>4. /\ prep' \in [Call -> PrepType] /\ prep'[c].at = "over" /\ prep'[c].outcome = outcome
      /\ prep'[c].batch = b
      /\ \A d \in Call : d # c => prep'[d] = prep[d]
    <2>1. prep \in [Call -> PrepType]
        BY Zenon DEF Inv, Types
    <2>. QED  BY <1>1, <1>3, <2>1 DEF PrepType
<1>5. /\ s \in BatchType /\ (s.rejected <=> batch[b].rejected \/ outcome = "rejected")
      /\ s.prepared = batch[b].prepared \cup {id}
      /\ s.turn = batch[b].turn /\ s.ids = batch[b].ids /\ s.known = batch[b].known
      /\ s.completed = batch[b].completed /\ s.cancelled = batch[b].cancelled
      /\ s.sealed = batch[b].sealed /\ s.released = batch[b].released
    <2>1. batch[b] \in BatchType
        BY <1>1, Zenon DEF Inv, Types
    <2>. QED  BY <1>1, <2>1, NotedParts
<1>. HIDE DEF s
<1>6. /\ r \in BatchType /\ (r.rejected <=> batch[b].rejected \/ outcome = "rejected")
      /\ r.prepared = batch[b].prepared \cup {id}
      /\ r.turn = batch[b].turn /\ r.ids = batch[b].ids /\ r.known = batch[b].known
      /\ r.completed = batch[b].completed /\ r.cancelled = batch[b].cancelled
      /\ r.sealed = batch[b].sealed /\ (r.released <=> batch[b].released \/ Ready(r))
    BY <1>5, ReleasedParts, Zenon
<1>. HIDE DEF r
<1>7. entry \in Entry /\ entry.call = c /\ entry.batch = b /\ (entry.blocked <=> outcome # "ok")
    BY <1>1 DEF Entry
<1>. HIDE DEF entry
<1>8. /\ entries \in [Id -> Entry \cup {None}]
      /\ \A i \in Id : i # id => entries[i] = prepared[i]
      /\ batch[b].cancelled => entries = prepared
      /\ ~ batch[b].cancelled => entries[id] = entry
    <2>1. prepared \in [Id -> Entry \cup {None}]
        BY Zenon DEF Inv, Types
    <2>. QED  BY <1>1, <1>7, <2>1 DEF IsKept
<1>. HIDE DEF entries
<1>9. /\ batch' \in [Batch -> BatchType] /\ batch'[b] = r
      /\ \A x \in Batch : x # b => batch'[x] = batch[x]
      /\ ~ Complete(b)'
      /\ mapped' = mapped /\ byCall' = byCall /\ prepared' = entries
    <2>1. r.completed \subseteq r.ids
        BY <1>1, <1>6, SMT DEF Inv, Parts
    <2>2. /\ mapped \in SUBSET Batch /\ byCall \in [Id -> Batch \cup {None}]
          /\ batch \in [Batch -> BatchType]
        BY Zenon DEF Inv, Types
    <2>3. Became(b, r, mapped, byCall, entries)
        BY <1>1, <1>3, <1>6, <1>8, <2>1, <2>2, BecomeEffect, Zenon
    <2>4. batch'[b] = r /\ ~ Complete(b)'
        BY <1>1, <1>6, <2>3, SMT DEF Became, Complete
    <2>5. \A x \in Batch : x \in mapped' <=> x \in mapped
        BY <2>3, <2>4, Zenon DEF Became
    <2>6. \A i \in Id : byCall'[i] = byCall[i] /\ prepared'[i] = entries[i]
        BY <2>3, <2>4, Zenon DEF Became
    <2>7. mapped' = mapped
        BY <2>2, <2>3, <2>5 DEF Became
    <2>8. byCall' = byCall /\ prepared' = entries
        BY <1>8, <2>2, <2>3, <2>6 DEF Became
    <2>. QED  BY <2>3, <2>4, <2>7, <2>8, Zenon DEF Became
<1>10. /\ Idle' <=> Idle
       /\ \A x \in Batch : /\ (Started(x)' <=> Started(x)) /\ (Latest(x)' <=> Latest(x))
                           /\ (Current(x)' <=> Current(x)) /\ (Complete(x)' <=> Complete(x))
    <2>1. \A x \in Batch : batch'[x].turn = batch[x].turn
        BY <1>6, <1>9, Zenon
    <2>2. \A x \in Batch : Complete(x)' <=> Complete(x)
        BY <1>1, <1>9, Zenon DEF Complete
    <2>. QED  BY <1>3, <2>1, <2>2, SameTurns, Zenon
<1>11. Types'
    BY <1>3, <1>4, <1>8, <1>9, Zenon DEF Inv, Types
<1>12. Order'
    <2>1. (\A t \in over' : t <= turn') /\ \A x \in Batch : batch'[x].turn <= turn'
        BY <1>3, <1>6, <1>9, SMT DEF Inv, Order
    <2>2. Started(b)
        BY <1>1, SMT DEF Inv, Order, NoBatch
    <2>. QED  BY <1>9, <1>10, <2>1, <2>2, Zenon DEF Inv, Order
<1>13. StreamKnows'
    <2>1. active # None => active \in Batch
        BY Zenon DEF Inv, Types
    <2>. QED  BY <1>3, <1>6, <1>9, <1>10, <2>1, Zenon DEF Inv, StreamKnows
<1>14. Parts'
    <2>1. r.prepared \subseteq r.ids
        BY <1>1, <1>6, SMT DEF Inv, Parts
    <2>2. \A x \in Batch : batch'[x].ids = batch[x].ids /\ batch'[x].known = batch[x].known
                           /\ batch'[x].completed = batch[x].completed
        BY <1>6, <1>9, Zenon
    <2>. QED  BY <1>6, <1>9, <2>1, <2>2, Zenon DEF Inv, Parts
<1>15. CallsOf'
    <2>1. ASSUME NEW d \in Call
          PROVE  /\ d[1] \in batch'[d[2]].prepared <=> d[1] \in batch[d[2]].prepared \/ d = c
                 /\ d[1] \in batch'[d[2]].completed <=> d[1] \in batch[d[2]].completed
                 /\ batch'[d[2]].ids = batch[d[2]].ids
                 /\ batch[d[2]].rejected => batch'[d[2]].rejected
        BY <1>1, <1>6, <1>9, CallParts, SMT
    <2>2. c[2] = b /\ c[1] = id /\ (outcome = "rejected" => batch'[c[2]].rejected)
        BY <1>6, <1>9
    <2>. QED  BY <1>1, <1>3, <1>4, <2>1, <2>2, SMT DEF Inv, CallsOf
<1>16. Batches'
    <2>1. \A x \in Batch : Ready(batch'[x]) => batch'[x].released
        BY <1>6, <1>9, Zenon DEF Inv, Batches
    <2>2. batch'[b].released =>
             batch'[b].sealed /\ (batch'[b].cancelled \/ batch'[b].ids \subseteq batch'[b].prepared)
        BY <1>1, <1>6, <1>9, Zenon DEF Inv, Batches, Decided, Ready
    <2>3. \A x \in Batch : x # b /\ batch'[x].released =>
             batch'[x].sealed /\ (batch'[x].cancelled \/ batch'[x].ids \subseteq batch'[x].prepared)
        BY <1>9, Zenon DEF Inv, Batches
    <2>4. \A x \in Batch : batch'[x].cancelled = batch[x].cancelled /\ batch'[x].turn = batch[x].turn
        BY <1>6, <1>9, Zenon
    <2>. QED  BY <1>3, <1>9, <1>10, <2>1, <2>2, <2>3, <2>4, Zenon DEF Inv, Batches
<1>17. TablesCurrent'
    <2>1. \A x \in Batch : batch'[x].ids = batch[x].ids
        BY <1>6, <1>9, Zenon
    <2>2. \A i \in Id : byCall[i] # None => byCall[i] \in Batch
        BY Zenon DEF Inv, Types
    <2>3. ASSUME NEW i \in Id, NEW e \in Entry, prepared'[i] = e
          PROVE  /\ e.call = <<i, e.batch>> /\ e.batch \in Batch /\ Current(e.batch)
                 /\ ~ Complete(e.batch) /\ prep'[e.call].at = "over"
                 /\ (e.blocked <=> prep'[e.call].outcome # "ok")
        <3>1. CASE prepared[i] = e
            <4>1. e.call \in Call /\ e.batch \in Batch /\ e # None
                BY BatchesAssumption DEF Entry
            <4>2. e.call # c
                BY <1>1, <3>1, <4>1, Zenon DEF Inv, TablesCurrent
            <4>. QED  BY <1>4, <3>1, <4>1, <4>2, Zenon DEF Inv, TablesCurrent
        <3>2. CASE prepared[i] # e
            <4>1. i = id /\ e = entry /\ ~ batch[b].cancelled
                BY <1>8, <1>9, <2>3, <3>2
            <4>. QED  BY <1>1, <1>2, <1>4, <1>7, <4>1
        <3>. QED  BY <3>1, <3>2
    <2>4. \A i \in Id : prepared'[i] # None => prepared'[i] \in Entry
        BY <1>8, <1>9
    <2>5. \A i \in Id : prepared'[i] # None =>
             LET e == prepared'[i] IN
             /\ e.call = <<i, e.batch>> /\ e.batch \in Batch /\ Current(e.batch)
             /\ ~ Complete(e.batch) /\ prep'[e.call].at = "over"
             /\ (e.blocked <=> prep'[e.call].outcome # "ok")
        BY <2>3, <2>4
    <2>. QED  BY <1>9, <1>10, <2>1, <2>2, <2>5, SMT DEF Inv, TablesCurrent
<1>18. Allowed' /\ StartedIsTold'
    <2>1. ASSUME NEW d \in Call, exec[d].at \in {"locks", "revalidating", "running"} \/ d \in ran
          PROVE  d[2] # b /\ d[2] \in Batch /\ d # c
        <3>1. d[2] # b
            BY <1>1, <2>1, Zenon DEF Inv, Allowed
        <3>. QED  BY <3>1, CallParts
    <2>. QED  BY <1>3, <1>4, <1>9, <2>1, Zenon DEF Inv, Allowed, Decided, StartedIsTold
<1>. QED
    BY <1>11, <1>12, <1>13, <1>14, <1>15, <1>16, <1>17, <1>18, Zenon DEF Inv

\* What a call that was admitted knows.
MayGo(c) ==
    /\ prep[c].outcome = "ok"
    /\ Decided(c[2]) /\ ~ batch[c[2]].rejected

\* The decision about c that lets it run.
Grant(c) == [call |-> c, batch |-> c[2], blocked |-> FALSE]

\* It is an entry of the table.
LEMMA GrantIsEntry ==
    ASSUME NEW c \in Call
    PROVE  /\ Grant(c) \in Entry /\ Grant(c) # None
           /\ Grant(c).call = c /\ Grant(c).batch = c[2] /\ ~ Grant(c).blocked
<1>1. Grant(c) \in Entry
    BY CallParts DEF Entry, Grant
<1>. QED  BY <1>1, BatchesAssumption DEF Grant

\* A call goes on towards its operation, and answers nothing yet.
LEMMA GoesOnInv ==
    ASSUME Inv, NEW c \in Call, prep[c].at = "over", exec[c].at # "done",
           NEW new \in ExecType, exec' = [exec EXCEPT ![c] = new], new.batch = c[2],
           \/ new.at = "admission" /\ new.entry = None /\ c \notin ran
           \/ new.at \in {"locks", "revalidating", "running"} /\ new.entry = Grant(c) /\ MayGo(c),
           \/ ran' = ran
           \/ ran' = ran \cup {c} /\ new.at = "running",
           flags = ran => flags' = ran',
           UNCHANGED <<batch, mapped, byCall, active, prepared, tail, prep, turn, stream, over>>
    PROVE  Inv'
<1>1. /\ exec' \in [Call -> ExecType] /\ exec'[c] = new
      /\ \A d \in Call : d # c => exec'[d] = exec[d]
      /\ ran' \subseteq ran \cup {c} /\ flags' = ran'
    <2>1. exec \in [Call -> ExecType] /\ flags = ran
        BY Zenon DEF Inv, Types, StartedIsTold
    <2>. QED  BY <2>1
<1>2. /\ Idle' <=> Idle
      /\ \A x \in Batch : /\ (Started(x)' <=> Started(x)) /\ (Latest(x)' <=> Latest(x))
                          /\ (Current(x)' <=> Current(x)) /\ (Complete(x)' <=> Complete(x))
    BY SameTurns, Zenon DEF Complete
<1>3. Types' /\ StartedIsTold'
    <2>1. ran' \subseteq Call
        BY <1>1 DEF Inv, Types
    <2>2. flags' \subseteq Id \X Batch
        BY <1>1, <2>1, BatchesAssumption
    <2>. QED  BY <1>1, <2>1, <2>2, Zenon DEF Inv, Types, StartedIsTold
<1>4. Order' /\ StreamKnows' /\ Parts'
    BY <1>2, Zenon DEF Inv, Order, StreamKnows, Parts, Types
<1>5. CallsOf'
    BY <1>1, SMT DEF Inv, CallsOf
<1>6. Batches'
    BY <1>2, Zenon DEF Inv, Batches
<1>7. TablesCurrent'
    <2>1. \A i \in Id : byCall[i] # None => byCall[i] \in Batch
        BY Zenon DEF Inv, Types
    <2>2. \A i \in Id : prepared[i] # None => prepared[i].batch \in Batch
        BY SMT DEF Inv, Types, Entry
    <2>. QED  BY <1>2, <2>1, <2>2, Zenon DEF Inv, TablesCurrent
<1>8. Allowed'
    <2> SUFFICES ASSUME NEW d \in Call,
                        exec'[d].at \in {"locks", "revalidating", "running"} \/ d \in ran'
                 PROVE  /\ exec'[d].entry = Grant(d) /\ prep[d].outcome = "ok"
                        /\ Decided(d[2]) /\ ~ batch[d[2]].rejected
        BY Zenon DEF Allowed, Decided, Grant
    <2>1. CASE d # c
        BY <1>1, <2>1, Zenon DEF Inv, Allowed, Grant
    <2>2. CASE d = c
        BY <1>1, <2>2, Zenon DEF MayGo
    <2>. QED  BY <2>1, <2>2
<1>. QED  BY <1>3, <1>4, <1>5, <1>6, <1>7, <1>8, Zenon DEF Inv

\* A call is executed: the tables still have it in the batch it is of.
LEMMA ExecuteInv == \A c \in Call : Inv /\ Execute(c) => Inv'
<1> SUFFICES ASSUME NEW c \in Call, Inv, Execute(c) PROVE Inv'
    OBVIOUS
<1>1. /\ ~ Idle /\ TurnOf(c) = turn /\ prep[c].at = "over" /\ exec[c].at = "none"
      /\ UNCHANGED <<mapped, active, prepared, tail, prep, flags, turn, stream, over, ran>>
    BY Zenon DEF Execute, turns
<1>2. /\ c[1] \in Id /\ c[2] \in Batch /\ Current(c[2])
      /\ c[1] \in batch[c[2]].ids /\ ~ Complete(c[2])
    BY <1>1, CallParts, CallKeepsOpen, CallIsCurrent
<1>3. byCall[c[1]] = c[2] /\ BatchOf(c[1]) = c[2]
    <2>1. byCall[c[1]] = c[2]
        BY <1>2, Zenon DEF Inv, TablesCurrent
    <2>2. c[2] # None
        BY <1>2, BatchesAssumption
    <2>. QED  BY <2>1, <2>2, Zenon DEF BatchOf
<1> DEFINE new == [NoExec EXCEPT !.at = "admission", !.batch = c[2]]
<1>4. /\ batch' = [batch EXCEPT ![c[2]].ids = @ \cup {c[1]}]
      /\ byCall' = [byCall EXCEPT ![c[1]] = c[2]]
      /\ exec' = [exec EXCEPT ![c] = new]
    BY <1>3, Zenon DEF Execute
<1>5. batch' = batch /\ byCall' = byCall
    <2>1. batch \in [Batch -> BatchType] /\ byCall \in [Id -> Batch \cup {None}]
        BY Zenon DEF Inv, Types
    <2>2. batch[c[2]].ids \cup {c[1]} = batch[c[2]].ids
        BY <1>2
    <2>3. batch[c[2]] \in BatchType
        BY <1>2, <2>1
    <2>4. [batch[c[2]] EXCEPT !.ids = @ \cup {c[1]}] = batch[c[2]]
        BY <2>2, <2>3 DEF BatchType
    <2>5. batch' = [batch EXCEPT ![c[2]] = [batch[c[2]] EXCEPT !.ids = @ \cup {c[1]}]]
        BY <1>4
    <2>. QED  BY <1>2, <1>3, <1>4, <2>1, <2>4, <2>5
<1>6. new \in ExecType /\ new.at = "admission" /\ new.batch = c[2] /\ new.entry = None
    BY <1>2 DEF NoExec, ExecType
<1>7. c \notin ran
    <2>1. exec[c].entry = None
        BY <1>1, SMT DEF Inv, CallsOf
    <2>. QED  BY <2>1, GrantIsEntry, Zenon DEF Inv, Allowed, Grant
<1>. HIDE DEF new
<1>. QED  BY <1>1, <1>4, <1>5, <1>6, <1>7, GoesOnInv

\* The batch is admitted, and the decision in the tables, which is the one
\* about this call, lets it go to the locks.
LEMMA AdmittedInv ==
    ASSUME Inv, NEW c \in Call, exec[c].at = "admission", batch[exec[c].batch].released,
           ~ batch[exec[c].batch].cancelled, MayRun(prepared[c[1]]),
           exec' = [exec EXCEPT ![c].at = "locks", ![c].entry = prepared[c[1]]],
           UNCHANGED <<batch, tables, prep, flags, turns, ran>>
    PROVE  Inv'
<1> DEFINE entry == prepared[c[1]]
<1>1. /\ prep[c].at = "over" /\ exec[c].batch = c[2]
      /\ UNCHANGED <<batch, mapped, byCall, active, prepared, tail, prep, flags, turn, stream, over,
                     ran>>
    BY SMT DEF Inv, CallsOf, tables, turns
<1>2. Current(c[2])
    BY <1>1, CallIsCurrent
<1>3. entry \in Entry /\ entry.call = <<c[1], entry.batch>> /\ Current(entry.batch)
      /\ (entry.blocked <=> prep[entry.call].outcome # "ok") /\ ~ entry.blocked
    BY CallParts, Zenon DEF Inv, Types, TablesCurrent, MayRun
<1>4. entry.batch = c[2] /\ entry.call = c
    BY <1>2, <1>3, CallParts, OneCurrent DEF Entry
<1>5. entry = Grant(c)
    BY <1>3, <1>4 DEF Entry, Grant
<1>6. MayGo(c)
    <2>1. c[2] # None /\ c[2] \in Batch
        BY CallParts, BatchesAssumption
    <2>2. ~ batch[c[2]].rejected
        BY <1>4, <2>1, Zenon DEF MayRun
    <2>3. Decided(c[2])
        BY <1>1, <2>1, Zenon DEF Inv, Batches, Decided
    <2>4. prep[c].outcome = "ok"
        BY <1>3, <1>4, Zenon
    <2>. QED  BY <2>2, <2>3, <2>4 DEF MayGo
<1>. HIDE DEF entry
<1> DEFINE new == [exec[c] EXCEPT !.at = "locks", !.entry = entry]
<1>7. new \in ExecType /\ new.at = "locks" /\ new.entry = entry /\ new.batch = c[2]
      /\ exec' = [exec EXCEPT ![c] = new]
    <2>1. exec \in [Call -> ExecType]
        BY Zenon DEF Inv, Types
    <2>2. exec[c] \in ExecType
        BY <2>1
    <2>3. new \in ExecType /\ new.at = "locks" /\ new.entry = entry /\ new.batch = exec[c].batch
        BY <1>3, <2>2 DEF ExecType
    <2>4. exec' = [exec EXCEPT ![c] = new]
        BY <2>1 DEF entry
    <2>. QED  BY <1>1, <2>3, <2>4
<1>. HIDE DEF new
<1>8. /\ new.at \in {"locks", "revalidating", "running"} /\ new.entry = Grant(c)
      /\ exec[c].at # "done" /\ ran' = ran /\ flags' = flags
    BY <1>1, <1>5, <1>7
<1>9. /\ new.at \in {"locks", "revalidating", "running"} /\ new.entry = Grant(c) /\ MayGo(c)
      /\ flags = ran => flags' = ran'
      /\ UNCHANGED <<batch, mapped, byCall, active, prepared, tail, prep, turn, stream, over>>
    BY <1>1, <1>6, <1>8, Zenon
<1>. QED  BY <1>1, <1>7, <1>8, <1>9, GoesOnInv, Zenon

\* A call that holds its locks looks at what it captured again, and starts.
LEMMA RunsInv ==
    ASSUME Inv, NEW c \in Call, NEW at \in {"revalidating", "running"},
           exec[c].at \in {"locks", "revalidating"}, Move(c, at),
           \/ UNCHANGED <<flags, ran>>
           \/ at = "running" /\ flags' = flags \cup {FlagOf(c)} /\ ran' = ran \cup {c},
           UNCHANGED <<batch, tables, prep, turns>>
    PROVE  Inv'
<1>1. /\ prep[c].at = "over" /\ exec[c].batch = c[2] /\ exec[c].at # "done"
      /\ UNCHANGED <<batch, mapped, byCall, active, prepared, tail, prep, turn, stream, over>>
    BY SMT DEF Inv, CallsOf, tables, turns
<1>2. exec[c].entry = Grant(c) /\ MayGo(c)
    BY Zenon DEF Inv, Allowed, MayGo, Grant
<1>3. FlagOf(c) = c
    <2>1. exec[c].entry.batch = c[2] /\ c[2] # None
        BY <1>2, GrantIsEntry, CallParts, BatchesAssumption
    <2>. QED  BY <2>1, CallParts DEF FlagOf
<1> DEFINE new == [exec[c] EXCEPT !.at = at]
<1>4. new \in ExecType /\ new.at = at /\ new.entry = Grant(c) /\ new.batch = c[2]
      /\ exec' = [exec EXCEPT ![c] = new]
    <2>1. exec \in [Call -> ExecType]
        BY Zenon DEF Inv, Types
    <2>2. exec[c] \in ExecType
        BY <2>1
    <2>. QED  BY <1>1, <1>2, <2>1, <2>2 DEF ExecType, Move
<1>. HIDE DEF new
<1>. QED  BY <1>1, <1>2, <1>3, <1>4, GoesOnInv

\* What the end of an execution writes into the batch r.
Answered(r, id) == [r EXCEPT !.completed = @ \cup {id}]

\* It leaves the rest of the batch as it was.
LEMMA AnsweredParts ==
    ASSUME NEW r \in BatchType, NEW id \in Id
    PROVE  /\ Answered(r, id) \in BatchType
           /\ Answered(r, id).completed = r.completed \cup {id}
           /\ Answered(r, id).turn = r.turn /\ Answered(r, id).ids = r.ids
           /\ Answered(r, id).known = r.known /\ Answered(r, id).prepared = r.prepared
           /\ Answered(r, id).rejected = r.rejected
           /\ Answered(r, id).cancelled = r.cancelled /\ Answered(r, id).sealed = r.sealed
           /\ Answered(r, id).released = r.released
<1>1. r.completed \cup {id} \in SUBSET Id
    BY DEF BatchType
<1>. QED  BY <1>1 DEF BatchType, Answered

\* A call is answered: it counts for its own batch, which takes its entries
\* out of the tables when that was the last one.
LEMMA ReturnInv ==
    ASSUME Inv, NEW c \in Call, exec[c].at \notin {"none", "done"}, Return(c)
    PROVE  Inv'
<1> DEFINE id == c[1]
           b == c[2]
           r == Answered(batch[b], id)
           own == IF exec[c].entry # None /\ exec[c].entry.batch # None
                  THEN exec[c].entry.batch ELSE exec[c].batch
           mine == \/ exec[c].entry # None /\ prepared[id] = exec[c].entry
                   \/ exec[c].entry = None /\ prepared[id] # None /\ prepared[id].batch = own
           entries == IF mine THEN [prepared EXCEPT ![id] = None] ELSE prepared
<1>1. /\ id \in Id /\ b \in Batch /\ c = <<id, b>> /\ b # None /\ prep[c].at = "over"
      /\ id \in batch[b].ids /\ ~ Complete(b) /\ exec[c].batch = b
    BY CallParts, CallKeepsOpen, BatchesAssumption, SMT DEF Inv, CallsOf
<1>2. own = b
    <2>1. CASE exec[c].at = "admission"
        BY <1>1, <2>1, SMT DEF Inv, CallsOf
    <2>2. CASE exec[c].at \in {"locks", "revalidating", "running"}
        <3>1. exec[c].entry = Grant(c)
            BY <2>2, Zenon DEF Inv, Allowed, Grant
        <3>. QED  BY <1>1, <3>1, GrantIsEntry
    <2>3. exec[c] \in ExecType
        BY Zenon DEF Inv, Types
    <2>. QED  BY <2>1, <2>2, <2>3 DEF ExecType
<1>3. /\ exec' = [exec EXCEPT ![c].at = "done"]
      /\ Become(b, r, mapped, byCall, entries)
      /\ UNCHANGED <<active, tail, prep, flags, turn, stream, over, ran>>
    BY <1>2, Zenon DEF Return, Answered, Move, turns
<1>. HIDE DEF own
<1>4. /\ entries \in [Id -> Entry \cup {None}]
      /\ \A i \in Id : entries[i] # None => entries[i] = prepared[i]
    <2>1. prepared \in [Id -> Entry \cup {None}]
        BY Zenon DEF Inv, Types
    <2>. QED  BY <1>1, <2>1
<1>. HIDE DEF entries
<1>5. /\ exec' \in [Call -> ExecType] /\ exec'[c].at = "done" /\ exec'[c].batch = b
      /\ exec'[c].entry = exec[c].entry
      /\ \A d \in Call : d # c => exec'[d] = exec[d]
    <2>1. exec \in [Call -> ExecType]
        BY Zenon DEF Inv, Types
    <2>. QED  BY <1>1, <1>3, <2>1 DEF ExecType
<1>6. /\ r \in BatchType /\ r.completed = batch[b].completed \cup {id}
      /\ r.turn = batch[b].turn /\ r.ids = batch[b].ids /\ r.known = batch[b].known
      /\ r.prepared = batch[b].prepared /\ r.rejected = batch[b].rejected
      /\ r.cancelled = batch[b].cancelled /\ r.sealed = batch[b].sealed
      /\ r.released = batch[b].released
    <2>1. batch[b] \in BatchType
        BY <1>1, Zenon DEF Inv, Types
    <2>. QED  BY <1>1, <2>1, AnsweredParts
<1>. HIDE DEF r
<1>7. r.completed \subseteq r.ids
    BY <1>1, <1>6, SMT DEF Inv, Parts
<1>8. Became(b, r, mapped, byCall, entries)
    <2>1. /\ mapped \in SUBSET Batch /\ byCall \in [Id -> Batch \cup {None}]
          /\ batch \in [Batch -> BatchType]
        BY Zenon DEF Inv, Types
    <2>. QED  BY <1>1, <1>3, <1>4, <1>6, <1>7, <2>1, BecomeEffect, Zenon
<1>9. /\ batch' \in [Batch -> BatchType] /\ batch'[b] = r
      /\ \A x \in Batch : x # b => batch'[x] = batch[x]
    BY <1>8, Zenon DEF Became
<1>10. /\ Idle' <=> Idle
       /\ \A x \in Batch : /\ (Started(x)' <=> Started(x)) /\ (Latest(x)' <=> Latest(x))
                           /\ (Current(x)' <=> Current(x))
                           /\ (x # b => (Complete(x)' <=> Complete(x)))
    <2>1. \A x \in Batch : batch'[x].turn = batch[x].turn
        BY <1>6, <1>9, Zenon
    <2>2. \A x \in Batch : x # b => (Complete(x)' <=> Complete(x))
        BY <1>9, Zenon DEF Complete
    <2>. QED  BY <1>3, <2>1, <2>2, SameTurns, Zenon
<1>11. Types'
    BY <1>3, <1>5, <1>8, Zenon DEF Inv, Types, Became
<1>12. Order'
    <2>1. (\A t \in over' : t <= turn') /\ \A x \in Batch : batch'[x].turn <= turn'
        BY <1>3, <1>6, <1>9, SMT DEF Inv, Order
    <2>2. Started(b)
        BY <1>1, SMT DEF Inv, Order, NoBatch
    <2>. QED  BY <1>9, <1>10, <2>1, <2>2, Zenon DEF Inv, Order
<1>13. StreamKnows'
    <2>1. active # None => active \in Batch
        BY Zenon DEF Inv, Types
    <2>. QED  BY <1>3, <1>6, <1>9, <1>10, <2>1, Zenon DEF Inv, StreamKnows
<1>14. Parts'
    <2>1. \A x \in Batch : batch'[x].ids = batch[x].ids /\ batch'[x].known = batch[x].known
                           /\ batch'[x].prepared = batch[x].prepared
        BY <1>6, <1>9, Zenon
    <2>2. \A x \in Batch : batch'[x].completed \subseteq batch'[x].ids
        BY <1>7, <1>9, Zenon DEF Inv, Parts
    <2>. QED  BY <2>1, <2>2, Zenon DEF Inv, Parts
<1>15. CallsOf'
    <2>1. ASSUME NEW d \in Call
          PROVE  /\ d[1] \in batch'[d[2]].completed <=> d[1] \in batch[d[2]].completed \/ d = c
                 /\ d[1] \in batch'[d[2]].prepared <=> d[1] \in batch[d[2]].prepared
                 /\ batch'[d[2]].ids = batch[d[2]].ids
                 /\ batch'[d[2]].rejected = batch[d[2]].rejected
        BY <1>1, <1>6, <1>9, CallParts, SMT
    <2>. QED  BY <1>1, <1>3, <1>5, <2>1, SMT DEF Inv, CallsOf
<1>16. Batches'
    <2>1. \A x \in Batch : /\ batch'[x].cancelled = batch[x].cancelled
                           /\ batch'[x].turn = batch[x].turn /\ batch'[x].ids = batch[x].ids
                           /\ batch'[x].prepared = batch[x].prepared
                           /\ batch'[x].sealed = batch[x].sealed
                           /\ batch'[x].released = batch[x].released
        BY <1>6, <1>9, Zenon
    <2>2. \A x \in Batch : /\ Ready(batch'[x]) => batch'[x].released
                           /\ batch'[x].released =>
                                 /\ batch'[x].sealed
                                 /\ batch'[x].cancelled \/ batch'[x].ids \subseteq batch'[x].prepared
        BY <2>1, Zenon DEF Inv, Batches, Ready
    <2>3. \A x \in Batch : x \in mapped' <=> x \in mapped /\ ~ (Complete(b)' /\ x = b)
        BY <1>8, Zenon DEF Became
    <2>4. \A x \in Batch : Complete(x) => Complete(x)'
        BY <1>1, <1>10, Zenon
    <2>. QED  BY <1>3, <1>10, <2>1, <2>2, <2>3, <2>4, Zenon DEF Inv, Batches
<1>17. TablesCurrent'
    <2>1. \A x \in Batch : batch'[x].ids = batch[x].ids
        BY <1>6, <1>9, Zenon
    <2>2. ASSUME NEW i \in Id, byCall'[i] # None
          PROVE  /\ byCall'[i] = byCall[i] /\ byCall[i] \in Batch
                 /\ \A x \in Batch : byCall[i] = x => ~ Complete(x)'
        <3>1. byCall'[i] = byCall[i] /\ byCall[i] \in Batch
            BY <1>8, <2>2, Zenon DEF Became, Inv, Types
        <3>2. CASE byCall[i] # b
            BY <1>10, <2>2, <3>1, <3>2, ZenonT(40) DEF Inv, TablesCurrent
        <3>3. CASE byCall[i] = b
            <4>1. i \in r.ids
                BY <1>6, <2>2, <3>1, <3>3, Zenon DEF Inv, TablesCurrent
            <4>. QED  BY <1>8, <3>1, <3>3, <4>1, Zenon DEF Became
        <3>. QED  BY <3>2, <3>3, <3>1
    <2>3. ASSUME NEW i \in Id, NEW e \in Entry, prepared'[i] = e
          PROVE  /\ e.call = <<i, e.batch>> /\ e.batch \in Batch /\ Current(e.batch)
                 /\ ~ Complete(e.batch)' /\ prep[e.call].at = "over"
                 /\ (e.blocked <=> prep[e.call].outcome # "ok")
        <3>1. e \in Entry /\ e # None /\ e.batch \in Batch /\ e.call \in Call
            BY BatchesAssumption DEF Entry
        <3>2. prepared[i] = e
            BY <1>4, <1>8, <2>3, <3>1, Zenon DEF Became
        <3>3. /\ e.call = <<i, e.batch>> /\ Current(e.batch) /\ ~ Complete(e.batch)
              /\ prep[e.call].at = "over" /\ (e.blocked <=> prep[e.call].outcome # "ok")
            BY <3>1, <3>2, Zenon DEF Inv, TablesCurrent
        <3>4. CASE e.batch # b
            BY <1>10, <3>1, <3>3, <3>4, Zenon
        <3>5. CASE e.batch = b
            <4>1. i \in r.ids
                BY <1>6, <3>1, <3>3, <3>5, SMT DEF Inv, CallsOf
            <4>. QED  BY <1>8, <2>3, <3>1, <3>3, <3>5, <4>1, Zenon DEF Became
        <3>. QED  BY <3>4, <3>5
    <2>4. \A i \in Id : prepared'[i] # None => prepared'[i] \in Entry
        BY <1>8, Zenon DEF Became
    <2>5. \A i \in Id : prepared'[i] # None =>
             LET e == prepared'[i] IN
             /\ e.call = <<i, e.batch>> /\ e.batch \in Batch /\ Current(e.batch)
             /\ \A x \in Batch : e.batch = x => ~ Complete(x)'
             /\ prep[e.call].at = "over" /\ (e.blocked <=> prep[e.call].outcome # "ok")
        BY <2>3, <2>4
    <2>6. ASSUME NEW x \in Batch, Current(x), ~ Complete(x)', NEW i \in batch[x].ids
          PROVE  byCall'[i] = x
        <3>1. ~ Complete(x)
            BY <1>1, <1>10, <2>6, Zenon
        <3>2. i \in Id /\ byCall[i] = x
            <4>1. i \in Id
                BY <2>6 DEF Inv, Types, BatchType
            <4>. QED  BY <2>6, <3>1, <4>1, Zenon DEF Inv, TablesCurrent
        <3>. QED  BY <1>8, <2>6, <3>2, Zenon DEF Became
    <2>. QED  BY <1>3, <1>10, <2>1, <2>2, <2>5, <2>6, SMT DEF Inv, TablesCurrent
<1>18. Allowed' /\ StartedIsTold'
    <2>1. \A x \in Batch : /\ Decided(x)' <=> Decided(x)
                           /\ batch'[x].rejected = batch[x].rejected
        BY <1>6, <1>9, Zenon DEF Decided
    <2>2. ASSUME NEW d \in Call, exec'[d].at \in {"locks", "revalidating", "running"} \/ d \in ran
          PROVE  /\ exec[d].at \in {"locks", "revalidating", "running"} \/ d \in ran
                 /\ exec'[d].entry = exec[d].entry
        BY <1>5, <2>2
    <2>. QED  BY <1>3, <2>1, <2>2, CallParts, Zenon DEF Inv, Allowed, StartedIsTold
<1>. QED
    BY <1>11, <1>12, <1>13, <1>14, <1>15, <1>16, <1>17, <1>18, Zenon DEF Inv

\* Every step keeps the invariant.
LEMMA NextInv == Inv /\ [Next]_vars => Inv'
<1> SUFFICES ASSUME Inv, [Next]_vars PROVE Inv'
    OBVIOUS
<1>1. CASE StartTurn
    BY <1>1, StartTurnInv
<1>2. CASE \E b \in Batch : StartBatch(b)
    BY <1>2, StartBatchInv
<1>3. CASE Seal
    BY <1>3, SealBatchInv DEF Seal
<1>4. CASE StreamFails
    BY <1>4, StreamFailsInv
<1>5. CASE Abort \/ UNCHANGED vars
    BY <1>5, AbortInv
<1>6. CASE FinishTurn
    BY <1>6, FinishTurnInv
<1>7. ASSUME NEW c \in Call, Prepare(c)
      PROVE  Inv'
    BY <1>7, PrepareInv
<1>8. ASSUME NEW c \in Call, PrepareStep(c)
      PROVE  Inv'
    <2>1. ASSUME NEW outcome \in Outcome, PrepareEnds(c, outcome)
          PROVE  Inv'
        BY <2>1, PrepareOverInv DEF PrepareEnds
    <2>2. CASE prep[c].at = "queued" /\ PrepareOver(c, "blocked")
        BY <2>2, PrepareOverInv DEF Outcome
    <2>3. CASE /\ prep[c].at = "queued" /\ prep' = [prep EXCEPT ![c].at = "checking"]
               /\ UNCHANGED <<batch, tables, exec, flags, turns, ran>>
        BY <2>3, CheckingInv DEF tables, turns
    <2>. QED  BY <1>8, <2>1, <2>2, <2>3, Zenon DEF PrepareStep, PrepareBegins
<1>9. ASSUME NEW c \in Call, ExecStep(c)
      PROVE  Inv'
    <2>1. CASE Execute(c)
        BY <2>1, ExecuteInv
    <2>2. CASE exec[c].at \notin {"none", "done"} /\ Return(c)
        BY <2>2, ReturnInv
    <2>3. CASE Admitted(c)
        BY <2>2, <2>3, AdmittedInv DEF Admitted
    <2>4. CASE WaitAborted(c) \/ Ends(c)
        BY <2>2, <2>4, SMT DEF WaitAborted, Ends
    <2>5. CASE Locked(c)
        BY <2>5, RunsInv DEF Locked
    <2>6. CASE Starts(c)
        BY <2>6, RunsInv DEF Starts
    <2>. QED  BY <1>9, <2>1, <2>3, <2>4, <2>5, <2>6, Zenon DEF ExecStep
<1>. QED
    BY <1>1, <1>2, <1>3, <1>4, <1>5, <1>6, <1>7, <1>8, <1>9, Zenon DEF Next

\* Every state a turn can get to has it.
LEMMA Invariance == Spec => []Inv
BY InitInv, NextInv, PTL DEF Spec
-----------------------------------------------------------------------------
(* What the coordinator promises.                                           *)

\* The entries of the tables are of the model call that the turn is at.
LEMMA InvTables == Inv => TablesExact
<1> SUFFICES ASSUME Inv PROVE TablesExact
    OBVIOUS
<1>1. \A c \in Call : prep[c] \in PrepType /\ exec[c] \in ExecType
    BY Zenon DEF Inv, Types
<1>2. TypeOK
    BY <1>1 DEF Inv, Types, TypeOK, PrepType, ExecType
<1>3. ASSUME NEW b \in Batch, Current(b)
      PROVE  batch[b].turn \notin over
    BY <1>3, Zenon DEF Current, Idle
<1>4. ASSUME NEW i \in Id, byCall[i] # None
      PROVE  batch[byCall[i]].turn \notin over
    <2>1. byCall[i] \in Batch
        BY <1>4, Zenon DEF Inv, Types
    <2>. QED  BY <1>3, <1>4, <2>1, Zenon DEF Inv, TablesCurrent
<1>5. ASSUME NEW i \in Id, prepared[i] # None
      PROVE  TurnOf(prepared[i].call) \notin over
    <2>1. prepared[i] \in Entry
        BY <1>5, Zenon DEF Inv, Types
    <2>2. prepared[i].batch \in Batch /\ prepared[i].call[2] = prepared[i].batch
        BY <1>5, <2>1, SMT DEF Inv, TablesCurrent, Entry
    <2>. QED  BY <1>3, <1>5, <2>2, Zenon DEF Inv, TablesCurrent, TurnOf
<1>. QED  BY <1>2, <1>4, <1>5 DEF TablesExact, TablesForget

\* finishTurn leaves nothing in toolCallBatches and prepared, and neither a
\* preparation nor an execution that ends after it writes there.
THEOREM Tables == Spec => []TablesExact
BY Invariance, InvTables, PTL

\* A batch with a call that the user rejected has no call that ran: its calls
\* run when all of them are decided, on what was decided.
LEMMA InvRejection == Inv => RejectionStopsBatch
<1> SUFFICES ASSUME Inv, NEW c \in Call, NEW d \in Call, c[2] = d[2],
                    prep[d].outcome = "rejected", c \in ran
             PROVE  FALSE
    BY Zenon DEF RejectionStopsBatch
<1>1. batch[d[2]].rejected
    BY Zenon DEF Inv, CallsOf
<1>2. ~ batch[c[2]].rejected
    BY Zenon DEF Inv, Allowed
<1>. QED  BY <1>1, <1>2

\* execute starts no call of a model call in which the user rejected one, and
\* prepare marks no batch as rejected of which a call was started.
THEOREM Rejection == Spec => []RejectionStopsBatch
BY Invariance, InvRejection, PTL

\* What a call captured at its admission is the decision about itself.
LEMMA InvDecision == Inv => OwnDecision
<1> SUFFICES ASSUME Inv, NEW c \in ran
             PROVE  exec[c].entry.call = c /\ prep[c].outcome = "ok"
    BY Zenon DEF OwnDecision
<1>1. c \in Call
    BY Zenon DEF Inv, Types
<1>2. exec[c].entry = Grant(c) /\ prep[c].outcome = "ok"
    BY <1>1, Zenon DEF Inv, Allowed, Grant
<1>. QED  BY <1>1, <1>2, GrantIsEntry

\* execute takes from prepared, whose keys models use again, the decision
\* about the very call that it starts, which allowed it.
THEOREM Decision == Spec => []OwnDecision
BY Invariance, InvDecision, PTL

\* A call that ran is of a batch that was decided as a whole.
LEMMA InvWhole == Inv => WholeBatchFirst
<1> SUFFICES ASSUME Inv, NEW c \in ran, NEW i \in batch[c[2]].known
             PROVE  prep[<<i, c[2]>>].at = "over"
    BY Zenon DEF WholeBatchFirst
<1>1. c \in Call /\ c[2] \in Batch
    BY CallParts DEF Inv, Types
<1>2. Decided(c[2])
    BY <1>1, Zenon DEF Inv, Allowed
<1>3. i \in batch[c[2]].prepared /\ i \in IdsOf(c[2])
    BY <1>1, <1>2, SMT DEF Inv, Parts, Decided
<1>4. <<i, c[2]>> \in Call
    BY <1>3, Zenon DEF IdsOf
<1>. QED  BY <1>3, <1>4, SMT DEF Inv, CallsOf

\* releaseBatchAdmissionIfReady admits a batch when every call that sealBatch
\* knew of is prepared, the ones the stream had not handed over included.
THEOREM Whole == Spec => []WholeBatchFirst
BY Invariance, InvWhole, PTL

\* The `started` that execute sets is the one of the call that was started,
\* whatever the tables hold under its id by then.
THEOREM Told == Spec => []StartedIsTold
<1>1. Inv => StartedIsTold
    BY DEF Inv
<1>. QED  BY <1>1, Invariance, PTL
=============================================================================
