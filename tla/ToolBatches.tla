------------------------------ MODULE ToolBatches ------------------------------
(* The ToolExecutionCoordinator of packages/runtime/src/tool-bridge/        *)
(* tool-execution-coordinator.ts, as a session's turn drives it: a model    *)
(* call opens a batch; its tool calls are prepared (checked, and approved   *)
(* by the user) one at a time while they stream in; when the model call has *)
(* ended and every call of the batch is prepared, the batch is admitted and *)
(* its calls run.  A turn has several batches; the end of a turn clears the *)
(* tables, whatever is still on its way.                                    *)
(*                                                                          *)
(* A call is <<id, b>>: models use the ids of calls again, so that the      *)
(* tables, whose keys are ids, may mix calls up.  The model's stream (the   *)
(* SDK) is external: it executes a call once its preparation has returned,  *)
(* opens the next batch of a turn when every call of the last one is        *)
(* answered or it failed before it had one, and may end a model call before *)
(* its last calls are prepared.  A turn that recovers from a failed stream  *)
(* with calls, or pauses, clears the tables first (finishTurn): what it     *)
(* does then is the next turn here.                                         *)
(* What the locks do is in ResourceLocks: here a call waits for them.       *)
EXTENDS Integers, FiniteSets

CONSTANTS Id,           \* the ids that models give to tool calls
          MaxBatch,     \* the model calls
          Call,         \* the tool calls they may make, as <<id, model call>>
          MaxTurn,      \* the turns they belong to
          None

Batch == 1 .. MaxBatch

\* What `prepared` keeps of a decision.
Entry == [call : Call, batch : Batch, blocked : BOOLEAN]

ASSUME BatchesAssumption ==
    /\ IsFiniteSet(Id)
    /\ MaxBatch \in Nat /\ MaxTurn \in Nat
    /\ Call \subseteq Id \X Batch
    /\ None \notin Batch /\ None \notin Call /\ None \notin Entry

\* The ids of the calls that the model call b may make.
IdsOf(b) == {i \in Id : <<i, b>> \in Call}

VARIABLES
    batch,      \* batch[b]: the BatchState of the model call b
    mapped,     \* `batches`: the batches finishTurn will cancel
    byCall,     \* `toolCallBatches`: byCall[id], the batch an id belongs to
    active,     \* `activeBatch`
    prepared,   \* `prepared`: prepared[id], what the preparation decided
    tail,       \* `preparationTail`: the last preparation of the chain
    prep,       \* prep[c]: [at, batch, prev, outcome] of its preparation
    exec,       \* exec[c]: [at, batch, entry] of its execution
    flags,      \* the occurrences whose `started` was set, as <<id, batch>>
    turn,       \* the turn that runs, 0 before the first
    stream,     \* the stream of its last batch: "open", "ended", "failed"
    over,       \* the turns that are finished
    aborted,    \* the turns whose signal was aborted
    ran         \* the calls whose operation was started

tables == <<mapped, byCall, active, prepared, tail>>
turns == <<turn, stream, over, aborted>>
vars == <<batch, tables, prep, exec, flags, turns, ran>>
-----------------------------------------------------------------------------
(* The state of a batch.                                                    *)

NoBatch == [turn |-> 0, ids |-> {}, prepared |-> {}, completed |-> {}, known |-> {},
            rejected |-> FALSE, cancelled |-> FALSE, sealed |-> FALSE, released |-> FALSE]

\* `toolCallBatches.get(toolCallId) ?? activeBatch`
BatchOf(id) == IF byCall[id] # None THEN byCall[id] ELSE active

\* Whether the batch r may be admitted.
Ready(r) == r.sealed /\ (r.cancelled \/ r.ids \subseteq r.prepared)

\* `releaseBatchAdmissionIfReady`
Released(r) == [r EXCEPT !.released = @ \/ Ready(r)]

\* Whether nothing of the batch r is left to do.
IsComplete(r) == r.released /\ Cardinality(r.completed) >= Cardinality(r.ids)

(* The batch b becomes r, the tables map, by and entries; what a complete   *)
(* batch has in them is deleted (`cleanupBatchIfComplete`).                 *)
Become(b, r, map, by, entries) ==
    /\ batch' = [batch EXCEPT ![b] = r]
    /\ mapped' = IF IsComplete(r) THEN map \ {b} ELSE map
    /\ byCall' = [i \in Id |-> IF IsComplete(r) /\ i \in r.ids /\ by[i] = b
                               THEN None ELSE by[i]]
    /\ prepared' = [i \in Id |->
                      IF IsComplete(r) /\ i \in r.ids /\ entries[i] # None /\ entries[i].batch = b
                      THEN None ELSE entries[i]]

\* `cancelBatch`
Cancelled(r) == Released([r EXCEPT !.cancelled = TRUE, !.sealed = TRUE])

NoPrep == [at |-> "none", batch |-> 0, prev |-> None, outcome |-> "none"]
NoExec == [at |-> "none", batch |-> 0, entry |-> None]

Init ==
    /\ batch = [b \in Batch |-> NoBatch]
    /\ mapped = {} /\ active = None /\ tail = None
    /\ byCall = [i \in Id |-> None]
    /\ prepared = [i \in Id |-> None]
    /\ prep = [c \in Call |-> NoPrep]
    /\ exec = [c \in Call |-> NoExec]
    /\ flags = {}
    /\ turn = 0 /\ stream = "ended" /\ over = {} /\ aborted = {}
    /\ ran = {}

Started(b) == batch[b].turn # 0
Latest(b) == Started(b) /\ \A x \in Batch : Started(x) => x <= b
TurnOf(c) == batch[c[2]].turn
-----------------------------------------------------------------------------
(* The model's stream.                                                      *)

Idle == turn = 0 \/ turn \in over

\* Every call of the last batch was answered.
StepOver ==
    /\ stream = "ended"
    /\ \A b \in Batch : Latest(b) => \A i \in batch[b].known : exec[<<i, b>>].at = "done"

\* The last batch is given up, without a call, and its model call repeated.
Repeats ==
    /\ stream = "failed"
    /\ \A b \in Batch : Latest(b) => batch[b].ids = {}

(* A turn begins.                                                           *)
StartTurn ==
    /\ Idle
    /\ turn < MaxTurn
    /\ turn' = turn + 1
    /\ stream' = "ended"
    /\ UNCHANGED <<batch, tables, prep, exec, flags, over, aborted, ran>>

(* `startBatch`: a model call of the turn starts.  The batches of a turn    *)
(* have the same callId: the map keeps the last one.                        *)
StartBatch(b) ==
    /\ ~ Idle /\ turn \notin aborted
    /\ ~ Started(b) /\ \A x \in Batch : x < b => Started(x)
    /\ (\E x \in Batch : batch[x].turn = turn) => StepOver \/ Repeats
    /\ batch' = [x \in Batch |->
                   IF x = b THEN [NoBatch EXCEPT !.turn = turn]
                   ELSE IF x = active /\ ~ batch[x].sealed THEN Cancelled(batch[x])
                   ELSE batch[x]]
    /\ mapped' = {b}
    /\ active' = b
    /\ stream' = "open"
    /\ UNCHANGED <<byCall, prepared, tail, prep, exec, flags, turn, over, aborted, ran>>

\* (bug) the calls that were not prepared yet are not known to the batch
SealedIds_prepared(r, calls) == r.ids

\* The calls a sealed batch waits for.
SealedIds(r, calls) == r.ids \cup calls

(* `sealBatch`: the model call ended; its calls, some of which the stream   *)
(* has not handed over yet, are known to the batch.                         *)
SealBatch(b, calls) ==
    LET tracked == SealedIds(batch[b], calls)
        r == Released([batch[b] EXCEPT !.ids = tracked, !.known = calls, !.sealed = TRUE])
    IN  /\ ~ Idle /\ turn \notin aborted
        /\ Latest(b) /\ stream = "open" /\ batch[b].turn = turn
        /\ batch[b].ids \subseteq calls
        /\ stream' = "ended"
        /\ Become(b, r, IF tracked = {} THEN mapped \ {b} ELSE mapped,
                  [i \in Id |-> IF i \in tracked THEN b ELSE byCall[i]], prepared)
        /\ active' = IF active = b THEN None ELSE active
        /\ UNCHANGED <<tail, prep, exec, flags, turn, over, aborted, ran>>

(* The stream of the model call fails before its end.                       *)
StreamFails ==
    /\ ~ Idle
    /\ stream = "open"
    /\ stream' = "failed"
    /\ UNCHANGED <<batch, tables, prep, exec, flags, turn, over, aborted, ran>>

(* The turn is cancelled: its signal is aborted, and what waits for the     *)
(* user is answered with a refusal (PrepareEnds).                           *)
Abort ==
    /\ ~ Idle
    /\ turn \notin aborted
    /\ aborted' = aborted \cup {turn}
    /\ UNCHANGED <<batch, tables, prep, exec, flags, turn, stream, over, ran>>

\* (bug) the end of a turn leaves the batches as they are
AtFinish_kept(r) == r

AtFinish(r) == Cancelled(r)

(* `finishTurn`, at the end of a turn that ran to its end, failed or was    *)
(* cancelled; calls may still be on their way.                              *)
FinishTurn ==
    /\ ~ Idle
    /\ StepOver \/ stream = "failed" \/ turn \in aborted
    /\ batch' = [b \in Batch |-> IF b \in mapped THEN AtFinish(batch[b]) ELSE batch[b]]
    /\ mapped' = {} /\ active' = None /\ tail' = None
    /\ byCall' = [i \in Id |-> None]
    /\ prepared' = [i \in Id |-> None]
    /\ over' = over \cup {turn}
    /\ stream' = "ended"
    /\ UNCHANGED <<prep, exec, flags, turn, aborted, ran>>
-----------------------------------------------------------------------------
(* `prepare`.                                                               *)

\* (bug) a call that comes after the seal is prepared outside its batch
PrepareBatch_active(id) == active

PrepareBatch(id) == BatchOf(id)

(* The stream hands a call over: it joins its batch, and the chain of the   *)
(* preparations.                                                            *)
Prepare(c) ==
    LET id == c[1]
        b == PrepareBatch(id)
    IN  /\ ~ Idle /\ turn \notin aborted
        /\ Latest(c[2]) /\ batch[c[2]].turn = turn
        /\ stream = "open" \/ (stream = "ended" /\ id \in batch[c[2]].known)
        /\ prep[c].at = "none"
        /\ batch' = IF b = None THEN batch ELSE [batch EXCEPT ![b].ids = @ \cup {id}]
        /\ byCall' = IF b = None THEN byCall ELSE [byCall EXCEPT ![id] = b]
        /\ prep' = [prep EXCEPT ![c] = [NoPrep EXCEPT !.at = "queued", !.batch = b, !.prev = tail]]
        /\ tail' = c
        /\ UNCHANGED <<mapped, active, prepared, exec, flags, turns, ran>>

\* The preparation that c follows is over.
InTurn(c) == prep[c].prev # None => prep[prep[c].prev].at = "over"

\* (bug) a late preparation is kept, whatever became of its batch
IsKept_always(r) == TRUE

\* Whether the decision about a call of the batch r goes to the table.
IsKept(r) == ~ r.cancelled

(* The end of a preparation with an outcome: "ok", "blocked" (not to be     *)
(* run, for a reason of its own) or "rejected" (by the user).               *)
PrepareOver(c, outcome) ==
    LET id == c[1]
        b == prep[c].batch
        entry == [call |-> c, batch |-> b, blocked |-> outcome # "ok"]
    IN  /\ prep' = [prep EXCEPT ![c].at = "over", ![c].outcome = outcome]
        /\ IF b = None
           THEN /\ prepared' = [prepared EXCEPT ![id] = entry]
                /\ UNCHANGED <<batch, mapped, byCall>>
           ELSE LET r == [batch[b] EXCEPT !.rejected = @ \/ outcome = "rejected",
                                          !.prepared = @ \cup {id}]
                    entries == IF IsKept(batch[b]) THEN [prepared EXCEPT ![id] = entry]
                               ELSE prepared
                IN  Become(b, Released(r), mapped, byCall, entries)
        /\ UNCHANGED <<active, tail, exec, flags, turns, ran>>

\* Calls of the batch r are refused without being looked at.
Refused(r) == r.cancelled \/ r.rejected

(* Its turn has come: a call of a batch that is cancelled, or in which the  *)
(* user rejected a call, is blocked; another is checked.                    *)
PrepareBegins(c) ==
    /\ prep[c].at = "queued"
    /\ InTurn(c)
    /\ IF prep[c].batch # None /\ Refused(batch[prep[c].batch])
       THEN PrepareOver(c, "blocked")
       ELSE /\ prep' = [prep EXCEPT ![c].at = "checking"]
            /\ UNCHANGED <<batch, tables, exec, flags, turns, ran>>

(* The check ends: the call passed the policy and the user approved it if   *)
(* need be, it is denied or malformed, or the user rejected it.  Cancelling *)
(* a turn answers the questions that wait for the user with a refusal.      *)
PrepareEnds(c, outcome) ==
    /\ prep[c].at = "checking"
    /\ PrepareOver(c, outcome)
-----------------------------------------------------------------------------
(* `execute`.                                                               *)

Move(c, at) == exec' = [exec EXCEPT ![c].at = at]

(* The stream executes a call whose preparation has returned.               *)
Execute(c) ==
    LET id == c[1]
        b == BatchOf(id)
    IN  /\ ~ Idle
        /\ TurnOf(c) = turn
        /\ prep[c].at = "over"
        /\ exec[c].at = "none"
        /\ b # None
        /\ batch' = [batch EXCEPT ![b].ids = @ \cup {id}]
        /\ byCall' = [byCall EXCEPT ![id] = b]
        /\ exec' = [exec EXCEPT ![c] = [NoExec EXCEPT !.at = "admission", !.batch = b]]
        /\ UNCHANGED <<mapped, active, prepared, tail, prep, flags, turns, ran>>

(* The `finally` of execute: the decision is used up, the call completes    *)
(* its batch.                                                               *)
Return(c) ==
    LET id == c[1]
        entry == exec[c].entry
        own == IF entry # None /\ entry.batch # None THEN entry.batch ELSE exec[c].batch
        mine == \/ entry # None /\ prepared[id] = entry
                \/ entry = None /\ prepared[id] # None /\ prepared[id].batch = own
        entries == IF mine THEN [prepared EXCEPT ![id] = None] ELSE prepared
    IN  /\ Move(c, "done")
        /\ Become(own, [batch[own] EXCEPT !.completed = @ \cup {id}], mapped, byCall, entries)
        /\ UNCHANGED <<active, tail, prep, flags, turns, ran>>

\* (bug) a call that is not allowed runs
MayRun_blocked(entry) == entry # None /\ ~ batch[entry.batch].rejected

\* (bug) a batch with a rejected call is admitted
MayRun_rejected(entry) == entry # None /\ ~ entry.blocked

\* The decision lets the call run.
MayRun(entry) ==
    /\ entry # None
    /\ ~ entry.blocked
    /\ entry.batch = None \/ ~ batch[entry.batch].rejected

(* The batch is admitted: the call goes to the locks, if it may run.        *)
Admitted(c) ==
    LET b == exec[c].batch
        entry == prepared[c[1]]
    IN  /\ exec[c].at = "admission"
        /\ batch[b].released
        /\ IF ~ batch[b].cancelled /\ MayRun(entry) /\ TurnOf(c) \notin aborted
           THEN /\ exec' = [exec EXCEPT ![c].at = "locks", ![c].entry = entry]
                /\ UNCHANGED <<batch, tables, prep, flags, turns, ran>>
           ELSE Return(c)

(* The signal ends the wait for admission or for the locks.                 *)
WaitAborted(c) ==
    /\ exec[c].at \in {"admission", "locks"}
    /\ TurnOf(c) \in aborted
    /\ Return(c)

(* The locks are held; what was captured at admission is checked again.     *)
Locked(c) ==
    /\ exec[c].at = "locks"
    /\ TurnOf(c) \notin aborted
    /\ Move(c, "revalidating")
    /\ UNCHANGED <<batch, tables, prep, flags, turns, ran>>

\* (bug) the flag is looked up in the tables when the operation starts
FlagOf_current(c) ==
    <<c[1], IF BatchOf(c[1]) # None THEN BatchOf(c[1]) ELSE exec[c].batch>>

\* The occurrence whose flag is set: that of the batch of the decision.
FlagOf(c) ==
    <<c[1], IF exec[c].entry.batch # None THEN exec[c].entry.batch ELSE exec[c].batch>>

(* It still holds: the operation starts.                                    *)
Starts(c) ==
    /\ exec[c].at = "revalidating"
    /\ Move(c, "running")
    /\ flags' = flags \cup {FlagOf(c)}
    /\ ran' = ran \cup {c}
    /\ UNCHANGED <<batch, tables, prep, turns>>

(* What was captured has changed; or the operation ended.                   *)
Ends(c) ==
    /\ exec[c].at \in {"revalidating", "running"}
    /\ Return(c)
-----------------------------------------------------------------------------
Outcome == {"ok", "blocked", "rejected"}

PrepareStep(c) == PrepareBegins(c) \/ \E outcome \in Outcome : PrepareEnds(c, outcome)

ExecStep(c) == Execute(c) \/ Admitted(c) \/ WaitAborted(c) \/ Locked(c) \/ Starts(c) \/ Ends(c)

Seal == \E b \in Batch : \E calls \in SUBSET IdsOf(b) : SealBatch(b, calls)

AllOver == turn = MaxTurn /\ Idle /\ \A c \in Call : exec[c].at \in {"none", "done"}
                                              /\ prep[c].at \in {"none", "over"}

Next ==
    \/ StartTurn
    \/ \E b \in Batch : StartBatch(b)
    \/ Seal
    \/ StreamFails
    \/ Abort
    \/ FinishTurn
    \/ \E c \in Call : Prepare(c) \/ PrepareStep(c) \/ ExecStep(c)
    \/ AllOver /\ UNCHANGED vars

Spec == Init /\ [][Next]_vars

(* A model call ends or fails, a failed or cancelled turn is finished, the  *)
(* user answers or the turn is cancelled, and the steps of a call run.      *)
FairSpec ==
    /\ Spec
    /\ WF_vars(Seal \/ StreamFails)
    /\ WF_vars(FinishTurn)
    /\ \A c \in Call : WF_vars(Prepare(c)) /\ WF_vars(PrepareStep(c)) /\ WF_vars(ExecStep(c))
-----------------------------------------------------------------------------
(* Properties.                                                              *)

BatchType == [turn : 0 .. MaxTurn, ids : SUBSET Id, prepared : SUBSET Id, completed : SUBSET Id,
              known : SUBSET Id, rejected : BOOLEAN, cancelled : BOOLEAN, sealed : BOOLEAN,
              released : BOOLEAN]

\* The type of the state; every call is prepared in a batch.
TypeOK ==
    /\ batch \in [Batch -> BatchType]
    /\ mapped \subseteq Batch
    /\ byCall \in [Id -> Batch \cup {None}]
    /\ active \in Batch \cup {None}
    /\ prepared \in [Id -> Entry \cup {None}]
    /\ tail \in Call \cup {None}
    /\ \A c \in Call :
          /\ prep[c].at \in {"none", "queued", "checking", "over"}
          /\ exec[c].at \in {"none", "admission", "locks", "revalidating", "running", "done"}
    /\ flags \subseteq Id \X Batch
    /\ ran \subseteq Call

\* When the user rejected a call, no call of the same model call runs: the
\* others were not started before, and are not started after.
RejectionStopsBatch ==
    \A c, d \in Call : c[2] = d[2] /\ prep[d].outcome = "rejected" => c \notin ran

\* A call runs on the decision about itself, not on one about an earlier call
\* with its id, and only if that decision lets it.
OwnDecision == \A c \in ran : exec[c].entry.call = c /\ prep[c].outcome = "ok"

\* No call runs before the preparation of every call of its batch is over.
WholeBatchFirst ==
    \A c \in ran : \A i \in batch[c[2]].known : prep[<<i, c[2]>>].at = "over"

\* The flag of a call, which the recovery of a turn looks at to know what may
\* have had effects, is set when the operation was started, and only then: no
\* call is taken for an earlier one with its id.
StartedIsTold == flags = ran

\* A finished turn has nothing in the tables, and what is late does not come
\* back to them.
TablesForget ==
    /\ \A i \in Id : byCall[i] # None => batch[byCall[i]].turn \notin over
    /\ \A i \in Id : prepared[i] # None => TurnOf(prepared[i].call) \notin over

\* The tables are what the turn that runs made of them.
TablesExact == TypeOK /\ TablesForget

\* A call that the stream executes is answered: no batch keeps its calls
\* waiting for an admission that does not come.
EveryCallAnswered == \A c \in Call : exec[c].at = "admission" ~> exec[c].at = "done"
=============================================================================
