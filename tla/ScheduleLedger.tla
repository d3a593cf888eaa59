--------------------------- MODULE ScheduleLedger ---------------------------
(***************************************************************************)
(* The scheduler's ledger: packages/runtime/src/scheduler/schedule-store.ts.*)
(* A SQLite file shared by the daemon, the executors it spawns and every    *)
(* CLI command.  Each operation of ScheduleStore is one BEGIN IMMEDIATE     *)
(* transaction or one UPDATE, hence one action; claimDue, which walks the   *)
(* ledger row by row, is the write transaction `claim`, and no other action *)
(* is enabled while it is open.                                             *)
(*                                                                          *)
(* The clients are unconstrained here: any caller may try any operation     *)
(* with any token or attempt it could hold.  A call whose guard fails writes *)
(* nothing and is a stuttering step.  What the ledger learns from outside   *)
(* (the clock, the probe of an executor, the probe of a process tree) is a  *)
(* parameter of the action that asks.                                       *)
(*                                                                          *)
(* A definition marked (bug), named X_..., is X with a plausible mistake;   *)
(* the runs use it to show that a property would notice that mistake.       *)
(***************************************************************************)
EXTENDS Integers, FiniteSets

CONSTANTS
    Schedule,      \* ids of schedules
    Invocation,    \* ids of invocations; an id is used once (randomUUID)
    Worker,        \* worker ids: the daemons and the inline runs
    Executor,      \* identities (pid, start token) of executor processes
    Slot,          \* trigger instants: values of next_run_at
    Request,       \* request ids of extendSchedule
    RetryBudget,   \* attempts an invocation may make
    ProbesPerClaim,\* executors one claimDue may probe
    MaxLimit,      \* bound: the largest limit a claimDue is called with
    MaxRoundsCap,  \* bound: the largest max_rounds of a finite schedule
    None           \* SQL NULL, where the column is not a number

ASSUME LedgerAssumption ==
    /\ RetryBudget \in Nat \ {0}
    /\ ProbesPerClaim \in Nat
    /\ MaxLimit \in Nat
    /\ MaxRoundsCap \in Nat
    /\ None \notin Worker \cup Executor \cup Slot \cup Schedule

VARIABLES
    schedules,     \* table schedules
    invocations,   \* table invocations
    extensions,    \* table schedule_extensions
    claim,         \* the claimDue transaction, while it holds the write lock
    issued         \* ownership tokens handed out so far: tokens 1 .. issued

vars == <<schedules, invocations, extensions, claim, issued>>

-----------------------------------------------------------------------------
(* Rows                                                                     *)

NoToken   == 0     \* ownership_token IS NULL
Unlimited == 0     \* max_rounds IS NULL

ActiveStatuses   == {"claimed", "running"}
LiveStatuses     == ActiveStatuses \cup {"pending", "retry"}
ResultStatuses   == {"completed", "needs_confirmation"}
TerminalStatuses == ResultStatuses \cup {"failed"}
NoRow            == {"unused", "deleted"}

ScheduleStatuses == {"active", "paused", "completed"}

ScheduleRow ==
    [status : ScheduleStatuses \cup NoRow,
     maxRounds : Nat,               \* Unlimited, or the quota
     roundsStarted : Nat,
     nextRunAt : Slot \cup {None},
     due : BOOLEAN]                 \* next_run_at <= now

InvocationRow ==
    [status : LiveStatuses \cup TerminalStatuses \cup NoRow,
     scheduleId : Schedule \cup {None},
     mode : {"scheduled", "manual"},
     scheduledFor : Slot \cup {None},   \* a manual run takes a free instant
     attempt : Nat,
     maxAttempts : Nat,
     ownershipToken : Nat,
     claimedBy : Worker \cup {None},
     leaseUntil : {"null", "future", "past"},
     retryAt : {"null", "future", "past"},
     executor : Executor \cup {None},
     treeUnsettled : BOOLEAN]       \* tree_unsettled = 1 or tracked groups

UnusedSchedule ==
    [status |-> "unused", maxRounds |-> Unlimited, roundsStarted |-> 0,
     nextRunAt |-> None, due |-> FALSE]

UnusedInvocation ==
    [status |-> "unused", scheduleId |-> None, mode |-> "manual",
     scheduledFor |-> None, attempt |-> 0, maxAttempts |-> 0,
     ownershipToken |-> NoToken, claimedBy |-> None, leaseUntil |-> "null",
     retryAt |-> "null", executor |-> None, treeUnsettled |-> FALSE]

ExtensionRow ==
    [scheduleId : Schedule, expectedMaxRounds : Nat, additionalRounds : Nat]

\* A row that was deleted keeps, for the accounting below, whose run it was.
DeletedInvocation(row) ==
    [UnusedInvocation EXCEPT !.status = "deleted", !.mode = row.mode,
                             !.scheduleId = row.scheduleId]

NoExtension ==
    [scheduleId |-> None, expectedMaxRounds |-> 0, additionalRounds |-> 0]

NoClaim == [open |-> FALSE, worker |-> None, left |-> 0, todo |-> {}]

Claim ==
    {NoClaim} \cup
    [open : {TRUE}, worker : Worker, left : Nat, todo : SUBSET Invocation]

Present(s)   == schedules[s].status \in ScheduleStatuses
Exists(i)    == invocations[i].status \notin NoRow
Active(i)    == invocations[i].status \in ActiveStatuses
Live(i)      == invocations[i].status \in LiveStatuses
Terminal(i)  == invocations[i].status \in TerminalStatuses
RunsOf(s)    == {i \in Invocation : invocations[i].scheduleId = s}
UnusedIds    == {i \in Invocation : invocations[i].status = "unused"}

\* OCCUPYING_RUN_SQL: an active run, or a retry whose process tree is not
\* known to be gone.
Occupying(i) ==
    \/ Active(i)
    \/ invocations[i].status = "retry" /\ invocations[i].treeUnsettled

\* (bug) forgets the runs that are claimed and not begun yet
HasOtherLiveRun_begunOnly(s, i) ==
    \E j \in RunsOf(s) \ {i} : invocations[j].status = "running"

HasOtherLiveRun(s, i) == \E j \in RunsOf(s) \ {i} : Occupying(j)

\* treeBlocksTerminal: recorded evidence that the probe of the tree does not
\* clear.  `settled` is the answer of that probe.
TreeBlocks(row, settled) == row.treeUnsettled /\ ~settled

-----------------------------------------------------------------------------
(* Writes that several operations share                                     *)

Exhausted(sch) ==
    sch.maxRounds # Unlimited /\ sch.roundsStarted >= sch.maxRounds

\* A scheduled run that keeps an exhausted schedule from being completed.
Unsettled(row, s) ==
    /\ row.scheduleId = s
    /\ row.mode = "scheduled"
    /\ row.status \in LiveStatuses \/ row.treeUnsettled

\* (bug) completes a schedule and never takes that back
Reconciled_oneWay(sch, s, invs) ==
    IF ~Exhausted(sch) THEN sch
    ELSE [sch EXCEPT
            !.status = IF ~\E i \in Invocation : Unsettled(invs[i], s)
                       THEN "completed" ELSE @,
            !.nextRunAt = None,
            !.due = FALSE]

\* reconcileRoundsInTransaction: row `sch` of schedule s after it, given the
\* invocations as the transaction leaves them.
Reconciled(sch, s, invs) ==
    IF ~Exhausted(sch) THEN sch
    ELSE [sch EXCEPT
            !.status = IF ~\E i \in Invocation : Unsettled(invs[i], s)
                       THEN "completed"
                       ELSE IF @ = "completed" THEN "active" ELSE @,
            !.nextRunAt = None,
            !.due = FALSE]

\* The schedules table after the runs in `ended` were written to `invs` and
\* the schedules of the scheduled ones among them reconciled.
ReconciledAfter(ended, invs) ==
    [s \in Schedule |->
        IF \E i \in ended : /\ invs[i].scheduleId = s
                            /\ invs[i].mode = "scheduled"
        THEN Reconciled(schedules[s], s, invs)
        ELSE schedules[s]]

\* (bug) the lease of the last attempt stays behind
Cleared_keepsLease(row, status) ==
    [row EXCEPT !.status = status, !.ownershipToken = NoToken,
                !.claimedBy = None, !.retryAt = "null",
                !.treeUnsettled = FALSE]

\* The columns every terminal write clears.
Cleared(row, status) ==
    [row EXCEPT !.status = status, !.ownershipToken = NoToken,
                !.claimedBy = None, !.leaseUntil = "null",
                !.retryAt = "null", !.treeUnsettled = FALSE]

FinishedRows(D) ==
    [i \in Invocation |->
        IF i \in D THEN Cleared(invocations[i], "failed") ELSE invocations[i]]

\* finishInvocationAsFailedInTransaction
FinishAsFailed(i) ==
    /\ invocations' = FinishedRows({i})
    /\ schedules' = ReconciledAfter({i}, FinishedRows({i}))

\* (bug) the runs that wait behind the failed one fail with it
MarkTerminalFailure_dropsQueue(i) ==
    LET s  == invocations[i].scheduleId
        D  == {j \in RunsOf(s) : j = i \/ invocations[j].status = "pending"}
        ss == ReconciledAfter(D, FinishedRows(D))
    IN  /\ invocations' = FinishedRows(D)
        /\ schedules' = [ss EXCEPT ![s].status =
                            IF @ = "completed" THEN @ ELSE "paused"]

\* markTerminalFailureInTransaction: a scheduled run that failed for good also
\* pauses its schedule, unless that failure completed it.
MarkTerminalFailure(i) ==
    LET s  == invocations[i].scheduleId
        ss == ReconciledAfter({i}, FinishedRows({i}))
    IN  /\ invocations' = FinishedRows({i})
        /\ schedules' =
             IF invocations[i].mode = "scheduled"
             THEN [ss EXCEPT ![s].status =
                               IF @ = "completed" THEN @ ELSE "paused"]
             ELSE ss

\* The row after a worker claims it: a fresh token and a fresh lease.
ClaimedBy(row, w, attempt) ==
    [row EXCEPT !.status = "claimed", !.claimedBy = w,
                !.ownershipToken = issued + 1, !.leaseUntil = "future",
                !.attempt = attempt, !.retryAt = "null"]

\* deferLiveRowInTransaction
Deferred(row) ==
    IF row.status = "retry" THEN [row EXCEPT !.retryAt = "future"]
                            ELSE [row EXCEPT !.leaseUntil = "future"]

\* (bug) one attempt more than the budget
Spent_late(row) == row.attempt > row.maxAttempts

\* No attempt is left to a run whose present one fails.
Spent(row) == row.attempt >= row.maxAttempts

Idle == ~claim.open

-----------------------------------------------------------------------------
(* Schedules                                                                *)

Init ==
    /\ schedules = [s \in Schedule |-> UnusedSchedule]
    /\ invocations = [i \in Invocation |-> UnusedInvocation]
    /\ extensions = [r \in Request |-> NoExtension]
    /\ claim = NoClaim
    /\ issued = 0

createSchedule(s, maxRounds, next, fireImmediately) ==
    /\ Idle
    /\ schedules[s].status = "unused"
    /\ schedules' = [schedules EXCEPT ![s] =
          [status |-> "active", maxRounds |-> maxRounds, roundsStarted |-> 0,
           nextRunAt |-> next, due |-> fireImmediately]]
    /\ UNCHANGED <<invocations, extensions, claim, issued>>

resumeSchedule(s) ==
    /\ Idle
    /\ schedules[s].status \in {"active", "paused"}
    /\ schedules' = [schedules EXCEPT ![s] =
          Reconciled([@ EXCEPT !.status = "active"], s, invocations)]
    /\ UNCHANGED <<invocations, extensions, claim, issued>>

\* setScheduleStatus(id, paused).  `settled`: the retries whose tree the probe
\* finds gone.  (setScheduleStatus(id, active) writes what resumeSchedule does.)
pauseSchedule(s, settled) ==
    /\ Idle
    /\ schedules[s].status \in {"active", "paused"}
    /\ LET retrying == {i \in RunsOf(s) :
                          /\ invocations[i].mode = "scheduled"
                          /\ invocations[i].status = "retry"
                          /\ ~TreeBlocks(invocations[i], i \in settled)}
           invs     == FinishedRows(retrying)
       IN  /\ invocations' = invs
           /\ schedules' = [schedules EXCEPT ![s] =
                 Reconciled([@ EXCEPT !.status = "paused"], s, invs)]
    /\ UNCHANGED <<extensions, claim, issued>>

\* (bug) extends a schedule that is still counting its rounds
Extendable_early(s, expected) ==
    /\ schedules[s].maxRounds = expected
    /\ ~\E i \in RunsOf(s) : Live(i) \/ invocations[i].treeUnsettled

\* (bug) the quota the caller read is not compared with the one that is there
Extendable_unread(s, expected) ==
    /\ schedules[s].status = "completed"
    /\ schedules[s].roundsStarted = schedules[s].maxRounds
    /\ ~\E i \in RunsOf(s) : Live(i) \/ invocations[i].treeUnsettled

\* extendSchedule: a finite schedule that is completed, at the quota the caller
\* last read, with no run left of any kind.
Extendable(s, expected) ==
    /\ schedules[s].status = "completed"
    /\ schedules[s].maxRounds = expected
    /\ schedules[s].roundsStarted = schedules[s].maxRounds
    /\ ~\E i \in RunsOf(s) : Live(i) \/ invocations[i].treeUnsettled

\* extendSchedule; `expected` is the max_rounds the caller last read.  A request
\* already in the table is a replay and changes nothing.
extendSchedule(r, s, expected, additional, next) ==
    /\ Idle
    /\ extensions[r] = NoExtension
    /\ Extendable(s, expected)
    /\ ~\E q \in Request : /\ extensions[q].scheduleId = s
                           /\ extensions[q].expectedMaxRounds = expected
    /\ expected + additional <= MaxRoundsCap
    /\ extensions' = [extensions EXCEPT ![r] =
          [scheduleId |-> s, expectedMaxRounds |-> expected,
           additionalRounds |-> additional]]
    /\ schedules' = [schedules EXCEPT ![s] =
          [@ EXCEPT !.maxRounds = expected + additional, !.status = "active",
                    !.nextRunAt = next, !.due = FALSE]]
    /\ UNCHANGED <<invocations, claim, issued>>

\* (bug) the references do not cascade
removeSchedule_noCascade(s, abandon) ==
    /\ Idle
    /\ Present(s)
    /\ abandon \/ ~\E i \in RunsOf(s) : Occupying(i)
    /\ schedules' = [schedules EXCEPT ![s] =
          [UnusedSchedule EXCEPT !.status = "deleted"]]
    /\ UNCHANGED <<invocations, extensions, claim, issued>>

\* removeSchedule; the invocations and the extensions go with it
\* (ON DELETE CASCADE).
removeSchedule(s, abandon) ==
    /\ Idle
    /\ Present(s)
    /\ abandon \/ ~\E i \in RunsOf(s) : Occupying(i)
    /\ schedules' = [schedules EXCEPT ![s] =
          [UnusedSchedule EXCEPT !.status = "deleted"]]
    /\ invocations' = [i \in Invocation |->
          IF i \in RunsOf(s) THEN DeletedInvocation(invocations[i])
                             ELSE invocations[i]]
    /\ extensions' = [r \in Request |->
          IF extensions[r].scheduleId = s THEN NoExtension ELSE extensions[r]]
    /\ UNCHANGED <<claim, issued>>

-----------------------------------------------------------------------------
(* Manual runs                                                              *)

enqueueManualInvocation(s, i, maxAttempts) ==
    /\ Idle
    /\ Present(s)
    /\ i \in UnusedIds
    /\ invocations' = [invocations EXCEPT ![i] =
          [UnusedInvocation EXCEPT !.status = "pending", !.scheduleId = s,
                                   !.maxAttempts = maxAttempts]]
    /\ UNCHANGED <<schedules, extensions, claim, issued>>

claimPendingInvocation(i, w) ==
    /\ Idle
    /\ invocations[i].status = "pending"
    /\ ~HasOtherLiveRun(invocations[i].scheduleId, i)
    /\ invocations' = [invocations EXCEPT ![i] = ClaimedBy(@, w, 1)]
    /\ issued' = issued + 1
    /\ UNCHANGED <<schedules, extensions, claim>>

discardPendingInvocation(i) ==
    /\ Idle
    /\ invocations[i].status = "pending"
    /\ invocations' = [invocations EXCEPT ![i] = DeletedInvocation(@)]
    /\ UNCHANGED <<schedules, extensions, claim, issued>>

-----------------------------------------------------------------------------
(* claimDue                                                                 *)

\* The rows claimDue looks at; "past" is what `<= nowMs` selects.
LiveRows ==
    {i \in Invocation :
        \/ invocations[i].status = "pending"
        \/ invocations[i].status = "retry" /\ invocations[i].retryAt = "past"
        \/ Active(i) /\ invocations[i].leaseUntil = "past"}

ProbeCandidates(held) ==
    {i \in LiveRows \ held : /\ invocations[i].status = "running"
                             /\ invocations[i].executor # None}

\* The first pass.  `held` are the runs the worker still holds itself,
\* `probed` the executors it probes (none when the limit is 0) and `alive`
\* those of them it does not find dead.
beginClaimDue(w, limit, held, probed, alive) ==
    LET candidates == ProbeCandidates(held)
        renewed    == {i \in LiveRows : Active(i) /\ i \in held \cup alive}
        deferred   == candidates \ probed
        budget     == IF limit = 0 THEN 0 ELSE ProbesPerClaim
    IN  /\ Idle
        /\ probed \subseteq candidates
        /\ alive \subseteq probed
        /\ IF Cardinality(candidates) <= budget
           THEN probed = candidates
           ELSE Cardinality(probed) = budget
        /\ invocations' = [i \in Invocation |->
              IF i \in renewed \cup deferred
              THEN [invocations[i] EXCEPT !.leaseUntil = "future"]
              ELSE invocations[i]]
        /\ claim' = IF limit = 0 THEN claim
                    ELSE [open |-> TRUE, worker |-> w, left |-> limit,
                          todo |-> LiveRows \ (renewed \cup deferred)]
        /\ UNCHANGED <<schedules, extensions, issued>>

\* The second pass, for one row of it.
InClaim(i) == claim.open /\ claim.left > 0 /\ i \in claim.todo

RowDone(i) == claim' = [claim EXCEPT !.todo = @ \ {i}]

ScheduleOf(i) == schedules[invocations[i].scheduleId]

\* (bug) looks for the pause only when the run waits for a retry
AbandonedByPause_retryOnly(i) ==
    /\ invocations[i].mode = "scheduled"
    /\ invocations[i].status = "retry"
    /\ ScheduleOf(i).status = "paused"

AbandonedByPause(i) ==
    invocations[i].mode = "scheduled" /\ ScheduleOf(i).status = "paused"

\* (bug) a reclaimed run repeats its attempt
NextAttempt_same(i) ==
    IF invocations[i].status = "pending" THEN 1 ELSE invocations[i].attempt

NextAttempt(i) ==
    IF invocations[i].status = "pending" THEN 1 ELSE invocations[i].attempt + 1

claimDueAbandon(i, settled) ==
    /\ InClaim(i)
    /\ AbandonedByPause(i)
    /\ IF TreeBlocks(invocations[i], settled)
       THEN /\ invocations' = [invocations EXCEPT ![i] = Deferred(@)]
            /\ UNCHANGED schedules
       ELSE FinishAsFailed(i)
    /\ RowDone(i)
    /\ UNCHANGED <<extensions, issued>>

claimDueSkip(i) ==
    /\ InClaim(i)
    /\ ~AbandonedByPause(i)
    /\ HasOtherLiveRun(invocations[i].scheduleId, i)
    /\ RowDone(i)
    /\ UNCHANGED <<schedules, invocations, extensions, issued>>

claimDueExhaust(i, settled) ==
    /\ InClaim(i)
    /\ ~AbandonedByPause(i)
    /\ ~HasOtherLiveRun(invocations[i].scheduleId, i)
    /\ NextAttempt(i) > invocations[i].maxAttempts
    /\ IF TreeBlocks(invocations[i], settled)
       THEN /\ invocations' = [invocations EXCEPT ![i] = Deferred(@)]
            /\ UNCHANGED schedules
       ELSE MarkTerminalFailure(i)
    /\ RowDone(i)
    /\ UNCHANGED <<extensions, issued>>

claimDueReclaim(i) ==
    /\ InClaim(i)
    /\ ~AbandonedByPause(i)
    /\ ~HasOtherLiveRun(invocations[i].scheduleId, i)
    /\ NextAttempt(i) <= invocations[i].maxAttempts
    /\ invocations' = [invocations EXCEPT ![i] =
                          ClaimedBy(@, claim.worker, NextAttempt(i))]
    /\ claim' = [claim EXCEPT !.todo = @ \ {i}, !.left = @ - 1]
    /\ issued' = issued + 1
    /\ UNCHANGED <<schedules, extensions>>

\* The third pass: the schedules that are due.
DueNow(s) ==
    /\ schedules[s].status = "active"
    /\ schedules[s].due
    /\ ~Exhausted(schedules[s])
    /\ ~\E i \in RunsOf(s) : Live(i)
    /\ UnusedIds # {}             \* bound: the pool of ids

\* UNIQUE (schedule_id, mode, scheduled_for) rejects the insert.
SlotTaken(s) ==
    \E i \in RunsOf(s) : /\ Exists(i)
                         /\ invocations[i].mode = "scheduled"
                         /\ invocations[i].scheduledFor = schedules[s].nextRunAt

\* (bug) counts the round whose insert was ignored
Advanced_countsIgnored(sch, started, next) ==
    LET n    == sch.roundsStarted + 1
        last == sch.maxRounds # Unlimited /\ n >= sch.maxRounds
    IN  [sch EXCEPT !.roundsStarted = n,
                    !.nextRunAt = IF last THEN None ELSE next,
                    !.due = FALSE]

\* (bug) compares the quota with the rounds before this one
Advanced_lateStop(sch, started, next) ==
    LET last == sch.maxRounds # Unlimited /\ sch.roundsStarted >= sch.maxRounds
    IN  [sch EXCEPT !.roundsStarted = @ + started,
                    !.nextRunAt = IF last THEN None ELSE next,
                    !.due = FALSE]

\* The schedule after `started` rounds of it were inserted (0 or 1); `next` is
\* the instant its trigger computes.
Advanced(sch, started, next) ==
    LET n    == sch.roundsStarted + started
        last == sch.maxRounds # Unlimited /\ n >= sch.maxRounds
    IN  [sch EXCEPT !.roundsStarted = n,
                    !.nextRunAt = IF last THEN None ELSE next,
                    !.due = FALSE]

claimDueSchedule(s, i, next) ==
    /\ claim.open /\ claim.left > 0 /\ claim.todo = {}
    /\ DueNow(s)
    /\ i \in UnusedIds
    /\ IF SlotTaken(s)
       THEN /\ schedules' = [schedules EXCEPT ![s] = Advanced(@, 0, next)]
            /\ UNCHANGED <<invocations, claim, issued>>
       ELSE /\ schedules' = [schedules EXCEPT ![s] = Advanced(@, 1, next)]
            /\ invocations' = [invocations EXCEPT ![i] =
                  ClaimedBy([UnusedInvocation EXCEPT
                               !.scheduleId = s, !.mode = "scheduled",
                               !.scheduledFor = schedules[s].nextRunAt,
                               !.maxAttempts = RetryBudget],
                            claim.worker, 1)]
            /\ claim' = [claim EXCEPT !.left = @ - 1]
            /\ issued' = issued + 1
    /\ UNCHANGED extensions

commitClaimDue ==
    /\ claim.open
    /\ \/ claim.left = 0
       \/ claim.todo = {} /\ \A s \in Schedule : ~DueNow(s)
    /\ claim' = NoClaim
    /\ UNCHANGED <<schedules, invocations, extensions, issued>>

-----------------------------------------------------------------------------
(* The executor's and the daemon's writes                                   *)

HoldsToken(i, t) == Active(i) /\ invocations[i].ownershipToken = t

beginInvocation(i, t, executor) ==
    /\ Idle
    /\ invocations[i].status = "claimed"
    /\ invocations[i].ownershipToken = t
    /\ invocations' = [invocations EXCEPT ![i] =
          [@ EXCEPT !.status = "running", !.leaseUntil = "future",
                    !.executor = executor]]
    /\ UNCHANGED <<schedules, extensions, claim, issued>>

renewLease(i, t) ==
    /\ Idle
    /\ HoldsToken(i, t)
    /\ invocations' = [invocations EXCEPT ![i].leaseUntil = "future"]
    /\ UNCHANGED <<schedules, extensions, claim, issued>>

\* recordInvocationTree, by the holder of the token
recordInvocationTree(i, t, unsettled) ==
    /\ Idle
    /\ HoldsToken(i, t)
    /\ invocations' = [invocations EXCEPT ![i].treeUnsettled = unsettled]
    /\ UNCHANGED <<schedules, extensions, claim, issued>>

completeInvocation(i, t, result, settled) ==
    /\ Idle
    /\ HoldsToken(i, t)
    /\ ~TreeBlocks(invocations[i], settled)
    /\ LET invs == [invocations EXCEPT ![i] = Cleared(@, result)]
       IN  /\ invocations' = invs
           /\ schedules' = ReconciledAfter({i}, invs)
    /\ UNCHANGED <<extensions, claim, issued>>

\* The row of an attempt that failed with attempts left; its tree evidence
\* stays.
Retrying(row) ==
    [row EXCEPT !.status = "retry", !.retryAt = "future", !.claimedBy = None,
                !.ownershipToken = NoToken, !.leaseUntil = "null"]

failInvocation(i, t, terminal, settled) ==
    /\ Idle
    /\ HoldsToken(i, t)
    /\ IF terminal \/ Spent(invocations[i])
       THEN /\ ~TreeBlocks(invocations[i], settled)
            /\ MarkTerminalFailure(i)
       ELSE /\ invocations' = [invocations EXCEPT ![i] = Retrying(@)]
            /\ UNCHANGED schedules
    /\ UNCHANGED <<extensions, claim, issued>>

\* reclassifyTimedOutInvocation: the daemon's run timer fired before the
\* executor wrote the result of attempt `a`.
reclassifyTimedOutInvocation(i, a, settled) ==
    /\ Idle
    /\ invocations[i].attempt = a
    /\ invocations[i].status \in ResultStatuses
    /\ ~TreeBlocks(invocations[i], settled)
    /\ IF Spent(invocations[i])
       THEN MarkTerminalFailure(i)
       ELSE LET invs == [invocations EXCEPT ![i] = Retrying(@)]
            IN  /\ invocations' = invs
                /\ schedules' = ReconciledAfter({i}, invs)
    /\ UNCHANGED <<extensions, claim, issued>>

\* prepareWorkerShutdown: the runs the worker claimed but never began
prepareWorkerShutdown(w, settled) ==
    /\ Idle
    /\ LET given == {i \in Invocation :
                       /\ invocations[i].claimedBy = w
                       /\ invocations[i].status = "claimed"
                       /\ ~TreeBlocks(invocations[i], i \in settled)}
       IN  /\ invocations' = FinishedRows(given)
           /\ schedules' = ReconciledAfter(given, FinishedRows(given))
    /\ UNCHANGED <<extensions, claim, issued>>

-----------------------------------------------------------------------------
(* Cancelling and pruning                                                   *)

\* executorBlocksCancel: a run is given up only when the probe answers that its
\* executor is dead; an executor the row does not name cannot be probed.
ExecutorBlocksCancel(row, abandon, dead) ==
    /\ row.status = "running"
    /\ ~abandon
    /\ row.executor = None \/ ~dead

cancelInvocation(i, abandon, dead, settled) ==
    /\ Idle
    /\ Live(i)
    /\ ~ExecutorBlocksCancel(invocations[i], abandon, dead)
    /\ abandon \/ ~TreeBlocks(invocations[i], settled)
    /\ FinishAsFailed(i)
    /\ UNCHANGED <<extensions, claim, issued>>

\* finalizeCancellation: `a` is the attempt the command read before it killed
\* the executor, `tree` what it found of its process tree ("none": it did not
\* look).  The evidence is written even when it then blocks the cancellation.
WithTreeReport(row, tree) ==
    IF tree # "none" /\ row.status \in ActiveStatuses \cup {"retry"}
    THEN [row EXCEPT !.treeUnsettled = (tree = "unsettled")]
    ELSE row

finalizeCancellation(i, a, abandon, tree, dead, settled) ==
    /\ Idle
    /\ Exists(i)
    /\ invocations[i].attempt = a
    /\ ~ExecutorBlocksCancel(invocations[i], abandon, dead)
    /\ Live(i)
    /\ LET row == WithTreeReport(invocations[i], tree)
       IN  IF ~abandon /\ TreeBlocks(row, settled)
           THEN /\ invocations' = [invocations EXCEPT ![i] = row]
                /\ UNCHANGED schedules
           ELSE FinishAsFailed(i)
    /\ UNCHANGED <<extensions, claim, issued>>

\* The daemon keeps a bounded and recent history: it deletes terminal rows.
pruneInvocations(D) ==
    /\ Idle
    /\ \A i \in D : Terminal(i)
    /\ invocations' = [i \in Invocation |->
          IF i \in D THEN DeletedInvocation(invocations[i])
                     ELSE invocations[i]]
    /\ UNCHANGED <<schedules, extensions, claim, issued>>

-----------------------------------------------------------------------------
(* The clock                                                                *)

leaseExpires(i) ==
    /\ Idle
    /\ invocations[i].leaseUntil = "future"
    /\ invocations' = [invocations EXCEPT ![i].leaseUntil = "past"]
    /\ UNCHANGED <<schedules, extensions, claim, issued>>

retryFallsDue(i) ==
    /\ Idle
    /\ invocations[i].retryAt = "future"
    /\ invocations' = [invocations EXCEPT ![i].retryAt = "past"]
    /\ UNCHANGED <<schedules, extensions, claim, issued>>

nextRunFallsDue(s) ==
    /\ Idle
    /\ Present(s) /\ schedules[s].nextRunAt # None /\ ~schedules[s].due
    /\ schedules' = [schedules EXCEPT ![s].due = TRUE]
    /\ UNCHANGED <<invocations, extensions, claim, issued>>

-----------------------------------------------------------------------------

ScheduleStep ==
    \E s \in Schedule :
        \/ \E m \in 0..MaxRoundsCap, next \in Slot, now \in BOOLEAN :
              createSchedule(s, m, next, now)
        \/ resumeSchedule(s)
        \/ \E settled \in SUBSET RunsOf(s) : pauseSchedule(s, settled)
        \/ \E r \in Request, e \in 1..MaxRoundsCap, n \in 1..MaxRoundsCap,
              next \in Slot : extendSchedule(r, s, e, n, next)
        \/ \E abandon \in BOOLEAN : removeSchedule(s, abandon)

ManualStep ==
    \E i \in Invocation :
        \/ \E s \in Schedule, n \in {1, RetryBudget} :
              enqueueManualInvocation(s, i, n)
        \/ \E w \in Worker : claimPendingInvocation(i, w)
        \/ discardPendingInvocation(i)

ClaimDueStep ==
    \/ \E w \in Worker, limit \in 0..MaxLimit,
          held \in SUBSET {i \in LiveRows : Active(i)} :
          \E probed \in SUBSET ProbeCandidates(held) :
              \E alive \in SUBSET probed :
                  beginClaimDue(w, limit, held, probed, alive)
    \/ \E i \in Invocation :
          \/ \E settled \in BOOLEAN : claimDueAbandon(i, settled)
          \/ claimDueSkip(i)
          \/ \E settled \in BOOLEAN : claimDueExhaust(i, settled)
          \/ claimDueReclaim(i)
          \/ \E s \in Schedule, next \in Slot : claimDueSchedule(s, i, next)
    \/ commitClaimDue

RunStep ==
    \/ \E i \in Invocation, t \in 1..issued :
          \/ \E e \in Executor \cup {None} : beginInvocation(i, t, e)
          \/ renewLease(i, t)
          \/ \E u \in BOOLEAN : recordInvocationTree(i, t, u)
          \/ \E result \in ResultStatuses, settled \in BOOLEAN :
                completeInvocation(i, t, result, settled)
          \/ \E terminal \in BOOLEAN, settled \in BOOLEAN :
                failInvocation(i, t, terminal, settled)
    \/ \E i \in Invocation, a \in 0..RetryBudget, settled \in BOOLEAN :
          reclassifyTimedOutInvocation(i, a, settled)
    \/ \E w \in Worker, settled \in SUBSET Invocation :
          prepareWorkerShutdown(w, settled)

CancelStep ==
    \/ \E i \in Invocation, abandon, dead, settled \in BOOLEAN :
          \/ cancelInvocation(i, abandon, dead, settled)
          \/ \E a \in 0..RetryBudget, tree \in {"none", "settled", "unsettled"} :
                finalizeCancellation(i, a, abandon, tree, dead, settled)
    \/ \E D \in SUBSET Invocation : pruneInvocations(D)

ClockStep ==
    \/ \E i \in Invocation : leaseExpires(i) \/ retryFallsDue(i)
    \/ \E s \in Schedule : nextRunFallsDue(s)

Next ==
    \/ ClockStep
    \/ RunStep
    \/ ClaimDueStep
    \/ ManualStep
    \/ CancelStep
    \/ ScheduleStep

Spec == Init /\ [][Next]_vars

-----------------------------------------------------------------------------
(* What the ledger promises                                                 *)

\* Every column holds a value of its kind: the CHECK constraints of the tables
\* and the row types of schedule-store.ts.
TypeOK ==
    /\ schedules \in [Schedule -> ScheduleRow]
    /\ invocations \in [Invocation -> InvocationRow]
    /\ extensions \in [Request -> ExtensionRow \cup {NoExtension}]
    /\ claim \in Claim
    /\ issued \in Nat
    /\ \A i \in Invocation : Exists(i) => invocations[i].scheduleId \in Schedule

\* claimDue decides each row from the SELECT it began with.  That is sound
\* because no step of its own walk changes a row it has still to visit: those
\* are rows the SELECT would still return.
SnapshotFresh == claim.todo \subseteq LiveRows

\* A schedule never has two runs claimed or running, however claims, lease
\* expiries, manual runs, retries and cancellations interleave: the singleton
\* claimDue and claimPendingInvocation enforce.
SingleActiveRun ==
    \A i, j \in Invocation :
        /\ Active(i) /\ Active(j)
        /\ invocations[i].scheduleId = invocations[j].scheduleId
        => i = j

\* The ownership columns agree with the status in every row, and no two rows
\* share a token.  A claimed or running row without a lease, or a retry without
\* a retry_at, would never be selected by claimDue again: a run stuck for good.
OwnershipShape ==
    /\ \A i \in Invocation :
         LET row == invocations[i] IN
         /\ Active(i) <=> row.ownershipToken # NoToken
         /\ Active(i) <=> row.claimedBy # None
         /\ Active(i) <=> row.leaseUntil # "null"
         /\ row.status = "retry" <=> row.retryAt # "null"
         /\ row.treeUnsettled => Active(i) \/ row.status = "retry"
         /\ row.ownershipToken <= issued
    /\ \A i, j \in Invocation :
         Active(i) /\ invocations[i].ownershipToken = invocations[j].ownershipToken
         => i = j

\* No invocation makes more attempts than its budget, whatever mixture of
\* failures, lost leases and revoked results brought it back; only a run nobody
\* claimed yet has made none, and a retry always has an attempt left.
AttemptBudget ==
    \A i \in Invocation : Exists(i) =>
        /\ invocations[i].attempt <= invocations[i].maxAttempts
        /\ Active(i) => invocations[i].attempt > 0
        /\ invocations[i].status = "pending" => invocations[i].attempt = 0
        /\ invocations[i].status = "retry" =>
             invocations[i].attempt < invocations[i].maxAttempts

\* A run or an extension is there only while its schedule is: what is inserted
\* names a schedule that exists, and a removal takes all of them with it.
References ==
    /\ \A i \in Invocation : Exists(i) => Present(invocations[i].scheduleId)
    /\ \A r \in Request :
         extensions[r] # NoExtension => Present(extensions[r].scheduleId)

\* Every row that claimDue, a cancellation or a failure may find is one they
\* can deal with: its columns of their kind, owned or waiting as its status
\* says, with attempts to spend, and of a schedule that is there.
RowsConsistent == TypeOK /\ OwnershipShape /\ AttemptBudget /\ References

\* A finite schedule is completed exactly when its quota is used up and none of
\* its scheduled runs is still live or has processes left: every transaction
\* that can change one side reconciles the other.
SettledExactly ==
    \A s \in Schedule : Present(s) =>
        (schedules[s].status = "completed" <=>
            /\ Exhausted(schedules[s])
            /\ ~\E i \in Invocation : Unsettled(invocations[i], s))

\* A schedule with rounds left always has a next run, and an exhausted one never
\* has: the trigger is neither lost nor does it fire once too often.
TriggerArmed ==
    \A s \in Schedule : Present(s) =>
        (schedules[s].nextRunAt = None <=> Exhausted(schedules[s]))

\* rounds_started counts the scheduled runs that were ever inserted (pruned ones
\* included), each once: a retry, a reclaim or a slot revisited after the clock
\* went back spends no quota.  The quota is never overdrawn.
RoundsAccounting ==
    \A s \in Schedule : Present(s) =>
        /\ schedules[s].roundsStarted =
             Cardinality({i \in RunsOf(s) : invocations[i].mode = "scheduled"})
        /\ schedules[s].maxRounds # Unlimited =>
             schedules[s].roundsStarted <= schedules[s].maxRounds

\* extendSchedule takes effect exactly once per request: every extension starts
\* where an earlier one ended, and the last one ends at max_rounds.  A lost or
\* doubled addition breaks the chain.
ExtendExactlyOnce ==
    \A r \in Request : extensions[r] # NoExtension =>
        LET end(q) == extensions[q].expectedMaxRounds
                        + extensions[q].additionalRounds
            peers == {q \in Request :
                        extensions[q].scheduleId = extensions[r].scheduleId}
        IN  /\ \E q \in peers :
                 end(q) = schedules[extensions[r].scheduleId].maxRounds
            /\ \A q \in peers \ {r} : \/ end(q) <= extensions[r].expectedMaxRounds
                                      \/ end(r) <= extensions[q].expectedMaxRounds
            /\ schedules[extensions[r].scheduleId].roundsStarted
                 >= extensions[r].expectedMaxRounds

\* Status, trigger, quota and extensions of a schedule agree with each other and
\* with its runs after every transaction, though each writes only some of them.
ScheduleAccounts ==
    SettledExactly /\ TriggerArmed /\ RoundsAccounting /\ ExtendExactlyOnce

\* A token is handed out once, by a claim, and each claim of a run is a new
\* attempt: what a caller holds from an earlier claim (its token, its attempt)
\* can never match the row again.
ClaimFenced ==
    [][\A i \in Invocation :
         /\ Exists(i) /\ Exists(i)' =>
              invocations'[i].attempt >= invocations[i].attempt
         /\ invocations'[i].ownershipToken \notin
              {NoToken, invocations[i].ownershipToken} =>
              /\ invocations'[i].ownershipToken > issued
              /\ invocations'[i].attempt = invocations[i].attempt + 1]_vars

\* No attempt of a scheduled run starts while its schedule is paused or
\* completed; only a manual run may.
ScheduledStartsActive ==
    [][\A i \in Invocation :
         /\ invocations'[i].mode = "scheduled"
         /\ invocations'[i].ownershipToken \notin
              {NoToken, invocations[i].ownershipToken}
         => schedules[invocations'[i].scheduleId].status = "active"]_vars

\* docs/how-to-schedule-tasks.md: a schedule has one run claimed or running at a
\* time, and a retry whose process tree is not cleared occupies that same slot.
SingleOccupancy ==
    \A i, j \in Invocation :
        /\ Occupying(i) /\ Occupying(j)
        /\ invocations[i].scheduleId = invocations[j].scheduleId
        => i = j

-----------------------------------------------------------------------------
(* The abstract promise it implements                                       *)

Owners ==
    [s \in Schedule |->
        {<<i, invocations[i].ownershipToken>> : i \in {j \in RunsOf(s) : Active(j)}}]

Runs == INSTANCE FencedRuns WITH Run <- Invocation, owners <- Owners,
                                 minted <- issued

\* The ledger is a fencing lock per schedule: whatever claims, reclaims, manual
\* runs, cancellations and deletions do, a step of the store takes a free
\* schedule, or takes it over for the same run, under a new token, or frees it.
ImplementsFencedRuns == Runs!Spec

=============================================================================
