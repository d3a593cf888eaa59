------------------------ MODULE ScheduleLedgerProofs ------------------------
(* Theorems about ScheduleLedger, for any number of schedules, invocations, *)
(* workers and tokens.                                                      *)
EXTENDS ScheduleLedger, FiniteSetTheorems, TLAPS

-----------------------------------------------------------------------------
(* What the row operators return                                            *)

\* A terminal write of a row is a row.
LEMMA ClearedType ==
    ASSUME NEW row \in InvocationRow, NEW status \in TerminalStatuses
    PROVE  Cleared(row, status) \in InvocationRow
BY DEF Cleared, InvocationRow, TerminalStatuses, ResultStatuses, LiveStatuses,
       ActiveStatuses, NoRow, NoToken

\* What is left of a deleted row is a row.
LEMMA DeletedType ==
    ASSUME NEW row \in InvocationRow
    PROVE  DeletedInvocation(row) \in InvocationRow
BY DEF DeletedInvocation, UnusedInvocation, InvocationRow, NoRow, NoToken

\* A claim of a row is a row.
LEMMA ClaimedByType ==
    ASSUME NEW row \in InvocationRow, NEW w \in Worker, NEW a \in Nat,
           issued \in Nat
    PROVE  ClaimedBy(row, w, a) \in InvocationRow
<1> DEFINE token == issued + 1
<1>1. token \in Nat
  OBVIOUS
<1> HIDE DEF token
<1>2. ClaimedBy(row, w, a) =
        [row EXCEPT !.status = "claimed", !.claimedBy = w,
                    !.ownershipToken = token, !.leaseUntil = "future",
                    !.attempt = a, !.retryAt = "null"]
  BY DEF ClaimedBy, token
<1> QED BY <1>1, <1>2 DEF InvocationRow, LiveStatuses, ActiveStatuses

\* An unused row that a pending or claimed run fills is a row.
LEMMA UnusedType == UnusedInvocation \in InvocationRow
BY DEF UnusedInvocation, InvocationRow, NoRow, NoToken

\* A deferred row is a row, with the same status, schedule and token.
LEMMA DeferredType ==
    ASSUME NEW row \in InvocationRow
    PROVE  /\ Deferred(row) \in InvocationRow
           /\ Deferred(row).status = row.status
           /\ Deferred(row).scheduleId = row.scheduleId
           /\ Deferred(row).ownershipToken = row.ownershipToken
BY DEF Deferred, InvocationRow

\* The row of a failed attempt is a retry of the same schedule.
LEMMA RetryingType ==
    ASSUME NEW row \in InvocationRow
    PROVE  /\ Retrying(row) \in InvocationRow
           /\ Retrying(row).status = "retry"
           /\ Retrying(row).scheduleId = row.scheduleId
<1>1. Retrying(row) \in InvocationRow
  BY DEF Retrying, InvocationRow, LiveStatuses, NoToken
<1>2. Retrying(row).status = "retry"
  BY DEF Retrying, InvocationRow
<1>3. Retrying(row).scheduleId = row.scheduleId
  BY DEF Retrying, InvocationRow
<1> QED BY <1>1, <1>2, <1>3

\* Reconciling keeps a schedule row a schedule row.
LEMMA ReconciledType ==
    ASSUME NEW sch \in ScheduleRow, NEW s, NEW invs
    PROVE  Reconciled(sch, s, invs) \in ScheduleRow
<1>1. CASE ~Exhausted(sch)
  BY <1>1 DEF Reconciled
<1>2. CASE Exhausted(sch)
  <2> DEFINE settled == ~\E i \in Invocation : Unsettled(invs[i], s)
  <2> HIDE DEF settled
  <2>1. Reconciled(sch, s, invs) =
          [sch EXCEPT !.status = IF settled THEN "completed"
                                 ELSE IF @ = "completed" THEN "active" ELSE @,
                      !.nextRunAt = None, !.due = FALSE]
    BY <1>2 DEF Reconciled, settled
  <2> QED BY <2>1 DEF ScheduleRow, ScheduleStatuses, NoRow
<1> QED BY <1>1, <1>2

\* The schedules table after a reconciliation is a table of schedules.
LEMMA ReconciledAfterType ==
    ASSUME schedules \in [Schedule -> ScheduleRow], NEW D, NEW invs
    PROVE  ReconciledAfter(D, invs) \in [Schedule -> ScheduleRow]
BY ReconciledType DEF ReconciledAfter

\* Failing a set of runs keeps the table a table of invocations.
LEMMA FinishedRowsType ==
    ASSUME invocations \in [Invocation -> InvocationRow], NEW D
    PROVE  FinishedRows(D) \in [Invocation -> InvocationRow]
BY ClearedType DEF FinishedRows, TerminalStatuses, ResultStatuses

\* A finished or terminally failed run leaves both tables well typed.
LEMMA FinishType ==
    ASSUME TypeOK, NEW i \in Invocation,
           FinishAsFailed(i) \/ MarkTerminalFailure(i)
    PROVE  /\ invocations' \in [Invocation -> InvocationRow]
           /\ schedules' \in [Schedule -> ScheduleRow]
<1> DEFINE ss == ReconciledAfter({i}, FinishedRows({i}))
<1>1. FinishedRows({i}) \in [Invocation -> InvocationRow]
  BY FinishedRowsType DEF TypeOK
<1>2. ss \in [Schedule -> ScheduleRow]
  BY ReconciledAfterType DEF TypeOK
<1>3. CASE FinishAsFailed(i)
  BY <1>1, <1>2, <1>3 DEF FinishAsFailed
<1>4. CASE MarkTerminalFailure(i)
  <2> DEFINE s == invocations[i].scheduleId
  <2> HIDE DEF ss
  <2>1. [ss EXCEPT ![s].status = IF @ = "completed" THEN @ ELSE "paused"]
          \in [Schedule -> ScheduleRow]
    BY <1>2, ZenonT(40) DEF ScheduleRow, ScheduleStatuses, NoRow
  <2> QED BY <1>1, <1>2, <1>4, <2>1 DEF MarkTerminalFailure, ss
<1> QED BY <1>3, <1>4

-----------------------------------------------------------------------------
(* Type correctness, action by action                                       *)

\* The step inserts no run and makes none active: every row there is after it
\* was there before, in the same schedule, and if it is active now it was
\* active before, under the same token.
RunsKept ==
    \A i \in Invocation :
        /\ Exists(i)' => /\ Exists(i)
                         /\ invocations'[i].scheduleId = invocations[i].scheduleId
        /\ Active(i)' =>
              /\ Active(i)
              /\ invocations'[i].ownershipToken = invocations[i].ownershipToken

\* The same of a table `invs` the step may write.
KeptIn(invs) ==
    \A i \in Invocation :
        /\ invs[i].status \notin NoRow =>
              /\ Exists(i)
              /\ invs[i].scheduleId = invocations[i].scheduleId
        /\ invs[i].status \in ActiveStatuses =>
              /\ Active(i)
              /\ invs[i].ownershipToken = invocations[i].ownershipToken

\* Failing runs that exist adds none.
LEMMA FinishedKept ==
    ASSUME TypeOK, NEW D, \A i \in D : i \in Invocation => Exists(i)
    PROVE  KeptIn(FinishedRows(D))
BY DEF KeptIn, FinishedRows, Cleared, TypeOK, InvocationRow, Exists, Active,
       NoRow, ActiveStatuses

\* A step after which every active run is one of before, under the token it had,
\* only lets runs go.
LEMMA KeptStep ==
    ASSUME KeptIn(invocations')
    PROVE  RunsKept
BY DEF KeptIn, RunsKept, Exists, Active

\* Finishing one run, or its terminal failure, only lets it go.
LEMMA FinishKept ==
    ASSUME TypeOK, NEW i \in Invocation, Exists(i),
           FinishAsFailed(i) \/ MarkTerminalFailure(i)
    PROVE  RunsKept
<1>1. KeptIn(FinishedRows({i}))
  BY FinishedKept
<1>2. invocations' = FinishedRows({i})
  BY DEF FinishAsFailed, MarkTerminalFailure
<1> QED BY <1>1, <1>2, KeptStep

\* What remains of TypeOK once both tables are well typed and no run is new.
LEMMA TypeFromTables ==
    ASSUME TypeOK, RunsKept,
           invocations' \in [Invocation -> InvocationRow],
           schedules' \in [Schedule -> ScheduleRow],
           extensions' \in [Request -> ExtensionRow \cup {NoExtension}],
           claim' \in Claim, issued' \in Nat
    PROVE  TypeOK'
BY DEF TypeOK, RunsKept, Exists

\* A row operator applied to one row.
LEMMA OneRowType ==
    ASSUME TypeOK, NEW i \in Invocation, NEW row \in InvocationRow,
           row.status \notin NoRow =>
              Exists(i) /\ row.scheduleId = invocations[i].scheduleId,
           row.status \in ActiveStatuses =>
              Active(i) /\ row.ownershipToken = invocations[i].ownershipToken,
           invocations' = [invocations EXCEPT ![i] = row]
    PROVE  /\ invocations' \in [Invocation -> InvocationRow]
           /\ RunsKept
BY DEF TypeOK, RunsKept, Exists, Active

\* The kinds of status a row may have exclude each other.
LEMMA Disjoint ==
    /\ ActiveStatuses \cap NoRow = {}
    /\ LiveStatuses \cap NoRow = {}
    /\ TerminalStatuses \cap NoRow = {}
    /\ TerminalStatuses \cap ActiveStatuses = {}
    /\ ActiveStatuses \subseteq LiveStatuses
BY DEF ActiveStatuses, LiveStatuses, TerminalStatuses, ResultStatuses, NoRow

\* The operations on schedules (create, resume, pause, extend, remove) keep the
\* types and grant no run.
LEMMA ScheduleStepType ==
    ASSUME TypeOK, ScheduleStep
    PROVE  TypeOK' /\ RunsKept
<1> USE DEF TypeOK
<1>1. PICK s \in Schedule :
        \/ \E m \in 0..MaxRoundsCap, next \in Slot, now \in BOOLEAN :
              createSchedule(s, m, next, now)
        \/ resumeSchedule(s)
        \/ \E settled \in SUBSET RunsOf(s) : pauseSchedule(s, settled)
        \/ \E r \in Request, e \in 1..MaxRoundsCap, n \in 1..MaxRoundsCap,
              next \in Slot : extendSchedule(r, s, e, n, next)
        \/ \E abandon \in BOOLEAN : removeSchedule(s, abandon)
  BY DEF ScheduleStep
<1>2. ASSUME NEW m \in 0..MaxRoundsCap, NEW next \in Slot, NEW now \in BOOLEAN,
             createSchedule(s, m, next, now)
      PROVE  TypeOK' /\ RunsKept
  <2>1. schedules' \in [Schedule -> ScheduleRow]
    BY <1>2, LedgerAssumption DEF createSchedule, ScheduleRow, ScheduleStatuses
  <2>2. RunsKept
    BY <1>2 DEF createSchedule, RunsKept, Exists, Active
  <2> QED BY <1>2, <2>1, <2>2, TypeFromTables DEF createSchedule
<1>3. ASSUME resumeSchedule(s)
      PROVE  TypeOK' /\ RunsKept
  <2>1. [schedules[s] EXCEPT !.status = "active"] \in ScheduleRow
    BY DEF ScheduleRow, ScheduleStatuses
  <2>2. schedules' \in [Schedule -> ScheduleRow]
    BY <1>3, <2>1, ReconciledType DEF resumeSchedule
  <2>3. RunsKept
    BY <1>3 DEF resumeSchedule, RunsKept, Exists, Active
  <2> QED BY <1>3, <2>2, <2>3, TypeFromTables DEF resumeSchedule
<1>4. ASSUME NEW settled \in SUBSET RunsOf(s), pauseSchedule(s, settled)
      PROVE  TypeOK' /\ RunsKept
  <2>1. PICK D \in SUBSET RunsOf(s) :
          /\ \A i \in D : invocations[i].status = "retry"
          /\ invocations' = FinishedRows(D)
          /\ schedules' = [schedules EXCEPT ![s] =
                Reconciled([@ EXCEPT !.status = "paused"], s, FinishedRows(D))]
    <3> DEFINE D == {i \in RunsOf(s) :
                       /\ invocations[i].mode = "scheduled"
                       /\ invocations[i].status = "retry"
                       /\ ~TreeBlocks(invocations[i], i \in settled)}
    <3>1. D \in SUBSET RunsOf(s)
      OBVIOUS
    <3>2. \A i \in D : invocations[i].status = "retry"
      OBVIOUS
    <3> QED BY <1>4, <3>1, <3>2 DEF pauseSchedule
  <2>2. [schedules[s] EXCEPT !.status = "paused"] \in ScheduleRow
    BY DEF ScheduleRow, ScheduleStatuses
  <2>3. schedules' \in [Schedule -> ScheduleRow]
    BY <2>1, <2>2, ReconciledType
  <2>4. invocations' \in [Invocation -> InvocationRow]
    BY <2>1, FinishedRowsType
  <2>5. RunsKept
    BY <2>1, FinishedKept, KeptStep DEF Exists, NoRow
  <2> QED BY <1>4, <2>3, <2>4, <2>5, TypeFromTables DEF pauseSchedule
<1>5. ASSUME NEW r \in Request, NEW e \in 1..MaxRoundsCap,
             NEW n \in 1..MaxRoundsCap, NEW next \in Slot,
             extendSchedule(r, s, e, n, next)
      PROVE  TypeOK' /\ RunsKept
  <2>1. e \in Nat /\ n \in Nat /\ e + n \in Nat
    BY LedgerAssumption
  <2>2. schedules' \in [Schedule -> ScheduleRow]
    <3> DEFINE total == e + n
    <3>1. total \in Nat
      BY <2>1
    <3> HIDE DEF total
    <3>2. schedules' = [schedules EXCEPT ![s] =
             [@ EXCEPT !.maxRounds = total, !.status = "active",
                       !.nextRunAt = next, !.due = FALSE]]
      BY <1>5 DEF extendSchedule, total
    <3> QED BY <3>1, <3>2 DEF ScheduleRow, ScheduleStatuses
  <2>3. extensions' \in [Request -> ExtensionRow \cup {NoExtension}]
    BY <1>5, <2>1 DEF extendSchedule, ExtensionRow
  <2>4. RunsKept
    BY <1>5 DEF extendSchedule, RunsKept, Exists, Active
  <2> QED BY <1>5, <2>2, <2>3, <2>4, TypeFromTables DEF extendSchedule
<1>6. ASSUME NEW abandon \in BOOLEAN, removeSchedule(s, abandon)
      PROVE  TypeOK' /\ RunsKept
  <2>1. schedules' \in [Schedule -> ScheduleRow]
    BY <1>6 DEF removeSchedule, UnusedSchedule, ScheduleRow, NoRow, Unlimited
  <2>2. invocations' \in [Invocation -> InvocationRow]
    BY <1>6, DeletedType DEF removeSchedule
  <2>3. extensions' \in [Request -> ExtensionRow \cup {NoExtension}]
    BY <1>6 DEF removeSchedule
  <2>4. RunsKept
    BY <1>6 DEF removeSchedule, RunsKept, Exists, Active, DeletedInvocation,
                UnusedInvocation, NoRow, ActiveStatuses
  <2> QED BY <1>6, <2>1, <2>2, <2>3, <2>4, TypeFromTables DEF removeSchedule
<1> QED BY <1>1, <1>2, <1>3, <1>4, <1>5, <1>6

\* The row i after the step, where the step inserts or claims it; every other
\* row is as before.  `i` was not active.
NewRun(i) ==
    /\ ~Active(i)
    /\ Exists(i)' /\ invocations'[i].scheduleId \in Schedule
    /\ \A j \in Invocation \ {i} : invocations'[j] = invocations[j]

\* A step that writes one row, be it new, keeps the types.
LEMMA TypeFromNewRun ==
    ASSUME TypeOK, NEW i \in Invocation, NewRun(i),
           invocations' \in [Invocation -> InvocationRow],
           schedules' \in [Schedule -> ScheduleRow],
           extensions' \in [Request -> ExtensionRow \cup {NoExtension}],
           claim' \in Claim, issued' \in Nat
    PROVE  TypeOK'
BY DEF TypeOK, NewRun, Exists

\* The operations of manual runs keep the types.
LEMMA ManualStepType ==
    ASSUME TypeOK, ManualStep
    PROVE  TypeOK'
<1> USE DEF TypeOK
<1>1. PICK i \in Invocation :
        \/ \E s \in Schedule, n \in {1, RetryBudget} :
              enqueueManualInvocation(s, i, n)
        \/ \E w \in Worker : claimPendingInvocation(i, w)
        \/ discardPendingInvocation(i)
  BY DEF ManualStep
<1>2. ASSUME NEW s \in Schedule, NEW n \in {1, RetryBudget},
             enqueueManualInvocation(s, i, n)
      PROVE  TypeOK'
  <2>1. n \in Nat
    BY LedgerAssumption
  <2> DEFINE row == [UnusedInvocation EXCEPT !.status = "pending",
                        !.scheduleId = s, !.maxAttempts = n]
  <2>2. /\ row \in InvocationRow
        /\ row.status = "pending" /\ row.scheduleId = s
    BY <2>1 DEF UnusedInvocation, InvocationRow, LiveStatuses, NoToken
  <2> HIDE DEF row
  <2>3. invocations' = [invocations EXCEPT ![i] = row]
    BY <1>2 DEF enqueueManualInvocation, row
  <2>4. NewRun(i)
    BY <1>2, <2>2, <2>3 DEF enqueueManualInvocation, NewRun, Exists, Active,
         UnusedIds, NoRow, ActiveStatuses
  <2> QED BY <1>2, <2>2, <2>3, <2>4, TypeFromNewRun
          DEF enqueueManualInvocation
<1>3. ASSUME NEW w \in Worker, claimPendingInvocation(i, w)
      PROVE  TypeOK'
  <2> DEFINE row == ClaimedBy(invocations[i], w, 1)
  <2>1. row \in InvocationRow /\ row.status = "claimed"
        /\ row.scheduleId = invocations[i].scheduleId
    <3>1. row \in InvocationRow
      BY ClaimedByType
    <3> QED BY <3>1 DEF ClaimedBy, InvocationRow
  <2>2. Exists(i)
    BY <1>3 DEF claimPendingInvocation, Exists, NoRow
  <2> HIDE DEF row
  <2>3. invocations' = [invocations EXCEPT ![i] = row]
    BY <1>3 DEF claimPendingInvocation, row
  <2>4. NewRun(i)
    BY <1>3, <2>1, <2>2, <2>3 DEF claimPendingInvocation, NewRun, Exists,
         Active, NoRow, ActiveStatuses
  <2> QED BY <1>3, <2>1, <2>3, <2>4, TypeFromNewRun DEF claimPendingInvocation
<1>4. ASSUME discardPendingInvocation(i)
      PROVE  TypeOK'
  <2>1. invocations' \in [Invocation -> InvocationRow]
    BY <1>4, DeletedType DEF discardPendingInvocation
  <2>2. RunsKept
    BY <1>4 DEF discardPendingInvocation, RunsKept, Exists, Active,
                DeletedInvocation, UnusedInvocation, NoRow, ActiveStatuses
  <2> QED BY <1>4, <2>1, <2>2, TypeFromTables DEF discardPendingInvocation
<1> QED BY <1>1, <1>2, <1>3, <1>4

\* The operations of whoever runs an invocation (begin, renew, record, complete,
\* fail, reclassify, shutdown) keep the types and grant no run.
LEMMA RunStepType ==
    ASSUME TypeOK, RunStep
    PROVE  TypeOK' /\ RunsKept
<1> USE DEF TypeOK
<1>1. ASSUME NEW i \in Invocation, NEW t \in 1..issued,
             NEW e \in Executor \cup {None}, beginInvocation(i, t, e)
      PROVE  TypeOK' /\ RunsKept
  <2> DEFINE row == [invocations[i] EXCEPT !.status = "running",
                        !.leaseUntil = "future", !.executor = e]
  <2>1. /\ row \in InvocationRow
        /\ row.scheduleId = invocations[i].scheduleId
        /\ row.ownershipToken = invocations[i].ownershipToken
    BY ZenonT(40) DEF InvocationRow, LiveStatuses, ActiveStatuses
  <2>2. Active(i) /\ Exists(i)
    BY <1>1 DEF beginInvocation, Active, Exists, ActiveStatuses, NoRow
  <2> HIDE DEF row
  <2>3. invocations' = [invocations EXCEPT ![i] = row]
    BY <1>1 DEF beginInvocation, row
  <2>4. invocations' \in [Invocation -> InvocationRow] /\ RunsKept
    BY <2>1, <2>2, <2>3, OneRowType
  <2> QED BY <1>1, <2>4, TypeFromTables DEF beginInvocation
<1>2. ASSUME NEW i \in Invocation, NEW t \in 1..issued, renewLease(i, t)
      PROVE  TypeOK' /\ RunsKept
  <2>1. invocations' \in [Invocation -> InvocationRow]
    BY <1>2 DEF renewLease, InvocationRow
  <2>2. RunsKept
    BY <1>2 DEF renewLease, RunsKept, Exists, Active, InvocationRow
  <2> QED BY <1>2, <2>1, <2>2, TypeFromTables DEF renewLease
<1>3. ASSUME NEW i \in Invocation, NEW t \in 1..issued, NEW u \in BOOLEAN,
             recordInvocationTree(i, t, u)
      PROVE  TypeOK' /\ RunsKept
  <2>1. invocations' \in [Invocation -> InvocationRow]
    BY <1>3 DEF recordInvocationTree, InvocationRow
  <2>2. RunsKept
    BY <1>3 DEF recordInvocationTree, RunsKept, Exists, Active, InvocationRow
  <2> QED BY <1>3, <2>1, <2>2, TypeFromTables DEF recordInvocationTree
<1>4. ASSUME NEW i \in Invocation, NEW t \in 1..issued,
             NEW result \in ResultStatuses, NEW settled \in BOOLEAN,
             completeInvocation(i, t, result, settled)
      PROVE  TypeOK' /\ RunsKept
  <2> DEFINE row == Cleared(invocations[i], result)
  <2>1. /\ row \in InvocationRow
        /\ row.scheduleId = invocations[i].scheduleId
        /\ row.status = result
    BY ClearedType, ZenonT(40) DEF TerminalStatuses, Cleared, InvocationRow
  <2>2. Active(i) /\ Exists(i)
    BY <1>4, Disjoint DEF completeInvocation, HoldsToken, Active, Exists
  <2> HIDE DEF row
  <2>3. /\ invocations' = [invocations EXCEPT ![i] = row]
        /\ schedules' = ReconciledAfter({i}, [invocations EXCEPT ![i] = row])
    BY <1>4 DEF completeInvocation, row
  <2>4. invocations' \in [Invocation -> InvocationRow] /\ RunsKept
    <3>1. row.status \notin ActiveStatuses
      BY <2>1, Disjoint DEF TerminalStatuses
    <3> QED BY <2>1, <2>2, <2>3, <3>1, OneRowType
  <2>5. schedules' \in [Schedule -> ScheduleRow]
    BY <2>3, ReconciledAfterType
  <2> QED BY <1>4, <2>4, <2>5, TypeFromTables DEF completeInvocation
<1>5. ASSUME NEW i \in Invocation, Active(i),
             invocations' = [invocations EXCEPT ![i] = Retrying(@)]
      PROVE  invocations' \in [Invocation -> InvocationRow] /\ RunsKept
  <2> DEFINE row == Retrying(invocations[i])
  <2>1. /\ row \in InvocationRow
        /\ row.scheduleId = invocations[i].scheduleId
        /\ row.status = "retry"
    BY RetryingType
  <2>2. Exists(i)
    BY <1>5, Disjoint DEF Active, Exists
  <2> HIDE DEF row
  <2>3. invocations' = [invocations EXCEPT ![i] = row]
    BY <1>5 DEF row
  <2> QED BY <1>5, <2>1, <2>2, <2>3, OneRowType DEF ActiveStatuses
<1>6. ASSUME NEW i \in Invocation, NEW t \in 1..issued,
             NEW terminal \in BOOLEAN, NEW settled \in BOOLEAN,
             failInvocation(i, t, terminal, settled)
      PROVE  TypeOK' /\ RunsKept
  <2>1. Active(i) /\ Exists(i)
    BY <1>6, Disjoint DEF failInvocation, HoldsToken, Active, Exists
  <2>2. CASE MarkTerminalFailure(i)
    BY <1>6, <2>1, <2>2, FinishType, FinishKept, TypeFromTables
       DEF failInvocation
  <2>3. CASE /\ invocations' = [invocations EXCEPT ![i] = Retrying(@)]
             /\ UNCHANGED schedules
    BY <1>5, <1>6, <2>1, <2>3, TypeFromTables DEF failInvocation
  <2> QED BY <1>6, <2>2, <2>3 DEF failInvocation
<1>7. ASSUME NEW i \in Invocation, NEW a \in 0..RetryBudget,
             NEW settled \in BOOLEAN,
             reclassifyTimedOutInvocation(i, a, settled)
      PROVE  TypeOK' /\ RunsKept
  <2>1. Exists(i)
    BY <1>7, Disjoint DEF reclassifyTimedOutInvocation, Exists, TerminalStatuses
  <2>2. CASE MarkTerminalFailure(i)
    BY <1>7, <2>1, <2>2, FinishType, FinishKept, TypeFromTables
       DEF reclassifyTimedOutInvocation
  <2>3. CASE /\ invocations' = [invocations EXCEPT ![i] = Retrying(@)]
             /\ schedules' = ReconciledAfter({i},
                                [invocations EXCEPT ![i] = Retrying(@)])
    <3> DEFINE row == Retrying(invocations[i])
    <3>1. /\ row \in InvocationRow
          /\ row.scheduleId = invocations[i].scheduleId
          /\ row.status = "retry"
      BY RetryingType
    <3> HIDE DEF row
    <3>2. /\ invocations' = [invocations EXCEPT ![i] = row]
          /\ schedules' = ReconciledAfter({i}, [invocations EXCEPT ![i] = row])
      BY <2>3 DEF row
    <3>3. invocations' \in [Invocation -> InvocationRow] /\ RunsKept
      BY <2>1, <3>1, <3>2, OneRowType DEF ActiveStatuses
    <3>4. schedules' \in [Schedule -> ScheduleRow]
      BY <3>2, ReconciledAfterType
    <3> QED BY <1>7, <3>3, <3>4, TypeFromTables DEF reclassifyTimedOutInvocation
  <2> QED BY <1>7, <2>2, <2>3 DEF reclassifyTimedOutInvocation
<1>8. ASSUME NEW w \in Worker, NEW settled \in SUBSET Invocation,
             prepareWorkerShutdown(w, settled)
      PROVE  TypeOK' /\ RunsKept
  <2>1. PICK D \in SUBSET Invocation :
          /\ \A i \in D : invocations[i].status = "claimed"
          /\ invocations' = FinishedRows(D)
          /\ schedules' = ReconciledAfter(D, FinishedRows(D))
    <3> DEFINE D == {i \in Invocation :
                       /\ invocations[i].claimedBy = w
                       /\ invocations[i].status = "claimed"
                       /\ ~TreeBlocks(invocations[i], i \in settled)}
    <3>1. D \in SUBSET Invocation
      OBVIOUS
    <3>2. \A i \in D : invocations[i].status = "claimed"
      OBVIOUS
    <3> QED BY <1>8, <3>1, <3>2 DEF prepareWorkerShutdown
  <2>2. invocations' \in [Invocation -> InvocationRow]
    BY <2>1, FinishedRowsType
  <2>3. schedules' \in [Schedule -> ScheduleRow]
    BY <2>1, ReconciledAfterType
  <2>4. RunsKept
    BY <2>1, FinishedKept, KeptStep DEF Exists, NoRow
  <2> QED BY <1>8, <2>2, <2>3, <2>4, TypeFromTables DEF prepareWorkerShutdown
<1> QED BY <1>1, <1>2, <1>3, <1>4, <1>6, <1>7, <1>8 DEF RunStep

\* The cancellation protocol keeps the types and grants no run.
LEMMA CancelStepType ==
    ASSUME TypeOK, CancelStep
    PROVE  TypeOK' /\ RunsKept
<1> USE DEF TypeOK
<1>1. ASSUME NEW i \in Invocation, NEW abandon \in BOOLEAN,
             NEW dead \in BOOLEAN, NEW settled \in BOOLEAN,
             cancelInvocation(i, abandon, dead, settled)
      PROVE  TypeOK' /\ RunsKept
  <2>1. Exists(i) /\ FinishAsFailed(i)
    BY <1>1, Disjoint DEF cancelInvocation, Live, Exists
  <2> QED BY <1>1, <2>1, FinishType, FinishKept, TypeFromTables
          DEF cancelInvocation
<1>2. ASSUME NEW i \in Invocation, NEW a \in 0..RetryBudget,
             NEW abandon \in BOOLEAN, NEW tree \in {"none", "settled", "unsettled"},
             NEW dead \in BOOLEAN, NEW settled \in BOOLEAN,
             finalizeCancellation(i, a, abandon, tree, dead, settled)
      PROVE  TypeOK' /\ RunsKept
  <2> DEFINE row == WithTreeReport(invocations[i], tree)
  <2>1. Exists(i)
    BY <1>2 DEF finalizeCancellation
  <2>2. CASE FinishAsFailed(i)
    BY <1>2, <2>1, <2>2, FinishType, FinishKept, TypeFromTables
       DEF finalizeCancellation
  <2>3. CASE /\ invocations' = [invocations EXCEPT ![i] = row]
             /\ UNCHANGED schedules
    <3>1. /\ row \in InvocationRow
          /\ row.scheduleId = invocations[i].scheduleId
          /\ row.status = invocations[i].status
          /\ row.ownershipToken = invocations[i].ownershipToken
      BY ZenonT(40) DEF WithTreeReport, InvocationRow
    <3> HIDE DEF row
    <3>2. row.status \in ActiveStatuses => Active(i)
      BY <3>1 DEF Active
    <3>3. invocations' \in [Invocation -> InvocationRow] /\ RunsKept
      BY <2>1, <2>3, <3>1, <3>2, OneRowType
    <3> QED BY <1>2, <2>3, <3>3, TypeFromTables DEF finalizeCancellation
  <2> QED BY <1>2, <2>2, <2>3 DEF finalizeCancellation
<1>3. ASSUME NEW D \in SUBSET Invocation, pruneInvocations(D)
      PROVE  TypeOK' /\ RunsKept
  <2>1. invocations' \in [Invocation -> InvocationRow]
    BY <1>3, DeletedType DEF pruneInvocations
  <2>2. RunsKept
    BY <1>3 DEF pruneInvocations, RunsKept, Exists, Active,
                DeletedInvocation, UnusedInvocation, NoRow, ActiveStatuses
  <2> QED BY <1>3, <2>1, <2>2, TypeFromTables DEF pruneInvocations
<1> QED BY <1>1, <1>2, <1>3 DEF CancelStep

\* The passing of time keeps the types and grants no run.
LEMMA ClockStepType ==
    ASSUME TypeOK, ClockStep
    PROVE  TypeOK' /\ RunsKept
<1> USE DEF TypeOK
<1>1. ASSUME NEW i \in Invocation, leaseExpires(i) \/ retryFallsDue(i)
      PROVE  TypeOK' /\ RunsKept
  <2>1. invocations' \in [Invocation -> InvocationRow]
    BY <1>1 DEF leaseExpires, retryFallsDue, InvocationRow
  <2>2. RunsKept
    BY <1>1 DEF leaseExpires, retryFallsDue, RunsKept, Exists, Active,
                InvocationRow
  <2> QED BY <1>1, <2>1, <2>2, TypeFromTables DEF leaseExpires, retryFallsDue
<1>2. ASSUME NEW s \in Schedule, nextRunFallsDue(s)
      PROVE  TypeOK' /\ RunsKept
  <2>1. schedules' \in [Schedule -> ScheduleRow]
    BY <1>2 DEF nextRunFallsDue, ScheduleRow
  <2>2. RunsKept
    BY <1>2 DEF nextRunFallsDue, RunsKept, Exists, Active
  <2> QED BY <1>2, <2>1, <2>2, TypeFromTables DEF nextRunFallsDue
<1> QED BY <1>1, <1>2 DEF ClockStep

\* The steps of claimDue that claim nothing.
ClaimDueQuiet ==
    \/ \E w \in Worker, limit \in 0..MaxLimit,
          held \in SUBSET {i \in LiveRows : Active(i)} :
          \E probed \in SUBSET ProbeCandidates(held) :
              \E alive \in SUBSET probed :
                  beginClaimDue(w, limit, held, probed, alive)
    \/ \E i \in Invocation, settled \in BOOLEAN :
          \/ claimDueAbandon(i, settled)
          \/ claimDueSkip(i)
          \/ claimDueExhaust(i, settled)
    \/ commitClaimDue

\* An open transaction has a worker, a limit and rows to visit.
LEMMA OpenClaim ==
    ASSUME claim \in Claim, claim.open
    PROVE  claim \in [open : {TRUE}, worker : Worker, left : Nat,
                      todo : SUBSET Invocation]
<1>1. NoClaim.open = FALSE
  BY DEF NoClaim
<1> QED BY <1>1 DEF Claim

\* The rows claimDue has still to visit exist.
LEMMA TodoExists ==
    ASSUME TypeOK, SnapshotFresh, NEW i \in claim.todo
    PROVE  i \in Invocation /\ Exists(i)
BY DEF SnapshotFresh, LiveRows, Exists, Active, ActiveStatuses, NoRow

\* The steps of claimDue that claim nothing keep the types and grant no
\* run.
LEMMA ClaimDueQuietType ==
    ASSUME TypeOK, SnapshotFresh, ClaimDueQuiet
    PROVE  TypeOK' /\ RunsKept
<1> USE DEF TypeOK
<1>1. ASSUME NEW w \in Worker, NEW limit \in 0..MaxLimit,
             NEW held \in SUBSET {i \in LiveRows : Active(i)},
             NEW probed \in SUBSET ProbeCandidates(held),
             NEW alive \in SUBSET probed,
             beginClaimDue(w, limit, held, probed, alive)
      PROVE  TypeOK' /\ RunsKept
  <2>1. PICK R \in SUBSET Invocation :
          invocations' = [i \in Invocation |->
             IF i \in R THEN [invocations[i] EXCEPT !.leaseUntil = "future"]
                        ELSE invocations[i]]
    <3> DEFINE R == {i \in LiveRows : Active(i) /\ i \in held \cup alive}
                      \cup (ProbeCandidates(held) \ probed)
    <3>1. R \in SUBSET Invocation
      BY DEF LiveRows, ProbeCandidates
    <3> QED BY <1>1, <3>1 DEF beginClaimDue
  <2>2. invocations' \in [Invocation -> InvocationRow]
    BY <2>1 DEF InvocationRow
  <2>3. RunsKept
    BY <2>1 DEF RunsKept, Exists, Active, InvocationRow
  <2>4. claim' \in Claim
    <3>1. limit \in Nat
      BY LedgerAssumption
    <3> QED BY <1>1, <3>1 DEF beginClaimDue, Claim, LiveRows
  <2> QED BY <1>1, <2>2, <2>3, <2>4, TypeFromTables DEF beginClaimDue
<1>2. ASSUME NEW i \in Invocation, InClaim(i), RowDone(i)
      PROVE  claim' \in Claim
  BY <1>2, OpenClaim DEF RowDone, InClaim, Claim
<1>3. ASSUME NEW i \in Invocation, Exists(i),
             \/ /\ invocations' = [invocations EXCEPT ![i] = Deferred(@)]
                /\ UNCHANGED schedules
             \/ FinishAsFailed(i)
             \/ MarkTerminalFailure(i)
      PROVE  /\ invocations' \in [Invocation -> InvocationRow]
             /\ schedules' \in [Schedule -> ScheduleRow]
             /\ RunsKept
  <2>1. CASE FinishAsFailed(i) \/ MarkTerminalFailure(i)
    BY <1>3, <2>1, FinishType, FinishKept
  <2>2. CASE /\ invocations' = [invocations EXCEPT ![i] = Deferred(@)]
             /\ UNCHANGED schedules
    <3> DEFINE row == Deferred(invocations[i])
    <3>1. /\ row \in InvocationRow
          /\ row.scheduleId = invocations[i].scheduleId
          /\ row.status = invocations[i].status
          /\ row.ownershipToken = invocations[i].ownershipToken
      BY DeferredType
    <3>2. invocations' = [invocations EXCEPT ![i] = row]
      BY <2>2
    <3> HIDE DEF row
    <3>3. row.status \in ActiveStatuses => Active(i)
      BY <3>1 DEF Active
    <3> QED BY <1>3, <2>2, <3>1, <3>2, <3>3, OneRowType
  <2> QED BY <1>3, <2>1, <2>2
<1>4. ASSUME NEW i \in Invocation, NEW settled \in BOOLEAN,
             claimDueAbandon(i, settled) \/ claimDueExhaust(i, settled)
      PROVE  TypeOK' /\ RunsKept
  <2>1. Exists(i)
    BY <1>4, TodoExists DEF claimDueAbandon, claimDueExhaust, InClaim
  <2> QED BY <1>2, <1>3, <1>4, <2>1, TypeFromTables
          DEF claimDueAbandon, claimDueExhaust
<1>5. ASSUME NEW i \in Invocation, claimDueSkip(i)
      PROVE  TypeOK' /\ RunsKept
  <2>1. RunsKept
    BY <1>5 DEF claimDueSkip, RunsKept, Exists, Active
  <2> QED BY <1>2, <1>5, <2>1, TypeFromTables DEF claimDueSkip
<1>6. ASSUME commitClaimDue
      PROVE  TypeOK' /\ RunsKept
  <2>1. RunsKept
    BY <1>6 DEF commitClaimDue, RunsKept, Exists, Active
  <2>2. claim' \in Claim
    BY <1>6 DEF commitClaimDue, NoClaim, Claim
  <2> QED BY <1>6, <2>1, <2>2, TypeFromTables DEF commitClaimDue
<1> QED BY <1>1, <1>4, <1>5, <1>6 DEF ClaimDueQuiet

\* The steps of claimDue that claim a run.
LEMMA ReclaimType ==
    ASSUME TypeOK, SnapshotFresh, NEW i \in Invocation, claimDueReclaim(i)
    PROVE  /\ TypeOK'
           /\ \A j \in Invocation :
                invocations'[j].scheduleId = invocations[j].scheduleId
           /\ Exists(i)
           /\ \A j \in Invocation \ {i} : invocations'[j] = invocations[j]
<1> USE DEF TypeOK
<1> DEFINE row == ClaimedBy(invocations[i], claim.worker, NextAttempt(i))
<1>1. claim.worker \in Worker /\ NextAttempt(i) \in Nat
  <2>1. NextAttempt(i) \in Nat
    BY DEF NextAttempt, InvocationRow
  <2>2. claim.worker \in Worker
    BY OpenClaim DEF claimDueReclaim, InClaim
  <2> QED BY <2>1, <2>2
<1>2. row \in InvocationRow /\ row.scheduleId = invocations[i].scheduleId
  <2>1. row \in InvocationRow
    BY <1>1, ClaimedByType
  <2> QED BY <2>1 DEF ClaimedBy, InvocationRow
<1>3. Exists(i)
  BY TodoExists DEF claimDueReclaim, InClaim
<1> HIDE DEF row
<1>4. invocations' = [invocations EXCEPT ![i] = row]
  BY DEF claimDueReclaim, row
<1>5. claim' \in Claim
  <2>1. claim \in [open : {TRUE}, worker : Worker, left : Nat,
                    todo : SUBSET Invocation]
    BY OpenClaim DEF claimDueReclaim, InClaim
  <2>2. claim.left - 1 \in Nat
    BY <2>1 DEF claimDueReclaim, InClaim
  <2> QED BY <2>1, <2>2 DEF claimDueReclaim, Claim
<1>6. TypeOK'
  BY <1>2, <1>3, <1>4, <1>5 DEF claimDueReclaim, Exists
<1> QED BY <1>2, <1>3, <1>4, <1>6

\* A schedule that has started a round is a schedule.
LEMMA AdvancedType ==
    ASSUME NEW sch \in ScheduleRow, NEW n \in {0, 1}, NEW next \in Slot
    PROVE  Advanced(sch, n, next) \in ScheduleRow
<1> DEFINE total == sch.roundsStarted + n
<1> DEFINE last  == sch.maxRounds # Unlimited /\ total >= sch.maxRounds
<1>1. total \in Nat
  BY DEF ScheduleRow
<1> HIDE DEF total, last
<1>2. Advanced(sch, n, next) =
        [sch EXCEPT !.roundsStarted = total,
                    !.nextRunAt = IF last THEN None ELSE next, !.due = FALSE]
  BY DEF Advanced, total, last
<1> QED BY <1>1, <1>2 DEF ScheduleRow

\* claimDue starts a round with a new row, or advances the schedule alone.
LEMMA StartRoundType ==
    ASSUME TypeOK, SnapshotFresh, NEW s \in Schedule, NEW i \in Invocation,
           NEW next \in Slot, claimDueSchedule(s, i, next)
    PROVE  /\ TypeOK'
           /\ \/ invocations' = invocations
              \/ /\ NewRun(i)
                 /\ invocations'[i].scheduleId = s
                 /\ \A j \in RunsOf(s) : ~Live(j)
<1> USE DEF TypeOK
<1>1. schedules' \in [Schedule -> ScheduleRow]
  <2>1. /\ Advanced(schedules[s], 0, next) \in ScheduleRow
        /\ Advanced(schedules[s], 1, next) \in ScheduleRow
    BY AdvancedType
  <2> QED BY <2>1 DEF claimDueSchedule
<1>2. CASE SlotTaken(s)
  <2>1. UNCHANGED <<invocations, claim, issued, extensions>>
    BY <1>2 DEF claimDueSchedule
  <2> QED BY <1>1, <2>1 DEF Exists
<1>3. CASE ~SlotTaken(s)
  <2> DEFINE new == [UnusedInvocation EXCEPT
                       !.scheduleId = s, !.mode = "scheduled",
                       !.scheduledFor = schedules[s].nextRunAt,
                       !.maxAttempts = RetryBudget]
             row == ClaimedBy(new, claim.worker, 1)
  <2>1. claim \in [open : {TRUE}, worker : Worker, left : Nat,
                   todo : SUBSET Invocation]
    BY OpenClaim DEF claimDueSchedule
  <2>2. new \in InvocationRow /\ new.scheduleId = s
    <3>1. schedules[s].nextRunAt \in Slot \cup {None}
      BY DEF ScheduleRow
    <3> QED BY <3>1, UnusedType, LedgerAssumption
            DEF InvocationRow, UnusedInvocation
  <2> HIDE DEF new
  <2>3. row \in InvocationRow
    BY <2>1, <2>2, ClaimedByType
  <2>4. row.status = "claimed" /\ row.scheduleId = s
    BY <2>2 DEF ClaimedBy, InvocationRow
  <2> HIDE DEF row
  <2>5. invocations' = [invocations EXCEPT ![i] = row]
    BY <1>3 DEF claimDueSchedule, row, new
  <2>6. NewRun(i)
    BY <2>3, <2>4, <2>5 DEF claimDueSchedule, NewRun, Exists, Active,
       UnusedIds, NoRow, ActiveStatuses
  <2>7. claim' \in Claim /\ issued' \in Nat /\ UNCHANGED extensions
    <3>1. claim.left - 1 \in Nat
      BY <2>1 DEF claimDueSchedule
    <3>2. claim' = [claim EXCEPT !.left = @ - 1] /\ issued' = issued + 1
      BY <1>3 DEF claimDueSchedule
    <3>3. claim' \in Claim
      BY <2>1, <3>1, <3>2 DEF Claim
    <3> QED BY <3>2, <3>3 DEF claimDueSchedule
  <2>8. TypeOK'
    BY <1>1, <2>3, <2>5, <2>6, <2>7, TypeFromNewRun
  <2>9. \A j \in RunsOf(s) : ~Live(j)
    BY DEF claimDueSchedule, DueNow
  <2> QED BY <2>4, <2>5, <2>6, <2>8, <2>9
<1> QED BY <1>2, <1>3

-----------------------------------------------------------------------------
(* The snapshot of claimDue                                                 *)

\* Outside its own steps claimDue's transaction is closed and stays closed; its
\* steps only touch the row they visit.
LEMMA SnapshotStep ==
    ASSUME TypeOK, SnapshotFresh, [Next]_vars
    PROVE  SnapshotFresh'
<1>1. ASSUME Idle, claim' = claim
      PROVE  SnapshotFresh'
  <2>1. claim = NoClaim
    BY <1>1 DEF Idle, TypeOK, Claim
  <2> QED BY <1>1, <2>1 DEF SnapshotFresh, NoClaim
<1>2. ASSUME NEW i \in Invocation, claim'.todo = claim.todo \ {i},
             \A j \in Invocation \ {i} : invocations'[j] = invocations[j]
      PROVE  SnapshotFresh'
  BY <1>2 DEF SnapshotFresh, LiveRows, Active
<1>3. CASE ScheduleStep
  BY <1>1, <1>3 DEF ScheduleStep, createSchedule, resumeSchedule,
     pauseSchedule, extendSchedule, removeSchedule
<1>4. CASE ManualStep
  BY <1>1, <1>4 DEF ManualStep, enqueueManualInvocation,
     claimPendingInvocation, discardPendingInvocation
<1>5. CASE RunStep
  BY <1>1, <1>5 DEF RunStep, beginInvocation, renewLease,
     recordInvocationTree, completeInvocation, failInvocation,
     reclassifyTimedOutInvocation, prepareWorkerShutdown
<1>6. CASE CancelStep
  BY <1>1, <1>6 DEF CancelStep, cancelInvocation, finalizeCancellation,
     pruneInvocations
<1>7. CASE ClockStep
  BY <1>1, <1>7 DEF ClockStep, leaseExpires, retryFallsDue, nextRunFallsDue
<1>8. CASE UNCHANGED vars
  BY <1>8 DEF vars, SnapshotFresh, LiveRows, Active
<1>9. CASE ClaimDueStep
  <2>1. ASSUME NEW w \in Worker, NEW limit \in 0..MaxLimit,
               NEW held \in SUBSET {i \in LiveRows : Active(i)},
               NEW probed \in SUBSET ProbeCandidates(held),
               NEW alive \in SUBSET probed,
               beginClaimDue(w, limit, held, probed, alive)
        PROVE  SnapshotFresh'
    <3>1. CASE limit = 0
      BY <1>1, <2>1, <3>1 DEF beginClaimDue
    <3>2. CASE limit # 0
      <4> DEFINE R == {i \in LiveRows : Active(i) /\ i \in held \cup alive}
                        \cup (ProbeCandidates(held) \ probed)
      <4>1. /\ claim'.todo = LiveRows \ R
            /\ \A j \in Invocation \ R : invocations'[j] = invocations[j]
        BY <2>1, <3>2 DEF beginClaimDue
      <4> HIDE DEF R
      <4> QED BY <4>1 DEF SnapshotFresh, LiveRows, Active
    <3> QED BY <3>1, <3>2
  <2>2. ASSUME NEW i \in Invocation, RowDone(i)
        PROVE  claim'.todo = claim.todo \ {i}
    BY <2>2 DEF RowDone, TypeOK, Claim, NoClaim
  <2>3. ASSUME NEW i \in Invocation, NEW settled \in BOOLEAN,
               \/ claimDueAbandon(i, settled)
               \/ claimDueExhaust(i, settled)
        PROVE  SnapshotFresh'
    <3>1. \A j \in Invocation \ {i} : invocations'[j] = invocations[j]
      BY <2>3 DEF claimDueAbandon, claimDueExhaust, FinishAsFailed,
         MarkTerminalFailure, FinishedRows, TypeOK
    <3> QED BY <1>2, <2>2, <2>3, <3>1 DEF claimDueAbandon, claimDueExhaust
  <2>4. ASSUME NEW i \in Invocation, claimDueSkip(i)
        PROVE  SnapshotFresh'
    BY <1>2, <2>2, <2>4 DEF claimDueSkip
  <2>5. ASSUME NEW i \in Invocation, claimDueReclaim(i)
        PROVE  SnapshotFresh'
    <3>1. claim'.todo = claim.todo \ {i}
      BY <2>5, OpenClaim DEF claimDueReclaim, InClaim, TypeOK
    <3> QED BY <1>2, <2>5, <3>1, ReclaimType
  <2>6. ASSUME NEW i \in Invocation, NEW s \in Schedule, NEW next \in Slot,
               claimDueSchedule(s, i, next)
        PROVE  SnapshotFresh'
    <3>1. claim'.todo = {}
      BY <2>6, OpenClaim DEF claimDueSchedule, TypeOK
    <3> QED BY <3>1 DEF SnapshotFresh
  <2>7. CASE commitClaimDue
    BY <2>7 DEF commitClaimDue, NoClaim, SnapshotFresh
  <2> QED BY <1>9, <2>1, <2>3, <2>4, <2>5, <2>6, <2>7 DEF ClaimDueStep
<1> QED BY <1>3, <1>4, <1>5, <1>6, <1>7, <1>8, <1>9 DEF Next

-----------------------------------------------------------------------------
(* One active run per schedule                                              *)

\* A step that makes no run active cannot break the singleton.
LEMMA KeptSingle ==
    ASSUME TypeOK, SingleActiveRun, RunsKept
    PROVE  SingleActiveRun'
<1> SUFFICES ASSUME NEW i \in Invocation, NEW j \in Invocation,
                    Active(i)', Active(j)',
                    invocations'[i].scheduleId = invocations'[j].scheduleId
             PROVE  i = j
  BY DEF SingleActiveRun
<1>1. Exists(i)' /\ Exists(j)'
  BY Disjoint DEF Active, Exists
<1> QED BY <1>1 DEF RunsKept, SingleActiveRun

\* A step that makes run i active keeps the singleton if no other run of its
\* schedule is active.
LEMMA ClaimSingle ==
    ASSUME TypeOK, SingleActiveRun, NEW i \in Invocation,
           \A j \in Invocation \ {i} : invocations'[j] = invocations[j],
           \A j \in Invocation \ {i} :
              invocations[j].scheduleId = invocations'[i].scheduleId => ~Active(j)
    PROVE  SingleActiveRun'
BY DEF SingleActiveRun, Active

\* No step gives a schedule a second active run.
LEMMA SingleStep ==
    ASSUME TypeOK, SnapshotFresh, SingleActiveRun, [Next]_vars
    PROVE  SingleActiveRun'
<1>1. ASSUME NEW i \in Invocation, ~HasOtherLiveRun(invocations[i].scheduleId, i)
      PROVE  \A j \in Invocation \ {i} :
                invocations[j].scheduleId = invocations[i].scheduleId => ~Active(j)
  BY <1>1 DEF HasOtherLiveRun, RunsOf, Occupying
<1>2. CASE ManualStep
  <2>1. ASSUME NEW i \in Invocation, NEW w \in Worker,
               claimPendingInvocation(i, w)
        PROVE  SingleActiveRun'
    <3>1. /\ invocations'[i].scheduleId = invocations[i].scheduleId
          /\ \A j \in Invocation \ {i} : invocations'[j] = invocations[j]
      BY <2>1 DEF claimPendingInvocation, ClaimedBy, TypeOK, InvocationRow
    <3> QED BY <1>1, <2>1, <3>1, ClaimSingle DEF claimPendingInvocation
  <2>2. ASSUME NEW i \in Invocation, NEW s \in Schedule,
               NEW n \in {1, RetryBudget}, enqueueManualInvocation(s, i, n)
        PROVE  SingleActiveRun'
    <3>1. \A j \in Invocation : Active(j)' => j # i /\ Active(j)
                              /\ invocations'[j] = invocations[j]
      BY <2>2 DEF enqueueManualInvocation, Active, ActiveStatuses, TypeOK,
         InvocationRow, UnusedInvocation
    <3> QED BY <3>1 DEF SingleActiveRun
  <2>3. ASSUME NEW i \in Invocation, discardPendingInvocation(i)
        PROVE  SingleActiveRun'
    <3>1. \A j \in Invocation : Active(j)' => j # i /\ Active(j)
                              /\ invocations'[j] = invocations[j]
      BY <2>3 DEF discardPendingInvocation, Active, ActiveStatuses, TypeOK,
         InvocationRow, DeletedInvocation, UnusedInvocation
    <3> QED BY <3>1 DEF SingleActiveRun
  <2> QED BY <1>2, <2>1, <2>2, <2>3 DEF ManualStep
<1>3. CASE ClaimDueStep
  <2>1. CASE ClaimDueQuiet
    BY <2>1, ClaimDueQuietType, KeptSingle
  <2>2. ASSUME NEW i \in Invocation, claimDueReclaim(i)
        PROVE  SingleActiveRun'
    <3>1. \A j \in Invocation \ {i} :
             invocations[j].scheduleId = invocations[i].scheduleId => ~Active(j)
      BY <1>1, <2>2 DEF claimDueReclaim
    <3> QED BY <2>2, <3>1, ReclaimType, ClaimSingle
  <2>3. ASSUME NEW i \in Invocation, NEW s \in Schedule, NEW next \in Slot,
               claimDueSchedule(s, i, next)
        PROVE  SingleActiveRun'
    <3>1. CASE invocations' = invocations
      BY <3>1 DEF SingleActiveRun, Active
    <3>2. CASE /\ NewRun(i)
               /\ invocations'[i].scheduleId = s
               /\ \A j \in RunsOf(s) : ~Live(j)
      <4>1. \A j \in Invocation \ {i} :
               invocations[j].scheduleId = invocations'[i].scheduleId => ~Active(j)
        BY <3>2, Disjoint DEF RunsOf, Live, Active
      <4> QED BY <3>2, <4>1, ClaimSingle DEF NewRun
    <3> QED BY <2>3, <3>1, <3>2, StartRoundType
  <2> QED BY <1>3, <2>1, <2>2, <2>3 DEF ClaimDueStep, ClaimDueQuiet
<1>4. CASE ScheduleStep
  BY <1>4, ScheduleStepType, KeptSingle
<1>5. CASE RunStep
  BY <1>5, RunStepType, KeptSingle
<1>6. CASE CancelStep
  BY <1>6, CancelStepType, KeptSingle
<1>7. CASE ClockStep
  BY <1>7, ClockStepType, KeptSingle
<1>8. CASE UNCHANGED vars
  BY <1>8 DEF vars, SingleActiveRun, Active
<1> QED BY <1>2, <1>3, <1>4, <1>5, <1>6, <1>7, <1>8 DEF Next

\* Every step keeps the types.
LEMMA TypeStep ==
    ASSUME TypeOK, SnapshotFresh, [Next]_vars
    PROVE  TypeOK'
<1>1. CASE ClaimDueStep
  BY <1>1, ClaimDueQuietType, ReclaimType, StartRoundType
     DEF ClaimDueStep, ClaimDueQuiet
<1>2. CASE UNCHANGED vars
  BY <1>2 DEF vars, TypeOK, Exists
<1> QED BY <1>1, <1>2, ScheduleStepType, ManualStepType, RunStepType,
           CancelStepType, ClockStepType DEF Next

-----------------------------------------------------------------------------

\* The empty ledger satisfies the invariant.
LEMMA InitOK == Init => TypeOK /\ SnapshotFresh /\ SingleActiveRun
<1> SUFFICES ASSUME Init
             PROVE  TypeOK /\ SnapshotFresh /\ SingleActiveRun
  OBVIOUS
<1>1. UnusedSchedule \in ScheduleRow
  BY DEF UnusedSchedule, ScheduleRow, NoRow, Unlimited
<1>2. \A i \in Invocation : invocations[i].status = "unused"
  BY DEF Init, UnusedInvocation
<1>3. TypeOK
  BY <1>1, <1>2, UnusedType DEF Init, TypeOK, Claim, Exists, NoRow
<1>4. SnapshotFresh
  BY DEF Init, SnapshotFresh, NoClaim
<1>5. SingleActiveRun
  BY <1>2 DEF SingleActiveRun, Active, ActiveStatuses
<1> QED BY <1>3, <1>4, <1>5

\* The tables are always well typed, whatever sequence of store operations,
\* probes and clock steps runs against them.
THEOREM TypeCorrect == Spec => []TypeOK
<1>1. Init => TypeOK /\ SnapshotFresh
  BY InitOK
<1>2. TypeOK /\ SnapshotFresh /\ [Next]_vars => (TypeOK /\ SnapshotFresh)'
  BY TypeStep, SnapshotStep
<1> QED BY <1>1, <1>2, PTL DEF Spec

\* claimDue's rows are never stale inside its transaction.
THEOREM SnapshotNeverStale == Spec => []SnapshotFresh
<1>1. Init => TypeOK /\ SnapshotFresh
  BY InitOK
<1>2. TypeOK /\ SnapshotFresh /\ [Next]_vars => (TypeOK /\ SnapshotFresh)'
  BY TypeStep, SnapshotStep
<1> QED BY <1>1, <1>2, PTL DEF Spec

\* A schedule never has two runs claimed or running, for any number of workers,
\* runs and attempts, and with no assumption on leases, clocks or probes.
THEOREM OneActiveRun == Spec => []SingleActiveRun
<1> DEFINE IInv == TypeOK /\ SnapshotFresh /\ SingleActiveRun
<1>1. Init => IInv
  BY InitOK
<1>2. IInv /\ [Next]_vars => IInv'
  BY TypeStep, SnapshotStep, SingleStep
<1> QED BY <1>1, <1>2, PTL DEF Spec

-----------------------------------------------------------------------------
(* The ledger implements a fencing lock per schedule                        *)

\* Two states in which the same runs of schedule s are active, under the same
\* tokens, show the same owner of s.
LEMMA SameOwners ==
    ASSUME NEW s \in Schedule,
           \A j \in Invocation :
              /\ j \in RunsOf(s)' /\ Active(j)' <=> j \in RunsOf(s) /\ Active(j)
              /\ j \in RunsOf(s) /\ Active(j) =>
                   invocations'[j].ownershipToken = invocations[j].ownershipToken
    PROVE  Owners'[s] = Owners[s]
<1>1. ASSUME NEW o
      PROVE  o \in Owners[s] <=>
               \E j \in Invocation :
                  /\ j \in RunsOf(s) /\ Active(j)
                  /\ o = <<j, invocations[j].ownershipToken>>
  BY DEF Owners, RunsOf
<1>2. ASSUME NEW o
      PROVE  o \in Owners'[s] <=>
               \E j \in Invocation :
                  /\ j \in RunsOf(s)' /\ Active(j)'
                  /\ o = <<j, invocations'[j].ownershipToken>>
  BY DEF Owners, RunsOf
<1>3. \A o : o \in Owners'[s] <=> o \in Owners[s]
  BY <1>1, <1>2
<1> QED BY <1>3

\* A step that makes no run active and keeps the tokens of the active ones
\* releases some schedules.
LEMMA KeptReleases ==
    ASSUME TypeOK, SingleActiveRun, RunsKept, issued' = issued
    PROVE  \E S \in SUBSET Schedule : Runs!Release(S)
<1> DEFINE S == {s \in Schedule : Owners'[s] = {}}
<1>1. ASSUME NEW s \in Schedule, s \notin S
      PROVE  Owners'[s] = Owners[s]
  <2>1. ASSUME NEW i \in Invocation, Active(i)',
               invocations'[i].scheduleId = s
        PROVE  /\ Active(i) /\ invocations[i].scheduleId = s
               /\ invocations'[i].ownershipToken = invocations[i].ownershipToken
    <3>1. Exists(i)'
      BY <2>1, Disjoint DEF Active, Exists
    <3> QED BY <2>1, <3>1 DEF RunsKept
  <2>2. PICK i \in Invocation : Active(i)' /\ invocations'[i].scheduleId = s
    BY <1>1 DEF Owners, RunsOf, Active
  <2>3. \A j \in Invocation :
           Active(j) /\ invocations[j].scheduleId = s => j = i
    BY <2>1, <2>2 DEF SingleActiveRun
  <2>4. Owners[s] = {<<i, invocations[i].ownershipToken>>}
    BY <2>1, <2>2, <2>3 DEF Owners, RunsOf
  <2>5. Owners'[s] = {<<i, invocations'[i].ownershipToken>>}
    BY <2>1, <2>2, <2>3 DEF Owners, RunsOf, Active
  <2> QED BY <2>1, <2>2, <2>4, <2>5
<1>2. Owners' = [s \in Schedule |-> Owners'[s]]
  BY DEF Owners
<1>3. Owners' = [s \in Schedule |-> IF s \in S THEN {} ELSE Owners[s]]
  BY <1>1, <1>2
<1>4. S \in SUBSET Schedule
  OBVIOUS
<1> HIDE DEF S
<1> QED BY <1>3, <1>4 DEF Runs!Release

\* A step that claims run i, of a schedule in which no other run is active, is a
\* grant.
LEMMA ClaimGrants ==
    ASSUME TypeOK, NEW s \in Schedule, NEW i \in Invocation,
           Exists(i) => invocations[i].scheduleId = s,
           invocations'[i].scheduleId = s,
           invocations'[i].ownershipToken = issued + 1,
           Active(i)', issued' = issued + 1,
           \A j \in Invocation \ {i} : invocations'[j] = invocations[j],
           \A j \in Invocation \ {i} :
              invocations[j].scheduleId = s => ~Active(j)
    PROVE  Runs!Grant(s, i)
<1>1. \A o \in Owners[s] : o[1] = i
  BY DEF Owners, RunsOf
<1>2. \A j \in Invocation : j \in RunsOf(s)' /\ Active(j)' <=> j = i
  BY DEF RunsOf, Active
<1>3. Owners'[s] = {<<i, issued + 1>>}
  <2>1. ASSUME NEW o
        PROVE  o \in Owners'[s] <=>
                 \E j \in Invocation :
                    /\ j \in RunsOf(s)' /\ Active(j)'
                    /\ o = <<j, invocations'[j].ownershipToken>>
    BY DEF Owners, RunsOf
  <2>2. \A o : o \in Owners'[s] <=> o = <<i, issued + 1>>
    BY <1>2, <2>1
  <2> QED BY <2>2
<1>4. ASSUME NEW q \in Schedule \ {s}
      PROVE  Owners'[q] = Owners[q]
  <2>1. ~(Active(i) /\ invocations[i].scheduleId = q)
    BY <1>4, Disjoint DEF Active, Exists
  <2>2. \A j \in Invocation :
          /\ j \in RunsOf(q)' /\ Active(j)' <=> j \in RunsOf(q) /\ Active(j)
          /\ j \in RunsOf(q) /\ Active(j) =>
               invocations'[j].ownershipToken = invocations[j].ownershipToken
    BY <1>4, <2>1 DEF RunsOf, Active
  <2> QED BY <2>2, SameOwners
<1>5. Owners' = [Owners EXCEPT ![s] = {<<i, issued + 1>>}]
  BY <1>3, <1>4 DEF Owners
<1> QED BY <1>1, <1>5 DEF Runs!Grant

\* Every step of the ledger is a grant, a release, or no step of the fenced runs.
LEMMA RefinementStep ==
    ASSUME TypeOK, SnapshotFresh, SingleActiveRun, [Next]_vars
    PROVE  [Runs!Next]_(Runs!vars)
<1>1. ASSUME RunsKept, issued' = issued
      PROVE  [Runs!Next]_(Runs!vars)
  BY <1>1, KeptReleases DEF Runs!Next
<1>2. ASSUME NEW i \in Invocation, ~HasOtherLiveRun(invocations[i].scheduleId, i)
      PROVE  \A j \in Invocation \ {i} :
                invocations[j].scheduleId = invocations[i].scheduleId => ~Active(j)
  BY <1>2 DEF HasOtherLiveRun, RunsOf, Occupying
<1>3. CASE ManualStep
  <2>1. ASSUME NEW i \in Invocation, NEW w \in Worker,
               claimPendingInvocation(i, w)
        PROVE  [Runs!Next]_(Runs!vars)
    <3>1. Exists(i) /\ invocations[i].scheduleId \in Schedule
      BY <2>1, Disjoint DEF claimPendingInvocation, Exists, TypeOK, NoRow
    <3>2. /\ invocations'[i].scheduleId = invocations[i].scheduleId
          /\ invocations'[i].ownershipToken = issued + 1
          /\ Active(i)'
          /\ \A j \in Invocation \ {i} : invocations'[j] = invocations[j]
      BY <2>1 DEF claimPendingInvocation, ClaimedBy, TypeOK, InvocationRow,
         Active, ActiveStatuses
    <3>3. Runs!Grant(invocations[i].scheduleId, i)
      BY <1>2, <2>1, <3>1, <3>2, ClaimGrants DEF claimPendingInvocation
    <3> QED BY <3>1, <3>3 DEF Runs!Next
  <2>2. ASSUME NEW i \in Invocation,
               \/ \E s \in Schedule, n \in {1, RetryBudget} :
                     enqueueManualInvocation(s, i, n)
               \/ discardPendingInvocation(i)
        PROVE  [Runs!Next]_(Runs!vars)
    <3>1. /\ ~Active(i) /\ ~Active(i)'
          /\ \A j \in Invocation \ {i} : invocations'[j] = invocations[j]
          /\ issued' = issued
      BY <2>2, ZenonT(40) DEF enqueueManualInvocation, discardPendingInvocation, TypeOK,
         InvocationRow, UnusedInvocation, DeletedInvocation, UnusedIds, Active,
         ActiveStatuses
    <3>2. \A s \in Schedule, j \in Invocation :
            /\ j \in RunsOf(s)' /\ Active(j)' <=> j \in RunsOf(s) /\ Active(j)
            /\ j \in RunsOf(s) /\ Active(j) =>
                 invocations'[j].ownershipToken = invocations[j].ownershipToken
      BY <3>1 DEF RunsOf, Active
    <3>3. \A s \in Schedule : Owners'[s] = Owners[s]
      BY <3>2, SameOwners
    <3>4. Owners' = Owners
      BY <3>3 DEF Owners
    <3> QED BY <3>1, <3>4 DEF Runs!vars
  <2> QED BY <1>3, <2>1, <2>2 DEF ManualStep
<1>4. CASE ClaimDueStep
  <2>1. CASE ClaimDueQuiet
    <3>1. issued' = issued
      BY <2>1 DEF ClaimDueQuiet, beginClaimDue, claimDueAbandon, claimDueSkip,
         claimDueExhaust, commitClaimDue
    <3> QED BY <1>1, <2>1, <3>1, ClaimDueQuietType
  <2>2. ASSUME NEW i \in Invocation, claimDueReclaim(i)
        PROVE  [Runs!Next]_(Runs!vars)
    <3>1. Exists(i) /\ invocations[i].scheduleId \in Schedule
      BY <2>2, ReclaimType DEF TypeOK
    <3>2. /\ invocations'[i].scheduleId = invocations[i].scheduleId
          /\ \A j \in Invocation \ {i} : invocations'[j] = invocations[j]
      BY <2>2, ReclaimType
    <3>3. invocations'[i].ownershipToken = issued + 1 /\ Active(i)'
      BY <2>2 DEF claimDueReclaim, ClaimedBy, TypeOK, InvocationRow, Active,
         ActiveStatuses
    <3>4. Runs!Grant(invocations[i].scheduleId, i)
      BY <1>2, <2>2, <3>1, <3>2, <3>3, ClaimGrants DEF claimDueReclaim
    <3> QED BY <3>1, <3>4 DEF Runs!Next
  <2>3. ASSUME NEW i \in Invocation, NEW s \in Schedule, NEW next \in Slot,
               claimDueSchedule(s, i, next)
        PROVE  [Runs!Next]_(Runs!vars)
    <3>1. CASE SlotTaken(s)
      <4>1. UNCHANGED <<invocations, issued>>
        BY <2>3, <3>1 DEF claimDueSchedule
      <4>2. Owners' = Owners
        BY <4>1 DEF Owners, RunsOf, Active
      <4> QED BY <4>1, <4>2 DEF Runs!vars
    <3>2. CASE ~SlotTaken(s)
      <4>1. /\ invocations'[i].scheduleId = s
            /\ invocations'[i].ownershipToken = issued + 1
            /\ Active(i)' /\ issued' = issued + 1
            /\ \A j \in Invocation \ {i} : invocations'[j] = invocations[j]
        <5> DEFINE new == [UnusedInvocation EXCEPT
                             !.scheduleId = s, !.mode = "scheduled",
                             !.scheduledFor = schedules[s].nextRunAt,
                             !.maxAttempts = RetryBudget]
                   row == ClaimedBy(new, claim.worker, 1)
        <5>1. /\ row.scheduleId = s /\ row.status = "claimed"
              /\ row.ownershipToken = issued + 1
          BY DEF ClaimedBy, UnusedInvocation
        <5>2. /\ invocations' = [invocations EXCEPT ![i] = row]
              /\ issued' = issued + 1
          BY <2>3, <3>2 DEF claimDueSchedule
        <5> HIDE DEF row
        <5> QED BY <5>1, <5>2 DEF TypeOK, Active, ActiveStatuses
      <4>2. \A j \in Invocation : invocations[j].scheduleId = s => ~Active(j)
        BY <2>3, Disjoint DEF claimDueSchedule, DueNow, RunsOf, Live, Active
      <4>3. ~Exists(i)
        BY <2>3 DEF claimDueSchedule, UnusedIds, Exists, NoRow
      <4> QED BY <4>1, <4>2, <4>3, ClaimGrants DEF Runs!Next
    <3> QED BY <3>1, <3>2
  <2> QED BY <1>4, <2>1, <2>2, <2>3 DEF ClaimDueStep, ClaimDueQuiet
<1>5. CASE ScheduleStep
  <2>1. issued' = issued
    BY <1>5 DEF ScheduleStep, createSchedule, resumeSchedule, pauseSchedule,
       extendSchedule, removeSchedule
  <2> QED BY <1>1, <1>5, <2>1, ScheduleStepType
<1>6. CASE RunStep
  <2>1. issued' = issued
    BY <1>6 DEF RunStep, beginInvocation, renewLease, recordInvocationTree,
       completeInvocation, failInvocation, reclassifyTimedOutInvocation,
       prepareWorkerShutdown
  <2> QED BY <1>1, <1>6, <2>1, RunStepType
<1>7. CASE CancelStep
  <2>1. issued' = issued
    BY <1>7 DEF CancelStep, cancelInvocation, finalizeCancellation,
       pruneInvocations
  <2> QED BY <1>1, <1>7, <2>1, CancelStepType
<1>8. CASE ClockStep
  <2>1. issued' = issued
    BY <1>8 DEF ClockStep, leaseExpires, retryFallsDue, nextRunFallsDue
  <2> QED BY <1>1, <1>8, <2>1, ClockStepType
<1>9. CASE UNCHANGED vars
  BY <1>9 DEF vars, Runs!vars, Owners, RunsOf, Active
<1> QED BY <1>3, <1>4, <1>5, <1>6, <1>7, <1>8, <1>9 DEF Next

\* Every behaviour of the ledger is one of a fencing lock per schedule.
THEOREM LedgerImplementsFencedRuns == Spec => ImplementsFencedRuns
<1> DEFINE IInv == TypeOK /\ SnapshotFresh /\ SingleActiveRun
<1>1. Init => IInv
  BY InitOK
<1>2. IInv /\ [Next]_vars => IInv'
  BY TypeStep, SnapshotStep, SingleStep
<1>3. Init => Runs!Init
  BY DEF Init, Runs!Init, Owners, RunsOf, Active, ActiveStatuses,
     UnusedInvocation
<1>4. IInv /\ [Next]_vars => [Runs!Next]_(Runs!vars)
  BY RefinementStep
<1> QED BY <1>1, <1>2, <1>3, <1>4, PTL
        DEF Spec, ImplementsFencedRuns, Runs!Spec

-----------------------------------------------------------------------------
(* The inductive invariant of the rows and of the accounts                  *)

\* One row of the invocations table, whatever the others are: its ownership
\* columns say what its status says, its attempts are within its budget, and
\* what has to be known of it before it may be claimed.
RowFine(row) ==
    /\ row.status \in ActiveStatuses <=> row.ownershipToken # NoToken
    /\ row.status \in ActiveStatuses <=> row.claimedBy # None
    /\ row.status \in ActiveStatuses <=> row.leaseUntil # "null"
    /\ row.status = "retry" <=> row.retryAt # "null"
    /\ row.treeUnsettled => row.status \in ActiveStatuses \cup {"retry"}
    /\ row.attempt <= row.maxAttempts
    /\ row.status \in ActiveStatuses => row.attempt > 0
    /\ row.status = "retry" => row.attempt < row.maxAttempts
    /\ row.status = "pending" =>
         row.attempt = 0 /\ row.maxAttempts > 0 /\ row.mode = "manual"
    /\ row.status \in NoRow => row.attempt = 0
    /\ row.status = "unused" => row.scheduleId = None /\ row.mode = "manual"

Rows == \A i \in Invocation : RowFine(invocations[i])

\* No token is ahead of the counter and no two active runs share one.
Tokens ==
    /\ \A i \in Invocation : invocations[i].ownershipToken <= issued
    /\ \A i, j \in Invocation :
         /\ Active(i) /\ Active(j)
         /\ invocations[i].ownershipToken = invocations[j].ownershipToken
         => i = j

\* A run belongs to a schedule that was created; while the run is there, so is
\* its schedule (the foreign key of the invocations table).
Parents ==
    \A i \in Invocation : invocations[i].scheduleId \in Schedule =>
        /\ schedules[invocations[i].scheduleId].status # "unused"
        /\ Exists(i) => Present(invocations[i].scheduleId)

\* Status, trigger and quota of one schedule agree with each other and with its
\* runs in the table `invs`.
Account(sch, s, invs) ==
    /\ sch.status = "completed" <=>
         Exhausted(sch) /\ ~\E i \in Invocation : Unsettled(invs[i], s)
    /\ sch.nextRunAt = None <=> Exhausted(sch)
    /\ sch.maxRounds # Unlimited => sch.roundsStarted <= sch.maxRounds

Accounts ==
    \A s \in Schedule : Present(s) => Account(schedules[s], s, invocations)

\* The scheduled runs schedule s ever had, those deleted since included.
Rounds(s) == {i \in RunsOf(s) : invocations[i].mode = "scheduled"}

Counts ==
    \A s \in Schedule :
        /\ IsFiniteSet(Rounds(s))
        /\ Present(s) => schedules[s].roundsStarted = Cardinality(Rounds(s))

\* The quota an extension ends at.
End(q) == extensions[q].expectedMaxRounds + extensions[q].additionalRounds

\* An extension is one of a finite schedule that is there, at most at its quota
\* and begun when the rounds before it were used up; one extension of the
\* schedule ends at its quota.
Founded(r) ==
    LET sch == schedules[extensions[r].scheduleId] IN
    /\ sch.status \in ScheduleStatuses
    /\ sch.maxRounds # Unlimited
    /\ End(r) <= sch.maxRounds
    /\ extensions[r].expectedMaxRounds <= sch.roundsStarted
    /\ \E q \in Request :
         /\ extensions[q].scheduleId = extensions[r].scheduleId
         /\ End(q) = sch.maxRounds

\* The extensions of a schedule are founded, and no two of them overlap.
Chain ==
    /\ \A r \in Request : extensions[r] # NoExtension => Founded(r)
    /\ \A q, r \in Request :
         /\ q # r /\ extensions[r] # NoExtension
         /\ extensions[q].scheduleId = extensions[r].scheduleId
         => \/ End(q) <= extensions[r].expectedMaxRounds
            \/ End(r) <= extensions[q].expectedMaxRounds

Books == Rows /\ Tokens /\ Parents /\ Accounts /\ Counts /\ Chain

Inv == TypeOK /\ SnapshotFresh /\ Books

\* What a step that claims nothing may do to a row: leave another fine row of
\* the same schedule and kind, of the same attempt if a row is left at all, and
\* active only if it was active under the same token.
Follows(row, new) ==
    /\ new \in InvocationRow /\ RowFine(new)
    /\ new.scheduleId = row.scheduleId /\ new.mode = row.mode
    /\ new.status \notin NoRow =>
         row.status \notin NoRow /\ new.attempt = row.attempt
    /\ new.status \in ActiveStatuses =>
         /\ row.status \in ActiveStatuses
         /\ new.ownershipToken = row.ownershipToken
    /\ new.status = "unused" => row.status = "unused"

\* A row that is not touched follows itself.
LEMMA SameFollows ==
    ASSUME NEW row \in InvocationRow, RowFine(row)
    PROVE  Follows(row, row)
BY DEF Follows

\* The columns of a row after a terminal write.
LEMMA ClearedParts ==
    ASSUME NEW row \in InvocationRow, NEW status \in TerminalStatuses
    PROVE  /\ Cleared(row, status).status = status
           /\ Cleared(row, status).scheduleId = row.scheduleId
           /\ Cleared(row, status).mode = row.mode
           /\ Cleared(row, status).ownershipToken = NoToken
           /\ Cleared(row, status).claimedBy = None
           /\ Cleared(row, status).leaseUntil = "null"
           /\ Cleared(row, status).retryAt = "null"
           /\ Cleared(row, status).treeUnsettled = FALSE
           /\ Cleared(row, status).attempt = row.attempt
           /\ Cleared(row, status).maxAttempts = row.maxAttempts
BY DEF Cleared, InvocationRow

\* The kinds of status, one by one.
LEMMA Kinds ==
    /\ \A x \in TerminalStatuses :
          /\ x \notin ActiveStatuses /\ x \notin NoRow /\ x \notin LiveStatuses
          /\ x # "retry" /\ x # "pending" /\ x # "unused"
    /\ \A x \in ActiveStatuses :
          /\ x \notin NoRow /\ x \in LiveStatuses
          /\ x # "retry" /\ x # "pending" /\ x # "unused"
    /\ \A x \in NoRow : x \notin LiveStatuses /\ x # "retry" /\ x # "pending"
    /\ {"retry", "pending"} \subseteq LiveStatuses
    /\ LiveStatuses = ActiveStatuses \cup {"retry", "pending"}
    /\ "failed" \in TerminalStatuses /\ ResultStatuses \subseteq TerminalStatuses
BY DEF TerminalStatuses, ResultStatuses, ActiveStatuses, LiveStatuses, NoRow

\* A terminal write of a row that is there.
LEMMA ClearedFollows ==
    ASSUME NEW row \in InvocationRow, RowFine(row), row.status \notin NoRow,
           NEW status \in TerminalStatuses
    PROVE  Follows(row, Cleared(row, status))
<1> DEFINE new == Cleared(row, status)
<1>1. new \in InvocationRow
  BY ClearedType
<1>2. /\ new.status = status /\ new.scheduleId = row.scheduleId
      /\ new.mode = row.mode /\ new.ownershipToken = NoToken
      /\ new.claimedBy = None /\ new.leaseUntil = "null"
      /\ new.retryAt = "null" /\ new.treeUnsettled = FALSE
      /\ new.attempt = row.attempt /\ new.maxAttempts = row.maxAttempts
  BY ClearedParts
<1> HIDE DEF new
<1>3. RowFine(new)
  BY <1>2, Kinds DEF RowFine
<1>4. Follows(row, new)
  BY <1>1, <1>2, <1>3, Kinds DEF Follows
<1> QED BY <1>4 DEF new

\* What is left of a deleted row.
LEMMA DeletedFollows ==
    ASSUME NEW row \in InvocationRow
    PROVE  /\ Follows(row, DeletedInvocation(row))
           /\ DeletedInvocation(row).status = "deleted"
<1> DEFINE new == DeletedInvocation(row)
<1>1. new \in InvocationRow
  BY DeletedType
<1>2. /\ new.status = "deleted" /\ new.scheduleId = row.scheduleId
      /\ new.mode = row.mode /\ new.ownershipToken = NoToken
      /\ new.claimedBy = None /\ new.leaseUntil = "null"
      /\ new.retryAt = "null" /\ new.treeUnsettled = FALSE
      /\ new.attempt = 0 /\ new.maxAttempts = 0
  BY DEF DeletedInvocation, UnusedInvocation
<1> HIDE DEF new
<1>3. RowFine(new)
  BY <1>2 DEF RowFine, ActiveStatuses, NoRow
<1>4. Follows(row, new)
  BY <1>1, <1>2, <1>3 DEF Follows, ActiveStatuses, NoRow
<1> QED BY <1>2, <1>4 DEF new

\* The row of an attempt that failed with attempts left.
LEMMA RetryingFollows ==
    ASSUME NEW row \in InvocationRow, RowFine(row), row.status \notin NoRow,
           row.attempt < row.maxAttempts
    PROVE  Follows(row, Retrying(row)) /\ Retrying(row).status = "retry"
<1> DEFINE new == Retrying(row)
<1>1. new \in InvocationRow
  BY RetryingType
<1>2. /\ new.status = "retry" /\ new.scheduleId = row.scheduleId
      /\ new.mode = row.mode /\ new.ownershipToken = NoToken
      /\ new.claimedBy = None /\ new.leaseUntil = "null"
      /\ new.retryAt = "future" /\ new.attempt = row.attempt
      /\ new.maxAttempts = row.maxAttempts
  BY DEF Retrying, InvocationRow
<1> HIDE DEF new
<1>3. RowFine(new)
  BY <1>2 DEF RowFine, ActiveStatuses, NoRow
<1>4. Follows(row, new)
  BY <1>1, <1>2, <1>3 DEF Follows, ActiveStatuses, NoRow
<1> QED BY <1>2, <1>4 DEF new

\* A lease written to a row that is active.
LEMMA LeasedFollows ==
    ASSUME NEW row \in InvocationRow, RowFine(row),
           row.status \in ActiveStatuses, NEW at \in {"future", "past"}
    PROVE  /\ Follows(row, [row EXCEPT !.leaseUntil = at])
           /\ [row EXCEPT !.leaseUntil = at].status = row.status
<1> DEFINE new == [row EXCEPT !.leaseUntil = at]
<1>1. new \in InvocationRow
  BY DEF InvocationRow
<1>2. /\ new.status = row.status /\ new.scheduleId = row.scheduleId
      /\ new.mode = row.mode /\ new.ownershipToken = row.ownershipToken
      /\ new.claimedBy = row.claimedBy /\ new.leaseUntil = at
      /\ new.retryAt = row.retryAt /\ new.attempt = row.attempt
      /\ new.maxAttempts = row.maxAttempts
      /\ new.treeUnsettled = row.treeUnsettled
  BY DEF InvocationRow
<1> HIDE DEF new
<1>3. RowFine(new)
  BY <1>2 DEF RowFine
<1>4. Follows(row, new)
  BY <1>1, <1>2, <1>3 DEF Follows
<1> QED BY <1>2, <1>4 DEF new

\* A retry instant written to a row that waits for its retry.
LEMMA DelayedFollows ==
    ASSUME NEW row \in InvocationRow, RowFine(row),
           row.status = "retry", NEW at \in {"future", "past"}
    PROVE  /\ Follows(row, [row EXCEPT !.retryAt = at])
           /\ [row EXCEPT !.retryAt = at].status = row.status
<1> DEFINE new == [row EXCEPT !.retryAt = at]
<1>1. new \in InvocationRow
  BY DEF InvocationRow
<1>2. /\ new.status = row.status /\ new.scheduleId = row.scheduleId
      /\ new.mode = row.mode /\ new.ownershipToken = row.ownershipToken
      /\ new.claimedBy = row.claimedBy /\ new.leaseUntil = row.leaseUntil
      /\ new.retryAt = at /\ new.attempt = row.attempt
      /\ new.maxAttempts = row.maxAttempts
      /\ new.treeUnsettled = row.treeUnsettled
  BY DEF InvocationRow
<1> HIDE DEF new
<1>3. RowFine(new)
  BY <1>2 DEF RowFine
<1>4. Follows(row, new)
  BY <1>1, <1>2, <1>3 DEF Follows
<1> QED BY <1>2, <1>4 DEF new

\* A row put off because its tree blocks: active, or waiting for its retry.
LEMMA DeferredFollows ==
    ASSUME NEW row \in InvocationRow, RowFine(row), row.treeUnsettled
    PROVE  Follows(row, Deferred(row)) /\ Deferred(row).status = row.status
<1>1. CASE row.status = "retry"
  BY <1>1, DelayedFollows DEF Deferred
<1>2. CASE row.status # "retry"
  <2>1. row.status \in ActiveStatuses
    BY <1>2 DEF RowFine
  <2> QED BY <1>2, <2>1, LeasedFollows DEF Deferred
<1> QED BY <1>1, <1>2

\* Evidence about the process tree of a run that is active or waits for its
\* retry.
LEMMA TreeFollows ==
    ASSUME NEW row \in InvocationRow, RowFine(row),
           row.status \in ActiveStatuses \cup {"retry"}, NEW u \in BOOLEAN
    PROVE  /\ Follows(row, [row EXCEPT !.treeUnsettled = u])
           /\ [row EXCEPT !.treeUnsettled = u].status = row.status
<1> DEFINE new == [row EXCEPT !.treeUnsettled = u]
<1>1. new \in InvocationRow
  BY DEF InvocationRow
<1>2. /\ new.status = row.status /\ new.scheduleId = row.scheduleId
      /\ new.mode = row.mode /\ new.ownershipToken = row.ownershipToken
      /\ new.claimedBy = row.claimedBy /\ new.leaseUntil = row.leaseUntil
      /\ new.retryAt = row.retryAt /\ new.attempt = row.attempt
      /\ new.maxAttempts = row.maxAttempts
  BY DEF InvocationRow
<1> HIDE DEF new
<1>3. RowFine(new)
  BY <1>2 DEF RowFine
<1>4. Follows(row, new)
  BY <1>1, <1>2, <1>3, Kinds DEF Follows
<1> QED BY <1>2, <1>4 DEF new

\* A run its executor begins.
LEMMA BegunFollows ==
    ASSUME NEW row \in InvocationRow, RowFine(row), row.status = "claimed",
           NEW e \in Executor \cup {None}
    PROVE  LET new == [row EXCEPT !.status = "running",
                          !.leaseUntil = "future", !.executor = e]
           IN  Follows(row, new) /\ new.status = "running"
<1> DEFINE new == [row EXCEPT !.status = "running",
                      !.leaseUntil = "future", !.executor = e]
<1>1. new \in InvocationRow
  BY DEF InvocationRow, LiveStatuses, ActiveStatuses
<1>2. /\ new.status = "running" /\ new.scheduleId = row.scheduleId
      /\ new.mode = row.mode /\ new.ownershipToken = row.ownershipToken
      /\ new.claimedBy = row.claimedBy /\ new.leaseUntil = "future"
      /\ new.retryAt = row.retryAt /\ new.attempt = row.attempt
      /\ new.maxAttempts = row.maxAttempts
      /\ new.treeUnsettled = row.treeUnsettled
  BY DEF InvocationRow
<1> HIDE DEF new
<1>3. RowFine(new)
  BY <1>2 DEF RowFine, ActiveStatuses, NoRow
<1>4. Follows(row, new)
  BY <1>1, <1>2, <1>3 DEF Follows, ActiveStatuses, NoRow
<1> QED BY <1>2, <1>4 DEF new

-----------------------------------------------------------------------------
(* The steps that claim nothing                                             *)

\* Reconciling a schedule row settles its account, whatever the runs are.
LEMMA ReconciledAccount ==
    ASSUME NEW sch \in ScheduleRow, sch.status \in ScheduleStatuses,
           sch.status = "completed" => Exhausted(sch),
           sch.nextRunAt = None => Exhausted(sch),
           sch.maxRounds # Unlimited => sch.roundsStarted <= sch.maxRounds,
           NEW s, NEW invs
    PROVE  /\ Reconciled(sch, s, invs).status \in ScheduleStatuses
           /\ Reconciled(sch, s, invs).maxRounds = sch.maxRounds
           /\ Reconciled(sch, s, invs).roundsStarted = sch.roundsStarted
           /\ Account(Reconciled(sch, s, invs), s, invs)
<1> DEFINE settled == ~\E i \in Invocation : Unsettled(invs[i], s)
           new     == Reconciled(sch, s, invs)
<1>1. settled \in BOOLEAN
  OBVIOUS
<1>2. Account(new, s, invs) <=>
        /\ new.status = "completed" <=> Exhausted(new) /\ settled
        /\ new.nextRunAt = None <=> Exhausted(new)
        /\ new.maxRounds # Unlimited => new.roundsStarted <= new.maxRounds
  BY DEF Account
<1>3. CASE ~Exhausted(sch)
  <2>1. new = sch
    BY <1>3 DEF Reconciled
  <2> HIDE DEF new, settled
  <2>2. Account(new, s, invs)
    BY <1>1, <1>2, <1>3, <2>1
  <2> QED BY <2>1, <2>2 DEF new
<1>4. CASE Exhausted(sch)
  <2>1. new = [sch EXCEPT !.status = IF settled THEN "completed"
                                     ELSE IF @ = "completed" THEN "active" ELSE @,
                          !.nextRunAt = None, !.due = FALSE]
    BY <1>4 DEF Reconciled
  <2> HIDE DEF new, settled
  <2>2. /\ new.status = IF settled THEN "completed"
                        ELSE IF sch.status = "completed" THEN "active"
                        ELSE sch.status
        /\ new.nextRunAt = None
        /\ new.maxRounds = sch.maxRounds
        /\ new.roundsStarted = sch.roundsStarted
    BY <2>1 DEF ScheduleRow
  <2>3. Exhausted(new)
    BY <1>4, <2>2 DEF Exhausted
  <2>4. new.status \in ScheduleStatuses
    BY <2>2 DEF ScheduleStatuses
  <2>5. new.status = "completed" <=> settled
    BY <1>1, <2>2
  <2>6. Account(new, s, invs)
    BY <1>1, <1>2, <2>2, <2>3, <2>5
  <2> QED BY <2>2, <2>4, <2>6 DEF new
<1> QED BY <1>3, <1>4

\* An account holds of any table with the same unsettled runs.
LEMMA SameAccount ==
    ASSUME NEW sch, NEW s, NEW invs, NEW new, Account(sch, s, invs),
           \A i \in Invocation : Unsettled(new[i], s) <=> Unsettled(invs[i], s)
    PROVE  Account(sch, s, new)
BY DEF Account

\* In a fine row, a run is unsettled as long as it is live.
LEMMA UnsettledLive ==
    ASSUME NEW row, RowFine(row), NEW s
    PROVE  Unsettled(row, s) <=> /\ row.scheduleId = s
                                 /\ row.mode = "scheduled"
                                 /\ row.status \in LiveStatuses
BY Kinds DEF RowFine, Unsettled

\* A row `sch` for schedule s that keeps its place and its quota, and is settled
\* with the runs as the step leaves them.
Steady(sch, s) ==
    /\ sch.status \in ScheduleStatuses <=> Present(s)
    /\ sch.status = "unused" <=> schedules[s].status = "unused"
    /\ sch.maxRounds = schedules[s].maxRounds
    /\ sch.roundsStarted = schedules[s].roundsStarted
    /\ Present(s) => Account(sch, s, invocations')

\* A step that adds no row, claims nothing and starts no round.
Ordinary ==
    /\ \A i \in Invocation : Follows(invocations[i], invocations'[i])
    /\ \A s \in Schedule : Steady(schedules'[s], s)
    /\ UNCHANGED <<extensions, issued>>

\* A schedule that is not touched, while its runs stay live or stay dead.
LEMMA UntouchedSteady ==
    ASSUME Rows, Accounts, NEW s \in Schedule,
           \A i \in Invocation : Follows(invocations[i], invocations'[i]),
           \A i \in Invocation :
              /\ invocations[i].scheduleId = s
              /\ invocations[i].mode = "scheduled"
              => (invocations'[i].status \in LiveStatuses <=>
                     invocations[i].status \in LiveStatuses)
    PROVE  Steady(schedules[s], s)
<1>1. \A i \in Invocation :
         Unsettled(invocations'[i], s) <=> Unsettled(invocations[i], s)
  <2> TAKE i \in Invocation
  <2>1. RowFine(invocations[i]) /\ Follows(invocations[i], invocations'[i])
    BY DEF Rows
  <2>2. /\ RowFine(invocations'[i])
        /\ invocations'[i].scheduleId = invocations[i].scheduleId
        /\ invocations'[i].mode = invocations[i].mode
    BY <2>1 DEF Follows
  <2> QED BY <2>1, <2>2, UnsettledLive
<1>2. Present(s) => Account(schedules[s], s, invocations')
  BY <1>1, SameAccount DEF Accounts
<1> QED BY <1>2 DEF Steady, Present

\* Runs are written and the schedules of the scheduled ones among them
\* reconciled: every row that ceases to be live is among those.
LEMMA Reconciling ==
    ASSUME TypeOK, Rows, Accounts, Parents, NEW D \in SUBSET Invocation,
           \A i \in D : Exists(i),
           \A i \in Invocation : Follows(invocations[i], invocations'[i]),
           \A i \in Invocation \ D :
              invocations'[i].status \in LiveStatuses <=>
                 invocations[i].status \in LiveStatuses
    PROVE  \A s \in Schedule :
              Steady(ReconciledAfter(D, invocations')[s], s)
<1> TAKE s \in Schedule
<1>1. CASE \E i \in D : /\ invocations'[i].scheduleId = s
                        /\ invocations'[i].mode = "scheduled"
  <2> DEFINE sch == schedules[s]
             new == Reconciled(sch, s, invocations')
  <2>1. ReconciledAfter(D, invocations')[s] = new
    BY <1>1 DEF ReconciledAfter
  <2>2. PICK i \in D : /\ invocations'[i].scheduleId = s
                       /\ invocations'[i].mode = "scheduled"
    BY <1>1
  <2>3. sch \in ScheduleRow
    BY DEF TypeOK
  <2>4. Present(s)
    <3>1. Follows(invocations[i], invocations'[i]) /\ Exists(i)
      BY <2>2
    <3>2. invocations[i].scheduleId = s
      BY <2>2, <3>1 DEF Follows
    <3> QED BY <3>1, <3>2 DEF Parents
  <2>5. /\ sch.status \in ScheduleStatuses
        /\ sch.status = "completed" => Exhausted(sch)
        /\ sch.nextRunAt = None => Exhausted(sch)
        /\ sch.maxRounds # Unlimited => sch.roundsStarted <= sch.maxRounds
    BY <2>4 DEF Present, Accounts, Account
  <2>6. /\ new.status \in ScheduleStatuses
        /\ new.maxRounds = sch.maxRounds
        /\ new.roundsStarted = sch.roundsStarted
        /\ Account(new, s, invocations')
    BY <2>3, <2>5, ReconciledAccount
  <2> HIDE DEF new
  <2> QED BY <2>1, <2>5, <2>6 DEF Steady, Present, ScheduleStatuses
<1>2. CASE ~\E i \in D : /\ invocations'[i].scheduleId = s
                         /\ invocations'[i].mode = "scheduled"
  <2>1. ReconciledAfter(D, invocations')[s] = schedules[s]
    BY <1>2 DEF ReconciledAfter
  <2>2. \A i \in Invocation :
          /\ invocations[i].scheduleId = s
          /\ invocations[i].mode = "scheduled"
          => i \notin D
    BY <1>2 DEF Follows
  <2> QED BY <2>1, <2>2, UntouchedSteady
<1> QED BY <1>1, <1>2

\* A settled schedule may be paused, unless it is completed.
LEMMA PausedSteady ==
    ASSUME NEW s \in Schedule, NEW sch \in ScheduleRow, Present(s),
           Steady(sch, s)
    PROVE  Steady([sch EXCEPT !.status = IF @ = "completed" THEN @
                                         ELSE "paused"], s)
<1> DEFINE new == [sch EXCEPT !.status = IF @ = "completed" THEN @
                                         ELSE "paused"]
<1>1. /\ new.status = IF sch.status = "completed" THEN sch.status ELSE "paused"
      /\ new.maxRounds = sch.maxRounds
      /\ new.roundsStarted = sch.roundsStarted
      /\ new.nextRunAt = sch.nextRunAt
  BY DEF ScheduleRow
<1> HIDE DEF new
<1>2. Exhausted(new) <=> Exhausted(sch)
  BY <1>1 DEF Exhausted
<1>3. new.status = "completed" <=> sch.status = "completed"
  BY <1>1
<1>4. /\ new.status \in ScheduleStatuses
      /\ new.status # "unused"
  BY <1>1 DEF ScheduleStatuses
<1>5. sch.status # "unused" /\ schedules[s].status # "unused"
  BY DEF Steady, Present, ScheduleStatuses
<1>6. Account(new, s, invocations')
  <2> DEFINE settled == ~\E i \in Invocation : Unsettled(invocations'[i], s)
  <2>1. Account(sch, s, invocations')
    BY DEF Steady
  <2>2. sch.status = "completed" <=> Exhausted(sch) /\ settled
    BY <2>1 DEF Account
  <2>3. new.status = "completed" <=> Exhausted(new) /\ settled
    <3> HIDE DEF settled
    <3> QED BY <1>2, <1>3, <2>2
  <2>4. /\ sch.nextRunAt = None <=> Exhausted(sch)
        /\ sch.maxRounds # Unlimited => sch.roundsStarted <= sch.maxRounds
    BY <2>1 DEF Account
  <2> QED BY <1>1, <1>2, <2>3, <2>4 DEF Account
<1>7. Steady(new, s)
  BY <1>1, <1>4, <1>5, <1>6 DEF Steady
<1> QED BY <1>7 DEF new

\* Failing runs that are there leaves a row that follows each.
LEMMA FinishedFollows ==
    ASSUME TypeOK, Rows, NEW D \in SUBSET Invocation, \A i \in D : Exists(i)
    PROVE  \A i \in Invocation :
              /\ Follows(invocations[i], FinishedRows(D)[i])
              /\ i \notin D => FinishedRows(D)[i] = invocations[i]
<1> TAKE i \in Invocation
<1>1. invocations[i] \in InvocationRow /\ RowFine(invocations[i])
  BY DEF TypeOK, Rows
<1>2. CASE i \in D
  <2>1. FinishedRows(D)[i] = Cleared(invocations[i], "failed")
    BY <1>2 DEF FinishedRows
  <2>2. invocations[i].status \notin NoRow /\ "failed" \in TerminalStatuses
    BY <1>2, Kinds DEF Exists
  <2> QED BY <1>1, <1>2, <2>1, <2>2, ClearedFollows
<1>3. CASE i \notin D
  BY <1>1, <1>3, SameFollows DEF FinishedRows
<1> QED BY <1>2, <1>3

\* A set of runs that fails, and the schedules reconciled, is an ordinary step.
LEMMA FinishesOrdinary ==
    ASSUME TypeOK, Rows, Accounts, Parents, NEW D \in SUBSET Invocation,
           \A i \in D : Exists(i), invocations' = FinishedRows(D)
    PROVE  /\ \A i \in Invocation : Follows(invocations[i], invocations'[i])
           /\ \A s \in Schedule :
                 Steady(ReconciledAfter(D, FinishedRows(D))[s], s)
<1>1. \A i \in Invocation : Follows(invocations[i], invocations'[i])
  BY FinishedFollows
<1>2. \A i \in Invocation \ D :
         invocations'[i].status \in LiveStatuses <=>
            invocations[i].status \in LiveStatuses
  BY FinishedFollows
<1>3. \A s \in Schedule : Steady(ReconciledAfter(D, invocations')[s], s)
  BY <1>1, <1>2, Reconciling
<1> QED BY <1>1, <1>3

\* finishInvocationAsFailed and markTerminalFailure are ordinary steps.
LEMMA FailureOrdinary ==
    ASSUME TypeOK, Rows, Accounts, Parents, NEW i \in Invocation, Exists(i),
           FinishAsFailed(i) \/ MarkTerminalFailure(i),
           UNCHANGED <<extensions, issued>>
    PROVE  Ordinary
<1> DEFINE ss == ReconciledAfter({i}, FinishedRows({i}))
<1>1. invocations' = FinishedRows({i})
  BY DEF FinishAsFailed, MarkTerminalFailure
<1>2. /\ \A j \in Invocation : Follows(invocations[j], invocations'[j])
      /\ \A s \in Schedule : Steady(ss[s], s)
  <2>1. {i} \in SUBSET Invocation /\ \A j \in {i} : Exists(j)
    OBVIOUS
  <2> QED BY <1>1, <2>1, FinishesOrdinary
<1>3. ss \in [Schedule -> ScheduleRow]
  BY ReconciledAfterType DEF TypeOK
<1> HIDE DEF ss
<1>4. CASE schedules' = ss
  BY <1>2, <1>4 DEF Ordinary
<1>5. CASE schedules' = [ss EXCEPT ![invocations[i].scheduleId].status =
                            IF @ = "completed" THEN @ ELSE "paused"]
  <2> DEFINE q == invocations[i].scheduleId
  <2>1. q \in Schedule /\ Present(q)
    BY DEF TypeOK, Parents
  <2> HIDE DEF q
  <2>2. schedules' = [ss EXCEPT ![q] =
            [ss[q] EXCEPT !.status = IF @ = "completed" THEN @ ELSE "paused"]]
    BY <1>3, <1>5 DEF q
  <2>3. Steady(schedules'[q], q)
    <3>1. ss[q] \in ScheduleRow /\ Steady(ss[q], q)
      BY <1>2, <1>3, <2>1
    <3>2. Steady([ss[q] EXCEPT !.status = IF @ = "completed" THEN @
                                          ELSE "paused"], q)
      BY <2>1, <3>1, PausedSteady
    <3>3. schedules'[q] = [ss[q] EXCEPT !.status = IF @ = "completed" THEN @
                                                   ELSE "paused"]
      BY <1>3, <2>1, <2>2
    <3> QED BY <3>2, <3>3
  <2>4. \A s \in Schedule \ {q} : schedules'[s] = ss[s]
    BY <1>3, <2>2
  <2> QED BY <1>2, <2>3, <2>4 DEF Ordinary
<1> QED BY <1>4, <1>5 DEF FinishAsFailed, MarkTerminalFailure, ss

\* A step that leaves the schedules alone, and every live run live, is an
\* ordinary one.
LEMMA QuietOrdinary ==
    ASSUME TypeOK, Rows, Accounts, Parents,
           UNCHANGED <<schedules, extensions, issued>>,
           \A i \in Invocation :
              /\ Follows(invocations[i], invocations'[i])
              /\ invocations'[i].status \in LiveStatuses <=>
                    invocations[i].status \in LiveStatuses
    PROVE  Ordinary
<1>1. \A s \in Schedule : Steady(schedules[s], s)
  BY UntouchedSteady
<1> QED BY <1>1 DEF Ordinary

\* The same of a step that writes one row.
LEMMA OneRowOrdinary ==
    ASSUME TypeOK, Rows, Accounts, Parents,
           UNCHANGED <<schedules, extensions, issued>>,
           NEW i \in Invocation, NEW row, Follows(invocations[i], row),
           row.status \in LiveStatuses <=>
              invocations[i].status \in LiveStatuses,
           invocations' = [invocations EXCEPT ![i] = row]
    PROVE  Ordinary
<1>1. ASSUME NEW j \in Invocation
      PROVE  /\ Follows(invocations[j], invocations'[j])
             /\ invocations'[j].status \in LiveStatuses <=>
                   invocations[j].status \in LiveStatuses
  <2>1. CASE j = i
    BY <2>1 DEF TypeOK
  <2>2. CASE j # i
    <3>1. invocations'[j] = invocations[j]
      BY <2>2 DEF TypeOK
    <3>2. invocations[j] \in InvocationRow /\ RowFine(invocations[j])
      BY DEF TypeOK, Rows
    <3> QED BY <3>1, <3>2, SameFollows
  <2> QED BY <2>1, <2>2
<1> QED BY <1>1, QuietOrdinary

\* The writes of whoever runs an invocation are ordinary steps.
LEMMA RunStepOrdinary ==
    ASSUME TypeOK, Rows, Accounts, Parents, RunStep
    PROVE  Ordinary
<1>1. ASSUME NEW i \in Invocation
      PROVE  invocations[i] \in InvocationRow /\ RowFine(invocations[i])
  BY DEF TypeOK, Rows
<1>2. ASSUME NEW i \in Invocation, NEW t \in 1..issued,
             NEW e \in Executor \cup {None}, beginInvocation(i, t, e)
      PROVE  Ordinary
  <2> DEFINE row == [invocations[i] EXCEPT !.status = "running",
                        !.leaseUntil = "future", !.executor = e]
  <2>1. invocations[i].status = "claimed"
    BY <1>2 DEF beginInvocation
  <2>2. Follows(invocations[i], row) /\ row.status = "running"
    BY <1>1, <2>1, BegunFollows
  <2> HIDE DEF row
  <2>3. invocations' = [invocations EXCEPT ![i] = row]
    BY <1>2 DEF beginInvocation, row
  <2>4. /\ row.status \in LiveStatuses
        /\ invocations[i].status \in LiveStatuses
    BY <2>1, <2>2 DEF LiveStatuses, ActiveStatuses
  <2> QED BY <1>2, <2>2, <2>3, <2>4, OneRowOrdinary DEF beginInvocation
<1>3. ASSUME NEW i \in Invocation, NEW t \in 1..issued, renewLease(i, t)
      PROVE  Ordinary
  <2> DEFINE row == [invocations[i] EXCEPT !.leaseUntil = "future"]
  <2>1. invocations[i].status \in ActiveStatuses
    BY <1>3 DEF renewLease, HoldsToken, Active
  <2>2. /\ Follows(invocations[i], row)
        /\ row.status = invocations[i].status
    BY <1>1, <2>1, LeasedFollows
  <2> HIDE DEF row
  <2>3. invocations' = [invocations EXCEPT ![i] = row]
    BY <1>3 DEF renewLease, row
  <2> QED BY <1>3, <2>2, <2>3, OneRowOrdinary DEF renewLease
<1>4. ASSUME NEW i \in Invocation, NEW t \in 1..issued, NEW u \in BOOLEAN,
             recordInvocationTree(i, t, u)
      PROVE  Ordinary
  <2> DEFINE row == [invocations[i] EXCEPT !.treeUnsettled = u]
  <2>1. invocations[i].status \in ActiveStatuses \cup {"retry"}
    BY <1>4 DEF recordInvocationTree, HoldsToken, Active
  <2>2. /\ Follows(invocations[i], row)
        /\ row.status = invocations[i].status
    BY <1>1, <2>1, TreeFollows
  <2> HIDE DEF row
  <2>3. invocations' = [invocations EXCEPT ![i] = row]
    BY <1>4 DEF recordInvocationTree, row
  <2> QED BY <1>4, <2>2, <2>3, OneRowOrdinary DEF recordInvocationTree
<1>5. ASSUME NEW i \in Invocation, NEW row, Exists(i),
             Follows(invocations[i], row),
             invocations' = [invocations EXCEPT ![i] = row],
             schedules' = ReconciledAfter({i}, [invocations EXCEPT ![i] = row]),
             UNCHANGED <<extensions, issued>>
      PROVE  Ordinary
  <2>1. ASSUME NEW j \in Invocation
        PROVE  /\ Follows(invocations[j], invocations'[j])
               /\ j # i => invocations'[j] = invocations[j]
    <3>1. CASE j = i
      BY <1>5, <3>1 DEF TypeOK
    <3>2. CASE j # i
      <4>1. invocations'[j] = invocations[j]
        BY <1>5, <3>2 DEF TypeOK
      <4> QED BY <1>1, <4>1, SameFollows
    <3> QED BY <3>1, <3>2
  <2>2. schedules' = ReconciledAfter({i}, invocations')
    BY <1>5
  <2>3. {i} \in SUBSET Invocation /\ \A j \in {i} : Exists(j)
    BY <1>5
  <2>4. \A s \in Schedule : Steady(ReconciledAfter({i}, invocations')[s], s)
    BY <2>1, <2>3, Reconciling
  <2> QED BY <1>5, <2>1, <2>2, <2>4 DEF Ordinary
<1>6. ASSUME NEW i \in Invocation, NEW t \in 1..issued,
             NEW result \in ResultStatuses, NEW settled \in BOOLEAN,
             completeInvocation(i, t, result, settled)
      PROVE  Ordinary
  <2> DEFINE row == Cleared(invocations[i], result)
  <2>1. Exists(i)
    BY <1>6, Kinds DEF completeInvocation, HoldsToken, Active, Exists
  <2>2. Follows(invocations[i], row)
    BY <1>1, <2>1, Kinds, ClearedFollows DEF Exists
  <2> HIDE DEF row
  <2>3. /\ invocations' = [invocations EXCEPT ![i] = row]
        /\ schedules' = ReconciledAfter({i}, [invocations EXCEPT ![i] = row])
        /\ UNCHANGED <<extensions, issued>>
    BY <1>6 DEF completeInvocation, row
  <2> QED BY <1>5, <2>1, <2>2, <2>3
<1>7. ASSUME NEW i \in Invocation, NEW t \in 1..issued,
             NEW terminal \in BOOLEAN, NEW settled \in BOOLEAN,
             failInvocation(i, t, terminal, settled)
      PROVE  Ordinary
  <2>1. Active(i) /\ Exists(i)
    BY <1>7, Disjoint DEF failInvocation, HoldsToken, Active, Exists
  <2>2. CASE MarkTerminalFailure(i)
    BY <1>7, <2>1, <2>2, FailureOrdinary DEF failInvocation
  <2>3. CASE /\ ~Spent(invocations[i])
             /\ invocations' = [invocations EXCEPT ![i] = Retrying(@)]
             /\ UNCHANGED schedules
    <3> DEFINE row == Retrying(invocations[i])
    <3>1. invocations[i].attempt < invocations[i].maxAttempts
      BY <1>1, <2>3 DEF Spent, InvocationRow
    <3>2. Follows(invocations[i], row) /\ row.status = "retry"
      BY <1>1, <2>1, <3>1, RetryingFollows DEF Exists
    <3> HIDE DEF row
    <3>3. invocations' = [invocations EXCEPT ![i] = row]
      BY <2>3 DEF row
    <3>4. row.status \in LiveStatuses /\ invocations[i].status \in LiveStatuses
      BY <2>1, <3>2, Kinds DEF Active
    <3> QED BY <1>7, <2>3, <3>2, <3>3, <3>4, OneRowOrdinary DEF failInvocation
  <2> QED BY <1>7, <2>2, <2>3 DEF failInvocation
<1>8. ASSUME NEW i \in Invocation, NEW a \in 0..RetryBudget,
             NEW settled \in BOOLEAN,
             reclassifyTimedOutInvocation(i, a, settled)
      PROVE  Ordinary
  <2>1. Exists(i)
    BY <1>8, Disjoint DEF reclassifyTimedOutInvocation, Exists, TerminalStatuses
  <2>2. CASE MarkTerminalFailure(i)
    BY <1>8, <2>1, <2>2, FailureOrdinary DEF reclassifyTimedOutInvocation
  <2>3. CASE /\ ~Spent(invocations[i])
             /\ invocations' = [invocations EXCEPT ![i] = Retrying(@)]
             /\ schedules' = ReconciledAfter({i},
                                [invocations EXCEPT ![i] = Retrying(@)])
    <3> DEFINE row == Retrying(invocations[i])
    <3>1. invocations[i].attempt < invocations[i].maxAttempts
      BY <1>1, <2>3 DEF Spent, InvocationRow
    <3>2. Follows(invocations[i], row)
      BY <1>1, <2>1, <3>1, RetryingFollows DEF Exists
    <3> HIDE DEF row
    <3>3. /\ invocations' = [invocations EXCEPT ![i] = row]
          /\ schedules' = ReconciledAfter({i}, [invocations EXCEPT ![i] = row])
      BY <2>3 DEF row
    <3>4. UNCHANGED <<extensions, issued>>
      BY <1>8 DEF reclassifyTimedOutInvocation
    <3> QED BY <1>5, <2>1, <3>2, <3>3, <3>4
  <2> QED BY <1>8, <2>2, <2>3 DEF reclassifyTimedOutInvocation
<1>9. ASSUME NEW w \in Worker, NEW settled \in SUBSET Invocation,
             prepareWorkerShutdown(w, settled)
      PROVE  Ordinary
  <2>1. PICK D \in SUBSET Invocation :
          /\ \A i \in D : invocations[i].status = "claimed"
          /\ invocations' = FinishedRows(D)
          /\ schedules' = ReconciledAfter(D, FinishedRows(D))
    <3> DEFINE D == {i \in Invocation :
                       /\ invocations[i].claimedBy = w
                       /\ invocations[i].status = "claimed"
                       /\ ~TreeBlocks(invocations[i], i \in settled)}
    <3>1. D \in SUBSET Invocation
      OBVIOUS
    <3>2. \A i \in D : invocations[i].status = "claimed"
      OBVIOUS
    <3> QED BY <1>9, <3>1, <3>2 DEF prepareWorkerShutdown
  <2>2. \A i \in D : Exists(i)
    BY <2>1 DEF Exists, NoRow
  <2> QED BY <1>9, <2>1, <2>2, FinishesOrdinary
          DEF Ordinary, prepareWorkerShutdown
<1> QED BY <1>2, <1>3, <1>4, <1>6, <1>7, <1>8, <1>9 DEF RunStep

\* The cancellation protocol and the pruning are ordinary steps.
LEMMA CancelStepOrdinary ==
    ASSUME TypeOK, Rows, Accounts, Parents, CancelStep
    PROVE  Ordinary
<1>1. ASSUME NEW i \in Invocation, NEW abandon \in BOOLEAN,
             NEW dead \in BOOLEAN, NEW settled \in BOOLEAN,
             cancelInvocation(i, abandon, dead, settled)
      PROVE  Ordinary
  <2>1. Exists(i) /\ FinishAsFailed(i)
    BY <1>1, Disjoint DEF cancelInvocation, Live, Exists
  <2> QED BY <1>1, <2>1, FailureOrdinary DEF cancelInvocation
<1>2. ASSUME NEW i \in Invocation, NEW a \in 0..RetryBudget,
             NEW abandon \in BOOLEAN, NEW tree \in {"none", "settled", "unsettled"},
             NEW dead \in BOOLEAN, NEW settled \in BOOLEAN,
             finalizeCancellation(i, a, abandon, tree, dead, settled)
      PROVE  Ordinary
  <2> DEFINE row == WithTreeReport(invocations[i], tree)
  <2>1. Exists(i) /\ UNCHANGED <<extensions, issued>>
    BY <1>2 DEF finalizeCancellation
  <2>2. CASE FinishAsFailed(i)
    BY <2>1, <2>2, FailureOrdinary
  <2>3. CASE /\ invocations' = [invocations EXCEPT ![i] = row]
             /\ UNCHANGED schedules
    <3>1. invocations[i] \in InvocationRow /\ RowFine(invocations[i])
      BY DEF TypeOK, Rows
    <3>2. Follows(invocations[i], row) /\ row.status = invocations[i].status
      <4>1. CASE /\ tree # "none"
                 /\ invocations[i].status \in ActiveStatuses \cup {"retry"}
        <5> DEFINE u == tree = "unsettled"
        <5>1. row = [invocations[i] EXCEPT !.treeUnsettled = u]
          BY <4>1 DEF WithTreeReport
        <5>2. u \in BOOLEAN
          OBVIOUS
        <5> HIDE DEF row, u
        <5> QED BY <3>1, <4>1, <5>1, <5>2, TreeFollows
      <4>2. CASE ~(/\ tree # "none"
                   /\ invocations[i].status \in ActiveStatuses \cup {"retry"})
        BY <3>1, <4>2, SameFollows DEF WithTreeReport
      <4> QED BY <4>1, <4>2
    <3> HIDE DEF row
    <3> QED BY <2>1, <2>3, <3>2, OneRowOrdinary
  <2> QED BY <1>2, <2>2, <2>3 DEF finalizeCancellation
<1>3. ASSUME NEW D \in SUBSET Invocation, pruneInvocations(D)
      PROVE  Ordinary
  <2>1. ASSUME NEW i \in Invocation
        PROVE  /\ Follows(invocations[i], invocations'[i])
               /\ invocations'[i].status \in LiveStatuses <=>
                     invocations[i].status \in LiveStatuses
    <3>1. invocations[i] \in InvocationRow /\ RowFine(invocations[i])
      BY DEF TypeOK, Rows
    <3>2. CASE i \in D
      <4>1. /\ invocations[i].status \notin NoRow
            /\ invocations[i].status \notin LiveStatuses
        BY <1>3, <3>2, Kinds DEF pruneInvocations, Terminal
      <4>2. invocations'[i] = DeletedInvocation(invocations[i])
        BY <1>3, <3>2 DEF pruneInvocations
      <4>3. "deleted" \notin LiveStatuses
        BY DEF LiveStatuses, ActiveStatuses
      <4> QED BY <3>1, <4>1, <4>2, <4>3, DeletedFollows
    <3>3. CASE i \notin D
      BY <1>3, <3>1, <3>3, SameFollows DEF pruneInvocations
    <3> QED BY <3>2, <3>3
  <2> QED BY <1>3, <2>1, QuietOrdinary DEF pruneInvocations
<1> QED BY <1>1, <1>2, <1>3 DEF CancelStep

\* The passing of time is an ordinary step.
LEMMA ClockStepOrdinary ==
    ASSUME TypeOK, Rows, Accounts, Parents, ClockStep
    PROVE  Ordinary
<1>1. ASSUME NEW i \in Invocation
      PROVE  invocations[i] \in InvocationRow /\ RowFine(invocations[i])
  BY DEF TypeOK, Rows
<1>2. ASSUME NEW i \in Invocation, leaseExpires(i)
      PROVE  Ordinary
  <2> DEFINE row == [invocations[i] EXCEPT !.leaseUntil = "past"]
  <2>1. invocations[i].status \in ActiveStatuses
    BY <1>1, <1>2 DEF leaseExpires, RowFine
  <2>2. /\ Follows(invocations[i], row)
        /\ row.status = invocations[i].status
    BY <1>1, <2>1, LeasedFollows
  <2> HIDE DEF row
  <2>3. invocations' = [invocations EXCEPT ![i] = row]
    BY <1>2 DEF leaseExpires, row
  <2> QED BY <1>2, <2>2, <2>3, OneRowOrdinary DEF leaseExpires
<1>3. ASSUME NEW i \in Invocation, retryFallsDue(i)
      PROVE  Ordinary
  <2> DEFINE row == [invocations[i] EXCEPT !.retryAt = "past"]
  <2>1. invocations[i].status = "retry"
    BY <1>1, <1>3 DEF retryFallsDue, RowFine
  <2>2. /\ Follows(invocations[i], row)
        /\ row.status = invocations[i].status
    BY <1>1, <2>1, DelayedFollows
  <2> HIDE DEF row
  <2>3. invocations' = [invocations EXCEPT ![i] = row]
    BY <1>3 DEF retryFallsDue, row
  <2> QED BY <1>3, <2>2, <2>3, OneRowOrdinary DEF retryFallsDue
<1>4. ASSUME NEW q \in Schedule, nextRunFallsDue(q)
      PROVE  Ordinary
  <2>1. \A i \in Invocation : invocations'[i] = invocations[i]
    BY <1>4 DEF nextRunFallsDue
  <2>2. \A i \in Invocation : Follows(invocations[i], invocations'[i])
    BY <1>1, <2>1, SameFollows
  <2>3. ASSUME NEW s \in Schedule
        PROVE  Steady(schedules'[s], s)
    <3>1. Steady(schedules[s], s)
      BY <2>1, <2>2, UntouchedSteady
    <3>2. /\ schedules'[s].status = schedules[s].status
          /\ schedules'[s].maxRounds = schedules[s].maxRounds
          /\ schedules'[s].roundsStarted = schedules[s].roundsStarted
          /\ schedules'[s].nextRunAt = schedules[s].nextRunAt
      BY <1>4 DEF nextRunFallsDue, TypeOK, ScheduleRow
    <3>3. Exhausted(schedules'[s]) <=> Exhausted(schedules[s])
      BY <3>2 DEF Exhausted
    <3> QED BY <3>1, <3>2, <3>3 DEF Steady, Account
  <2> QED BY <1>4, <2>2, <2>3 DEF Ordinary, nextRunFallsDue
<1> QED BY <1>2, <1>3, <1>4 DEF ClockStep

\* The steps of claimDue that claim nothing are ordinary steps.
LEMMA ClaimDueQuietOrdinary ==
    ASSUME TypeOK, SnapshotFresh, Rows, Accounts, Parents, ClaimDueQuiet
    PROVE  Ordinary
<1>1. ASSUME NEW i \in Invocation
      PROVE  invocations[i] \in InvocationRow /\ RowFine(invocations[i])
  BY DEF TypeOK, Rows
<1>2. ASSUME NEW w \in Worker, NEW limit \in 0..MaxLimit,
             NEW held \in SUBSET {i \in LiveRows : Active(i)},
             NEW probed \in SUBSET ProbeCandidates(held),
             NEW alive \in SUBSET probed,
             beginClaimDue(w, limit, held, probed, alive)
      PROVE  Ordinary
  <2>1. PICK R \in SUBSET Invocation :
          /\ \A i \in R : Active(i)
          /\ invocations' = [i \in Invocation |->
                IF i \in R THEN [invocations[i] EXCEPT !.leaseUntil = "future"]
                           ELSE invocations[i]]
    <3> DEFINE R == {i \in LiveRows : Active(i) /\ i \in held \cup alive}
                      \cup (ProbeCandidates(held) \ probed)
    <3>1. R \in SUBSET Invocation
      BY DEF LiveRows, ProbeCandidates
    <3>2. \A i \in R : Active(i)
      BY DEF ProbeCandidates, Active, ActiveStatuses
    <3> QED BY <1>2, <3>1, <3>2 DEF beginClaimDue
  <2>2. ASSUME NEW i \in Invocation
        PROVE  /\ Follows(invocations[i], invocations'[i])
               /\ invocations'[i].status \in LiveStatuses <=>
                     invocations[i].status \in LiveStatuses
    <3>1. CASE i \in R
      BY <1>1, <2>1, <3>1, LeasedFollows DEF Active
    <3>2. CASE i \notin R
      BY <1>1, <2>1, <3>2, SameFollows
    <3> QED BY <3>1, <3>2
  <2> QED BY <1>2, <2>2, QuietOrdinary DEF beginClaimDue
<1>3. ASSUME NEW i \in Invocation, NEW settled, Exists(i),
             \/ /\ TreeBlocks(invocations[i], settled)
                /\ invocations' = [invocations EXCEPT ![i] = Deferred(@)]
                /\ UNCHANGED schedules
             \/ FinishAsFailed(i)
             \/ MarkTerminalFailure(i),
             UNCHANGED <<extensions, issued>>
      PROVE  Ordinary
  <2>1. CASE FinishAsFailed(i) \/ MarkTerminalFailure(i)
    BY <1>3, <2>1, FailureOrdinary
  <2>2. CASE /\ TreeBlocks(invocations[i], settled)
             /\ invocations' = [invocations EXCEPT ![i] = Deferred(@)]
             /\ UNCHANGED schedules
    <3> DEFINE row == Deferred(invocations[i])
    <3>1. Follows(invocations[i], row) /\ row.status = invocations[i].status
      BY <1>1, <2>2, DeferredFollows DEF TreeBlocks
    <3>2. invocations' = [invocations EXCEPT ![i] = row]
      BY <2>2
    <3> HIDE DEF row
    <3> QED BY <1>3, <2>2, <3>1, <3>2, OneRowOrdinary
  <2> QED BY <1>3, <2>1, <2>2
<1>4. ASSUME NEW i \in Invocation, NEW settled \in BOOLEAN,
             claimDueAbandon(i, settled) \/ claimDueExhaust(i, settled)
      PROVE  Ordinary
  <2>1. Exists(i)
    BY <1>4, TodoExists DEF claimDueAbandon, claimDueExhaust, InClaim
  <2>2. /\ \/ /\ TreeBlocks(invocations[i], settled)
              /\ invocations' = [invocations EXCEPT ![i] = Deferred(@)]
              /\ UNCHANGED schedules
           \/ FinishAsFailed(i)
           \/ MarkTerminalFailure(i)
        /\ UNCHANGED <<extensions, issued>>
    BY <1>4 DEF claimDueAbandon, claimDueExhaust
  <2> QED BY <1>3, <2>1, <2>2
<1>5. ASSUME UNCHANGED <<schedules, invocations, extensions, issued>>
      PROVE  Ordinary
  BY <1>1, <1>5, SameFollows, QuietOrdinary
<1>6. ASSUME NEW i \in Invocation, claimDueSkip(i)
      PROVE  Ordinary
  BY <1>5, <1>6 DEF claimDueSkip
<1>7. CASE commitClaimDue
  BY <1>5, <1>7 DEF commitClaimDue
<1> QED BY <1>2, <1>4, <1>6, <1>7 DEF ClaimDueQuiet

\* A schedule given another status and reconciled, the runs having been written
\* so that the rows that ceased to be live were its own, is an ordinary step.
LEMMA RestatedOrdinary ==
    ASSUME TypeOK, Rows, Accounts, Parents, NEW q \in Schedule,
           schedules[q].status \in {"active", "paused"},
           NEW to \in {"active", "paused"},
           schedules' = [schedules EXCEPT ![q] =
              Reconciled([@ EXCEPT !.status = to], q, invocations')],
           UNCHANGED <<extensions, issued>>,
           \A i \in Invocation : Follows(invocations[i], invocations'[i]),
           \A i \in Invocation : invocations[i].scheduleId # q =>
              (invocations'[i].status \in LiveStatuses <=>
                  invocations[i].status \in LiveStatuses)
    PROVE  Ordinary
<1> DEFINE sch == [schedules[q] EXCEPT !.status = to]
           new == Reconciled(sch, q, invocations')
<1>1. Present(q) /\ schedules[q] \in ScheduleRow
  BY DEF TypeOK, Present, ScheduleStatuses
<1>2. /\ sch \in ScheduleRow
      /\ sch.status = to
      /\ sch.maxRounds = schedules[q].maxRounds
      /\ sch.roundsStarted = schedules[q].roundsStarted
      /\ sch.nextRunAt = schedules[q].nextRunAt
  BY <1>1 DEF ScheduleRow, ScheduleStatuses
<1>3. schedules' = [schedules EXCEPT ![q] = new]
  OBVIOUS
<1> HIDE DEF sch
<1>4. /\ sch.status \in ScheduleStatuses
      /\ sch.status = "completed" => Exhausted(sch)
      /\ sch.nextRunAt = None => Exhausted(sch)
      /\ sch.maxRounds # Unlimited => sch.roundsStarted <= sch.maxRounds
  BY <1>1, <1>2 DEF Accounts, Account, Exhausted, ScheduleStatuses
<1>5. /\ new.status \in ScheduleStatuses
      /\ new.maxRounds = sch.maxRounds
      /\ new.roundsStarted = sch.roundsStarted
      /\ Account(new, q, invocations')
  BY <1>2, <1>4, ReconciledAccount
<1> HIDE DEF new
<1>6. Steady(schedules'[q], q)
  <2>1. schedules'[q] = new
    BY <1>3 DEF TypeOK
  <2>2. new.status # "unused" /\ schedules[q].status # "unused"
    BY <1>5 DEF ScheduleStatuses
  <2> QED BY <1>1, <1>2, <1>5, <2>1, <2>2 DEF Steady
<1>7. ASSUME NEW s \in Schedule, s # q
      PROVE  Steady(schedules'[s], s)
  <2>1. schedules'[s] = schedules[s]
    BY <1>3, <1>7 DEF TypeOK
  <2> QED BY <1>7, <2>1, UntouchedSteady
<1> QED BY <1>6, <1>7 DEF Ordinary

\* Resuming a schedule is an ordinary step.
LEMMA ResumeOrdinary ==
    ASSUME TypeOK, Rows, Accounts, Parents, NEW s \in Schedule,
           resumeSchedule(s)
    PROVE  Ordinary
<1>1. \A i \in Invocation : Follows(invocations[i], invocations'[i])
  BY SameFollows DEF TypeOK, Rows, resumeSchedule
<1>2. \A i \in Invocation : invocations[i].scheduleId # s =>
         (invocations'[i].status \in LiveStatuses <=>
             invocations[i].status \in LiveStatuses)
  BY DEF resumeSchedule
<1>3. /\ schedules[s].status \in {"active", "paused"}
      /\ schedules' = [schedules EXCEPT ![s] =
            Reconciled([@ EXCEPT !.status = "active"], s, invocations')]
      /\ UNCHANGED <<extensions, issued>>
  BY DEF resumeSchedule
<1> QED BY <1>1, <1>2, <1>3, RestatedOrdinary

\* Pausing a schedule, with the retries it gives up, is an ordinary step.
LEMMA PauseOrdinary ==
    ASSUME TypeOK, Rows, Accounts, Parents, NEW s \in Schedule, NEW settled,
           pauseSchedule(s, settled)
    PROVE  Ordinary
<1>1. PICK D \in SUBSET RunsOf(s) :
        /\ \A i \in D : invocations[i].status = "retry"
        /\ invocations' = FinishedRows(D)
        /\ schedules' = [schedules EXCEPT ![s] =
              Reconciled([@ EXCEPT !.status = "paused"], s, FinishedRows(D))]
  <2> DEFINE D == {i \in RunsOf(s) :
                     /\ invocations[i].mode = "scheduled"
                     /\ invocations[i].status = "retry"
                     /\ ~TreeBlocks(invocations[i], i \in settled)}
  <2>1. D \in SUBSET RunsOf(s)
    OBVIOUS
  <2>2. \A i \in D : invocations[i].status = "retry"
    OBVIOUS
  <2> QED BY <2>1, <2>2 DEF pauseSchedule
<1>2. D \in SUBSET Invocation /\ \A i \in D : Exists(i)
  BY <1>1 DEF RunsOf, Exists, NoRow
<1>3. \A i \in Invocation :
         /\ Follows(invocations[i], invocations'[i])
         /\ i \notin D => invocations'[i] = invocations[i]
  BY <1>1, <1>2, FinishedFollows
<1>4. \A i \in Invocation : invocations[i].scheduleId # s =>
         (invocations'[i].status \in LiveStatuses <=>
             invocations[i].status \in LiveStatuses)
  BY <1>1, <1>3 DEF RunsOf
<1>5. /\ schedules[s].status \in {"active", "paused"}
      /\ schedules' = [schedules EXCEPT ![s] =
            Reconciled([@ EXCEPT !.status = "paused"], s, invocations')]
      /\ UNCHANGED <<extensions, issued>>
  BY <1>1 DEF pauseSchedule
<1> QED BY <1>3, <1>4, <1>5, RestatedOrdinary

\* Discarding a run nobody claimed is an ordinary step: it was a manual one.
LEMMA DiscardOrdinary ==
    ASSUME TypeOK, Rows, Accounts, Parents, NEW i \in Invocation,
           discardPendingInvocation(i)
    PROVE  Ordinary
<1> DEFINE row == DeletedInvocation(invocations[i])
<1>1. /\ invocations[i].status \notin NoRow
      /\ invocations[i].mode = "manual"
  BY Kinds DEF discardPendingInvocation, Rows, RowFine, NoRow
<1>2. Follows(invocations[i], row)
  BY <1>1, DeletedFollows DEF TypeOK
<1> HIDE DEF row
<1>3. invocations' = [invocations EXCEPT ![i] = row]
  BY DEF discardPendingInvocation, row
<1>4. \A j \in Invocation \ {i} : invocations'[j] = invocations[j]
  BY <1>3 DEF TypeOK
<1>5. \A j \in Invocation : Follows(invocations[j], invocations'[j])
  BY <1>2, <1>3, <1>4, SameFollows DEF TypeOK, Rows
<1>6. \A s \in Schedule : Steady(schedules[s], s)
  BY <1>1, <1>4, <1>5, UntouchedSteady
<1> QED BY <1>5, <1>6 DEF discardPendingInvocation, Ordinary

-----------------------------------------------------------------------------
(* What keeps each part of the books                                        *)

\* Tokens stay apart when no run becomes active and none changes its token.
LEMMA TokensKept ==
    ASSUME Rows', Tokens, TypeOK, issued' = issued,
           \A i \in Invocation : Active(i)' =>
              /\ Active(i)
              /\ invocations'[i].ownershipToken = invocations[i].ownershipToken
    PROVE  Tokens'
<1>1. ASSUME NEW i \in Invocation
      PROVE  invocations'[i].ownershipToken <= issued'
  <2>1. CASE Active(i)'
    BY <2>1 DEF Tokens
  <2>2. CASE ~Active(i)'
    <3>1. invocations'[i].ownershipToken = 0
      BY <2>2 DEF Rows, RowFine, Active, NoToken
    <3> QED BY <3>1 DEF TypeOK
  <2> QED BY <2>1, <2>2
<1> QED BY <1>1 DEF Tokens, Active

\* Tokens stay apart when one run is claimed under the next token.
LEMMA TokensClaimed ==
    ASSUME TypeOK, TypeOK', Tokens, NEW i \in Invocation,
           invocations'[i].ownershipToken = issued + 1, issued' = issued + 1,
           \A j \in Invocation \ {i} : invocations'[j] = invocations[j]
    PROVE  Tokens'
<1>1. issued \in Nat
  BY DEF TypeOK
<1>2. ASSUME NEW j \in Invocation, j # i
      PROVE  /\ invocations'[j] = invocations[j]
             /\ invocations[j].ownershipToken \in Nat
             /\ invocations[j].ownershipToken <= issued
             /\ Active(j)' <=> Active(j)
  BY <1>2 DEF TypeOK, InvocationRow, Tokens, Active
<1>3. \A j \in Invocation : invocations'[j].ownershipToken <= issued'
  <2> TAKE j \in Invocation
  <2>1. CASE j = i
    BY <1>1, <2>1
  <2>2. CASE j # i
    BY <1>1, <1>2, <2>2
  <2> QED BY <2>1, <2>2
<1>4. ASSUME NEW j \in Invocation, NEW k \in Invocation,
             Active(j)', Active(k)',
             invocations'[j].ownershipToken = invocations'[k].ownershipToken
      PROVE  j = k
  <2>1. CASE j = i /\ k # i
    BY <1>1, <1>2, <1>4, <2>1
  <2>2. CASE j # i /\ k = i
    BY <1>1, <1>2, <1>4, <2>2
  <2>3. CASE j # i /\ k # i
    BY <1>2, <1>4, <2>3 DEF Tokens
  <2> QED BY <2>1, <2>2, <2>3
<1> QED BY <1>3, <1>4 DEF Tokens, Active

\* A run's schedule stays when the run keeps it and schedules do not go.
LEMMA ParentsKept ==
    ASSUME Parents,
           \A i \in Invocation :
              /\ invocations'[i].scheduleId = invocations[i].scheduleId
              /\ Exists(i)' => Exists(i),
           \A s \in Schedule :
              /\ Present(s) => Present(s)'
              /\ schedules'[s].status = "unused" => schedules[s].status = "unused"
    PROVE  Parents'
BY DEF Parents, Present, Exists

\* The count of a schedule's rounds stands when no scheduled run is new.
LEMMA CountsKept ==
    ASSUME Counts,
           \A s \in Schedule :
              /\ Rounds(s)' = Rounds(s)
              /\ Present(s)' =>
                   /\ Present(s)
                   /\ schedules'[s].roundsStarted = schedules[s].roundsStarted
    PROVE  Counts'
BY DEF Counts

\* The rounds are the same rows when each keeps its schedule and its kind.
LEMMA RoundsKept ==
    ASSUME \A i \in Invocation :
              /\ invocations'[i].scheduleId = invocations[i].scheduleId
              /\ invocations'[i].mode = invocations[i].mode
    PROVE  \A s \in Schedule : Rounds(s)' = Rounds(s)
BY DEF Rounds, RunsOf

\* An extension in the table is one of a schedule.
LEMMA ExtensionRows ==
    ASSUME TypeOK, NEW r \in Request, extensions[r] # NoExtension
    PROVE  /\ extensions[r] \in ExtensionRow
           /\ extensions[r].scheduleId \in Schedule
BY DEF TypeOK, ExtensionRow

\* The extensions stay a chain while their schedules keep their quotas and do
\* not take back rounds.
LEMMA ChainKept ==
    ASSUME TypeOK, TypeOK', Chain, extensions' = extensions,
           \A s \in Schedule : Present(s) =>
              /\ Present(s)'
              /\ schedules'[s].maxRounds = schedules[s].maxRounds
              /\ schedules'[s].roundsStarted >= schedules[s].roundsStarted
    PROVE  Chain'
<1>1. ASSUME NEW r \in Request, extensions[r] # NoExtension
      PROVE  Founded(r)'
  <2> DEFINE s == extensions[r].scheduleId
  <2>1. extensions[r] \in ExtensionRow /\ s \in Schedule
    BY <1>1, ExtensionRows
  <2>2. Founded(r)
    BY <1>1 DEF Chain
  <2>3. /\ Present(s)'
        /\ schedules'[s].maxRounds = schedules[s].maxRounds
        /\ schedules'[s].roundsStarted >= schedules[s].roundsStarted
    BY <2>1, <2>2 DEF Founded, Present
  <2>4. /\ extensions[r].expectedMaxRounds \in Nat
        /\ schedules[s].roundsStarted \in Nat
        /\ schedules'[s].roundsStarted \in Nat
    BY <2>1 DEF TypeOK, ExtensionRow, ScheduleRow
  <2>5. extensions[r].expectedMaxRounds <= schedules'[s].roundsStarted
    BY <2>2, <2>3, <2>4 DEF Founded
  <2>6. \A q : End(q)' = End(q)
    BY DEF End
  <2> QED BY <2>2, <2>3, <2>5, <2>6 DEF Founded, Present
<1> QED BY <1>1 DEF Chain, End

\* An ordinary step keeps the books.
LEMMA OrdinaryKeeps ==
    ASSUME TypeOK, TypeOK', Books, Ordinary
    PROVE  Books'
<1>1. ASSUME NEW i \in Invocation
      PROVE  /\ RowFine(invocations'[i])
             /\ invocations'[i].scheduleId = invocations[i].scheduleId
             /\ invocations'[i].mode = invocations[i].mode
             /\ Exists(i)' => Exists(i)
             /\ Active(i)' =>
                  /\ Active(i)
                  /\ invocations'[i].ownershipToken = invocations[i].ownershipToken
  BY DEF Ordinary, Follows, Exists, Active
<1>2. ASSUME NEW s \in Schedule
      PROVE  /\ Present(s)' <=> Present(s)
             /\ schedules'[s].status = "unused" <=> schedules[s].status = "unused"
             /\ schedules'[s].maxRounds = schedules[s].maxRounds
             /\ schedules'[s].roundsStarted = schedules[s].roundsStarted
             /\ Present(s) => Account(schedules'[s], s, invocations')
  BY DEF Ordinary, Steady, Present
<1>3. Rows'
  BY <1>1 DEF Rows
<1>4. Tokens'
  BY <1>1, <1>3, TokensKept DEF Books, Ordinary
<1>5. Parents'
  BY <1>1, <1>2, ParentsKept DEF Books
<1>6. Accounts'
  BY <1>2 DEF Accounts
<1>7. Counts'
  BY <1>1, <1>2, RoundsKept, CountsKept DEF Books
<1>8. Chain'
  <2>1. \A s \in Schedule : schedules'[s].roundsStarted >= schedules[s].roundsStarted
    BY <1>2 DEF TypeOK, ScheduleRow
  <2> QED BY <1>2, <2>1, ChainKept DEF Books, Ordinary
<1> QED BY <1>3, <1>4, <1>5, <1>6, <1>7, <1>8 DEF Books

-----------------------------------------------------------------------------
(* The steps that add a row, claim one, or start a round                    *)

\* A claim of a row leaves a fine row, active, under the next token.
LEMMA ClaimedFine ==
    ASSUME NEW row \in InvocationRow, RowFine(row), NEW w \in Worker,
           NEW a \in Nat, issued \in Nat, 0 < a, a <= row.maxAttempts
    PROVE  /\ RowFine(ClaimedBy(row, w, a))
           /\ ClaimedBy(row, w, a).status = "claimed"
           /\ ClaimedBy(row, w, a).scheduleId = row.scheduleId
           /\ ClaimedBy(row, w, a).mode = row.mode
           /\ ClaimedBy(row, w, a).attempt = a
           /\ ClaimedBy(row, w, a).ownershipToken = issued + 1
<1> DEFINE token == issued + 1
           new   == ClaimedBy(row, w, a)
<1>1. token # NoToken
  BY DEF NoToken
<1>2. /\ new.status = "claimed" /\ new.claimedBy = w
      /\ new.ownershipToken = token /\ new.leaseUntil = "future"
      /\ new.attempt = a /\ new.retryAt = "null"
      /\ new.scheduleId = row.scheduleId /\ new.mode = row.mode
      /\ new.maxAttempts = row.maxAttempts
  BY DEF ClaimedBy, InvocationRow
<1>3. w # None
  BY LedgerAssumption
<1> HIDE DEF token, new
<1>4. RowFine(new)
  BY <1>1, <1>2, <1>3 DEF RowFine, ActiveStatuses, NoRow
<1> QED BY <1>2, <1>4 DEF token, new

\* Claiming a live run keeps the books.
LEMMA ClaimKeeps ==
    ASSUME TypeOK, TypeOK', Books, NEW i \in Invocation, Live(i),
           NEW w \in Worker, NEW a \in Nat, 0 < a,
           a <= invocations[i].maxAttempts,
           invocations' = [invocations EXCEPT ![i] = ClaimedBy(@, w, a)],
           issued' = issued + 1, UNCHANGED <<schedules, extensions>>
    PROVE  /\ Books'
           /\ invocations'[i].attempt = a
           /\ invocations'[i].mode = invocations[i].mode
           /\ invocations'[i].scheduleId = invocations[i].scheduleId
<1> DEFINE new == ClaimedBy(invocations[i], w, a)
<1>1. /\ invocations[i] \in InvocationRow
      /\ RowFine(invocations[i])
      /\ issued \in Nat
      /\ invocations[i].status # "unused"
  BY Kinds DEF TypeOK, Books, Rows, Live, NoRow
<1>2. /\ RowFine(new) /\ new.status = "claimed" /\ new.attempt = a
      /\ new.scheduleId = invocations[i].scheduleId
      /\ new.mode = invocations[i].mode
      /\ new.ownershipToken = issued + 1
  BY <1>1, ClaimedFine
<1> HIDE DEF new
<1>3. /\ invocations'[i] = new
      /\ \A j \in Invocation \ {i} : invocations'[j] = invocations[j]
  BY DEF TypeOK, new
<1>4. Rows'
  BY <1>2, <1>3 DEF Rows, Books
<1>5. Tokens'
  BY <1>2, <1>3, TokensClaimed DEF Books
<1>6. Exists(i) /\ new.status \in LiveStatuses
  BY <1>2, Kinds DEF Live, Exists, ActiveStatuses
<1>7. ASSUME NEW j \in Invocation
      PROVE  /\ invocations'[j].scheduleId = invocations[j].scheduleId
             /\ invocations'[j].mode = invocations[j].mode
             /\ Exists(j)' => Exists(j)
             /\ RowFine(invocations[j]) /\ RowFine(invocations'[j])
             /\ invocations'[j].status \in LiveStatuses <=>
                   invocations[j].status \in LiveStatuses
  BY <1>2, <1>3, <1>4, <1>6 DEF Exists, Live, Rows, Books
<1>8. Parents'
  BY <1>7, ParentsKept DEF Present, Books
<1>9. Accounts'
  <2>1. ASSUME NEW s \in Schedule, NEW j \in Invocation
        PROVE  Unsettled(invocations'[j], s) <=> Unsettled(invocations[j], s)
    BY <1>7, UnsettledLive
  <2> QED BY <2>1, SameAccount DEF Accounts, Present, Books
<1>10. Counts'
  BY <1>7, RoundsKept, CountsKept DEF Present, Books
<1>11. Chain'
  <2>1. \A s \in Schedule : schedules'[s].roundsStarted >= schedules[s].roundsStarted
    BY DEF TypeOK, ScheduleRow
  <2> QED BY <2>1, ChainKept DEF Present, Books
<1> QED BY <1>2, <1>3, <1>4, <1>5, <1>8, <1>9, <1>10, <1>11 DEF Books

\* Queueing a manual run keeps the books.
LEMMA EnqueueKeeps ==
    ASSUME TypeOK, TypeOK', Books, NEW s \in Schedule, NEW i \in Invocation,
           NEW n \in {1, RetryBudget}, enqueueManualInvocation(s, i, n)
    PROVE  /\ Books'
           /\ invocations'[i].ownershipToken = NoToken
           /\ \A j \in Invocation \ {i} : invocations'[j] = invocations[j]
           /\ ~Exists(i)
<1> DEFINE new == [UnusedInvocation EXCEPT !.status = "pending",
                      !.scheduleId = s, !.maxAttempts = n]
<1>1. n \in Nat /\ n > 0
  BY LedgerAssumption
<1>2. /\ new.status = "pending" /\ new.scheduleId = s
      /\ new.maxAttempts = n /\ new.attempt = 0 /\ new.mode = "manual"
      /\ new.ownershipToken = NoToken /\ new.claimedBy = None
      /\ new.leaseUntil = "null" /\ new.retryAt = "null"
      /\ new.treeUnsettled = FALSE
  BY DEF UnusedInvocation
<1> HIDE DEF new
<1>3. RowFine(new)
  BY <1>1, <1>2 DEF RowFine, ActiveStatuses, NoRow
<1>4. /\ Present(s) /\ invocations[i].status = "unused"
      /\ UNCHANGED <<schedules, extensions, issued>>
      /\ invocations' = [invocations EXCEPT ![i] = new]
  BY DEF enqueueManualInvocation, UnusedIds, new
<1>5. /\ invocations'[i] = new
      /\ \A j \in Invocation \ {i} : invocations'[j] = invocations[j]
  BY <1>4 DEF TypeOK
<1>6. invocations[i].mode = "manual" /\ ~Exists(i)
  BY <1>4 DEF Books, Rows, RowFine, Exists, NoRow
<1>7. Rows'
  BY <1>3, <1>5 DEF Rows, Books
<1>8. Tokens'
  <2>1. ~Active(i)'
    BY <1>2, <1>5 DEF Active, ActiveStatuses
  <2>2. \A j \in Invocation : Active(j)' =>
          /\ Active(j)
          /\ invocations'[j].ownershipToken = invocations[j].ownershipToken
    BY <1>5, <2>1 DEF Active
  <2> QED BY <1>4, <1>7, <2>2, TokensKept DEF Books
<1>9. Parents'
  <2>1. schedules[s].status # "unused"
    BY <1>4 DEF Present, ScheduleStatuses
  <2> QED BY <1>2, <1>4, <1>5, <2>1 DEF Books, Parents, Present, Exists
<1>10. Accounts'
  <2>1. ASSUME NEW q \in Schedule, NEW j \in Invocation
        PROVE  Unsettled(invocations'[j], q) <=> Unsettled(invocations[j], q)
    BY <1>2, <1>5, <1>6 DEF Unsettled
  <2> QED BY <1>4, <2>1, SameAccount DEF Accounts, Present, Books
<1>11. Counts'
  <2>1. \A q \in Schedule : Rounds(q)' = Rounds(q)
    BY <1>2, <1>5, <1>6 DEF Rounds, RunsOf
  <2> QED BY <1>4, <2>1, CountsKept DEF Present, Books
<1>12. Chain'
  <2>1. \A q \in Schedule : schedules'[q].roundsStarted >= schedules[q].roundsStarted
    BY <1>4 DEF TypeOK, ScheduleRow
  <2> QED BY <1>4, <2>1, ChainKept DEF Present, Books
<1> QED BY <1>2, <1>5, <1>6, <1>7, <1>8, <1>9, <1>10, <1>11, <1>12 DEF Books

\* A new schedule keeps the books: it has no runs and no extensions.
LEMMA CreateKeeps ==
    ASSUME TypeOK, TypeOK', Books, NEW s \in Schedule, NEW m \in 0..MaxRoundsCap,
           NEW next \in Slot, NEW now \in BOOLEAN, createSchedule(s, m, next, now)
    PROVE  Books'
<1> DEFINE new == [status |-> "active", maxRounds |-> m, roundsStarted |-> 0,
                   nextRunAt |-> next, due |-> now]
<1>1. m \in Nat
  BY LedgerAssumption
<1>2. /\ schedules[s].status = "unused"
      /\ schedules' = [schedules EXCEPT ![s] = new]
      /\ UNCHANGED <<invocations, extensions, issued>>
  BY DEF createSchedule
<1>3. /\ new.status = "active" /\ new.maxRounds = m
      /\ new.roundsStarted = 0 /\ new.nextRunAt = next
  OBVIOUS
<1> HIDE DEF new
<1>4. /\ schedules'[s] = new
      /\ \A q \in Schedule \ {s} : schedules'[q] = schedules[q]
  BY <1>2 DEF TypeOK
<1>5. \A i \in Invocation : invocations[i].scheduleId # s
  BY <1>2 DEF Books, Parents
<1>6. ~Present(s)
  BY <1>2 DEF Present, ScheduleStatuses
<1>7. Rows'
  BY <1>2 DEF Rows, Books
<1>8. Tokens'
  BY <1>2 DEF Tokens, Active, Books
<1>9. Parents'
  BY <1>2, <1>4, <1>5 DEF Parents, Present, Exists, Books
<1>10. Accounts'
  <2>1. ~Exhausted(new) /\ next # None
    BY <1>1, <1>3, LedgerAssumption DEF Exhausted, Unlimited
  <2>2. Account(new, s, invocations)
    BY <1>1, <1>3, <2>1 DEF Account
  <2> QED BY <1>2, <1>4, <2>2 DEF Accounts, Present, Books
<1>11. Counts'
  <2>1. \A q \in Schedule : Rounds(q)' = Rounds(q)
    BY <1>2 DEF Rounds, RunsOf
  <2>2. Rounds(s) = {}
    BY <1>5 DEF Rounds, RunsOf
  <2>3. Cardinality({}) = 0
    BY FS_EmptySet
  <2> QED BY <1>3, <1>4, <2>1, <2>2, <2>3 DEF Counts, Present, Books
<1>12. Chain'
  <2>1. \A q \in Schedule : Present(q) =>
           /\ Present(q)'
           /\ schedules'[q].maxRounds = schedules[q].maxRounds
           /\ schedules'[q].roundsStarted >= schedules[q].roundsStarted
    BY <1>4, <1>6 DEF Present, TypeOK, ScheduleRow
  <2> QED BY <1>2, <2>1, ChainKept DEF Books
<1> QED BY <1>7, <1>8, <1>9, <1>10, <1>11, <1>12 DEF Books

\* Removing a schedule, with its runs and its extensions, keeps the books.
LEMMA RemoveKeeps ==
    ASSUME TypeOK, TypeOK', Books, NEW s \in Schedule, NEW abandon,
           removeSchedule(s, abandon)
    PROVE  /\ Books'
           /\ \A i \in Invocation : Follows(invocations[i], invocations'[i])
<1> DEFINE new == [UnusedSchedule EXCEPT !.status = "deleted"]
<1>1. new.status = "deleted"
  BY DEF UnusedSchedule
<1>2. schedules' = [schedules EXCEPT ![s] = new]
  BY DEF removeSchedule
<1> HIDE DEF new
<1>3. /\ schedules'[s] = new
      /\ \A q \in Schedule \ {s} : schedules'[q] = schedules[q]
  BY <1>2 DEF TypeOK
<1>4. ASSUME NEW i \in Invocation
      PROVE  /\ Follows(invocations[i], invocations'[i])
             /\ invocations[i].scheduleId = s => ~Exists(i)'
             /\ invocations[i].scheduleId # s => invocations'[i] = invocations[i]
  <2>1. invocations[i] \in InvocationRow /\ RowFine(invocations[i])
    BY DEF TypeOK, Books, Rows
  <2>2. CASE invocations[i].scheduleId = s
    <3>1. invocations'[i] = DeletedInvocation(invocations[i])
      BY <2>2 DEF removeSchedule, RunsOf
    <3> QED BY <2>1, <2>2, <3>1, DeletedFollows DEF Exists, NoRow
  <2>3. CASE invocations[i].scheduleId # s
    <3>1. invocations'[i] = invocations[i]
      BY <2>3 DEF removeSchedule, RunsOf
    <3> QED BY <2>1, <2>3, <3>1, SameFollows
  <2> QED BY <2>2, <2>3
<1>5. ASSUME NEW i \in Invocation
      PROVE  /\ RowFine(invocations'[i])
             /\ invocations'[i].scheduleId = invocations[i].scheduleId
             /\ invocations'[i].mode = invocations[i].mode
             /\ Exists(i)' => Exists(i)
             /\ Active(i)' =>
                  /\ Active(i)
                  /\ invocations'[i].ownershipToken = invocations[i].ownershipToken
  BY <1>4 DEF Follows, Exists, Active
<1>6. Rows'
  BY <1>5 DEF Rows
<1>7. Tokens'
  BY <1>5, <1>6, TokensKept DEF Books, removeSchedule
<1>8. Parents'
  <2> SUFFICES ASSUME NEW i \in Invocation,
                      invocations'[i].scheduleId \in Schedule
               PROVE  /\ schedules'[invocations'[i].scheduleId].status # "unused"
                      /\ Exists(i)' =>
                           schedules'[invocations'[i].scheduleId].status
                              \in ScheduleStatuses
    BY DEF Parents, Present, Exists
  <2>1. CASE invocations[i].scheduleId = s
    BY <1>1, <1>3, <1>4, <1>5, <2>1
  <2>2. CASE invocations[i].scheduleId # s
    BY <1>3, <1>5, <2>2 DEF Books, Parents, Present
  <2> QED BY <2>1, <2>2
<1>9. ~Present(s)'
  BY <1>1, <1>3 DEF Present, ScheduleStatuses
<1>10. Accounts'
  <2>1. ASSUME NEW q \in Schedule, q # s, Present(q)'
        PROVE  Account(schedules'[q], q, invocations')
    <3>1. schedules'[q] = schedules[q] /\ Present(q)
      BY <1>3, <2>1 DEF Present
    <3>2. \A j \in Invocation :
             Unsettled(invocations'[j], q) <=> Unsettled(invocations[j], q)
      <4> TAKE j \in Invocation
      <4>1. CASE invocations[j].scheduleId = s
        BY <1>5, <2>1, <4>1 DEF Unsettled
      <4>2. CASE invocations[j].scheduleId # s
        BY <1>4, <4>2
      <4> QED BY <4>1, <4>2
    <3> QED BY <3>1, <3>2, SameAccount DEF Books, Accounts
  <2> QED BY <1>9, <2>1 DEF Accounts
<1>11. Counts'
  <2>1. \A q \in Schedule : Rounds(q)' = Rounds(q)
    BY <1>5, RoundsKept
  <2>2. \A q \in Schedule : Present(q)' =>
          /\ Present(q)
          /\ schedules'[q].roundsStarted = schedules[q].roundsStarted
    BY <1>3, <1>9 DEF Present
  <2> QED BY <2>1, <2>2, CountsKept DEF Books
<1>12. Chain'
  <2>1. \A r \in Request :
          /\ extensions[r].scheduleId = s => extensions'[r] = NoExtension
          /\ extensions[r].scheduleId # s => extensions'[r] = extensions[r]
    BY DEF removeSchedule
  <2>2. NoExtension.scheduleId \notin Schedule
    BY LedgerAssumption DEF NoExtension
  <2>3. ASSUME NEW r \in Request, extensions'[r] # NoExtension
        PROVE  /\ extensions[r] # NoExtension /\ extensions'[r] = extensions[r]
               /\ extensions[r].scheduleId \in Schedule \ {s}
               /\ End(r)' = End(r)
    <3>1. extensions[r] # NoExtension /\ extensions'[r] = extensions[r]
          /\ extensions[r].scheduleId # s
      BY <2>1, <2>3
    <3> QED BY <3>1, ExtensionRows DEF End
  <2>4. ASSUME NEW q \in Request, NEW r \in Request,
               extensions'[r] # NoExtension,
               extensions'[q].scheduleId = extensions'[r].scheduleId
        PROVE  /\ extensions'[q] = extensions[q]
               /\ End(q)' = End(q)
    <3>1. extensions'[q] # NoExtension
      BY <2>2, <2>3, <2>4
    <3> QED BY <2>3, <3>1
  <2>5. ASSUME NEW r \in Request, extensions'[r] # NoExtension
        PROVE  Founded(r)'
    <3> DEFINE p == extensions[r].scheduleId
    <3>1. /\ p \in Schedule \ {s} /\ extensions[r] # NoExtension
          /\ extensions'[r] = extensions[r] /\ End(r)' = End(r)
      BY <2>3, <2>5
    <3>2. schedules'[p] = schedules[p]
      BY <1>3, <3>1
    <3>3. Founded(r)
      BY <3>1 DEF Books, Chain
    <3>4. PICK q \in Request : /\ extensions[q].scheduleId = p
                               /\ End(q) = schedules[p].maxRounds
      BY <3>3 DEF Founded
    <3>5. extensions'[q] = extensions[q] /\ End(q)' = End(q)
      BY <2>1, <3>1, <3>4 DEF End
    <3> QED BY <3>1, <3>2, <3>3, <3>4, <3>5 DEF Founded
  <2>6. ASSUME NEW q \in Request, NEW r \in Request, q # r,
               extensions'[r] # NoExtension,
               extensions'[q].scheduleId = extensions'[r].scheduleId
        PROVE  \/ End(q)' <= extensions'[r].expectedMaxRounds
               \/ End(r)' <= extensions'[q].expectedMaxRounds
    BY <2>3, <2>4, <2>6 DEF Books, Chain
  <2> QED BY <2>5, <2>6 DEF Chain
<1> QED BY <1>4, <1>6, <1>7, <1>8, <1>10, <1>11, <1>12 DEF Books

\* Extending a completed schedule keeps the books: the extension begins where
\* the quota ended, and the schedule is active again with rounds left.
LEMMA ExtendKeeps ==
    ASSUME TypeOK, TypeOK', Books, NEW r \in Request, NEW s \in Schedule,
           NEW e \in 1..MaxRoundsCap, NEW n \in 1..MaxRoundsCap,
           NEW next \in Slot, extendSchedule(r, s, e, n, next)
    PROVE  Books'
<1> DEFINE total == e + n
           new == [schedules[s] EXCEPT !.maxRounds = total, !.status = "active",
                                       !.nextRunAt = next, !.due = FALSE]
<1>1. /\ e \in Nat /\ n \in Nat /\ e > 0 /\ n > 0
      /\ total \in Nat /\ total > e /\ total = e + n
  BY LedgerAssumption
<1> HIDE DEF total
<1>2. /\ schedules[s].status = "completed"
      /\ schedules[s].maxRounds = e /\ schedules[s].roundsStarted = e
      /\ extensions[r] = NoExtension
      /\ schedules' = [schedules EXCEPT ![s] = new]
      /\ extensions' = [extensions EXCEPT ![r] =
            [scheduleId |-> s, expectedMaxRounds |-> e, additionalRounds |-> n]]
      /\ UNCHANGED <<invocations, issued>>
  BY DEF extendSchedule, Extendable, total
<1>3. /\ new.status = "active" /\ new.maxRounds = total
      /\ new.roundsStarted = e /\ new.nextRunAt = next
  BY <1>2 DEF TypeOK, ScheduleRow
<1> HIDE DEF new
<1>4. /\ schedules'[s] = new
      /\ \A q \in Schedule \ {s} : schedules'[q] = schedules[q]
  BY <1>2 DEF TypeOK
<1>5. /\ Present(s) /\ Present(s)'
      /\ \A q \in Schedule : Present(q)' <=> Present(q)
      /\ \A q \in Schedule :
            schedules'[q].status = "unused" => schedules[q].status = "unused"
  BY <1>2, <1>3, <1>4 DEF Present, ScheduleStatuses
<1>6. Rows'
  BY <1>2 DEF Rows, Books
<1>7. Tokens'
  BY <1>2 DEF Tokens, Active, Books
<1>8. Parents'
  BY <1>2, <1>5, ParentsKept DEF Exists, Books
<1>9. Accounts'
  <2>1. ~Exhausted(new) /\ next # None
    BY <1>1, <1>3, LedgerAssumption DEF Exhausted
  <2>2. Account(new, s, invocations)
    BY <1>1, <1>3, <2>1 DEF Account
  <2> QED BY <1>2, <1>4, <2>2 DEF Accounts, Present, Books
<1>10. Counts'
  <2>1. \A q \in Schedule : Rounds(q)' = Rounds(q)
    BY <1>2 DEF Rounds, RunsOf
  <2>2. \A q \in Schedule :
           schedules'[q].roundsStarted = schedules[q].roundsStarted
    BY <1>2, <1>3, <1>4
  <2> QED BY <1>5, <2>1, <2>2, CountsKept DEF Books
<1>11. Chain'
  <2>1. /\ extensions'[r].scheduleId = s
        /\ extensions'[r].expectedMaxRounds = e
        /\ End(r)' = total
    BY <1>1, <1>2 DEF TypeOK, End
  <2>2. \A q \in Request \ {r} :
           extensions'[q] = extensions[q] /\ End(q)' = End(q)
    BY <1>2 DEF TypeOK, End
  <2>3. NoExtension.scheduleId \notin Schedule
    BY LedgerAssumption DEF NoExtension
  <2>4. ASSUME NEW q \in Request \ {r}, extensions[q].scheduleId = s
        PROVE  /\ extensions[q] # NoExtension
               /\ End(q) <= e /\ End(q) <= total
    <3>1. extensions[q] # NoExtension
      BY <2>3, <2>4
    <3>2. End(q) <= e
      BY <1>2, <2>4, <3>1 DEF Books, Chain, Founded
    <3>3. End(q) \in Nat
      BY <3>1, ExtensionRows DEF End, ExtensionRow
    <3> QED BY <1>1, <3>1, <3>2, <3>3
  <2>5. ASSUME NEW p \in Request, extensions'[p] # NoExtension
        PROVE  Founded(p)'
    <3>1. CASE p = r
      BY <1>1, <1>3, <1>4, <1>5, <2>1, <3>1 DEF Founded, Present, Unlimited
    <3>2. CASE p # r /\ extensions[p].scheduleId = s
      <4>1. /\ extensions'[p] = extensions[p] /\ End(p)' = End(p)
            /\ End(p) <= total /\ extensions[p] # NoExtension
        BY <2>2, <2>4, <3>2
      <4>2. extensions[p].expectedMaxRounds <= e
        BY <1>2, <3>2, <4>1 DEF Books, Chain, Founded
      <4> QED BY <1>1, <1>3, <1>4, <1>5, <2>1, <3>2, <4>1, <4>2
              DEF Founded, Present, Unlimited
    <3>3. CASE p # r /\ extensions[p].scheduleId # s
      <4> DEFINE z == extensions[p].scheduleId
      <4>1. /\ extensions'[p] = extensions[p] /\ End(p)' = End(p)
            /\ extensions[p] # NoExtension
        BY <2>2, <2>5, <3>3
      <4>2. z \in Schedule \ {s}
        BY <3>3, <4>1, ExtensionRows
      <4>3. schedules'[z] = schedules[z] /\ Founded(p)
        BY <1>4, <4>1, <4>2 DEF Books, Chain
      <4>4. PICK q \in Request : /\ extensions[q].scheduleId = z
                                 /\ End(q) = schedules[z].maxRounds
        BY <4>3 DEF Founded
      <4>5. q # r
        BY <1>2, <2>3, <4>2, <4>4
      <4>6. extensions'[q] = extensions[q] /\ End(q)' = End(q)
        BY <2>2, <4>5
      <4> QED BY <4>1, <4>3, <4>4, <4>6 DEF Founded
    <3> QED BY <3>1, <3>2, <3>3
  <2>6. ASSUME NEW q \in Request, NEW p \in Request, q # p,
               extensions'[p] # NoExtension,
               extensions'[q].scheduleId = extensions'[p].scheduleId
        PROVE  \/ End(q)' <= extensions'[p].expectedMaxRounds
               \/ End(p)' <= extensions'[q].expectedMaxRounds
    <3>1. CASE p = r
      BY <2>1, <2>2, <2>4, <2>6, <3>1
    <3>2. CASE q = r
      BY <2>1, <2>2, <2>4, <2>6, <3>2
    <3>3. CASE p # r /\ q # r
      BY <2>2, <2>6, <3>3 DEF Books, Chain
    <3> QED BY <3>1, <3>2, <3>3
  <2> QED BY <2>5, <2>6 DEF Chain
<1> QED BY <1>6, <1>7, <1>8, <1>9, <1>10, <1>11 DEF Books

\* An active schedule with rounds left that starts one, or skips a slot that is
\* taken, keeps its account: the run it started is still live.
LEMMA AdvancedAccount ==
    ASSUME NEW sch \in ScheduleRow, sch.status = "active", ~Exhausted(sch),
           NEW n \in {0, 1}, NEW next \in Slot, NEW s, NEW invs,
           n = 1 => \E i \in Invocation : Unsettled(invs[i], s)
    PROVE  /\ Advanced(sch, n, next).status = "active"
           /\ Advanced(sch, n, next).maxRounds = sch.maxRounds
           /\ Advanced(sch, n, next).roundsStarted = sch.roundsStarted + n
           /\ Account(Advanced(sch, n, next), s, invs)
<1> DEFINE total == sch.roundsStarted + n
           last  == sch.maxRounds # Unlimited /\ total >= sch.maxRounds
           new   == Advanced(sch, n, next)
<1>1. /\ total \in Nat /\ last \in BOOLEAN /\ next # None
      /\ sch.roundsStarted \in Nat /\ sch.maxRounds \in Nat
      /\ total = sch.roundsStarted + n
  BY LedgerAssumption DEF ScheduleRow
<1>2. last <=> sch.maxRounds # Unlimited /\ total >= sch.maxRounds
  OBVIOUS
<1>3. new = [sch EXCEPT !.roundsStarted = total,
                        !.nextRunAt = IF last THEN None ELSE next,
                        !.due = FALSE]
  BY DEF Advanced
<1> HIDE DEF total, last, new
<1>4. /\ new.status = "active" /\ new.maxRounds = sch.maxRounds
      /\ new.roundsStarted = total
      /\ new.nextRunAt = IF last THEN None ELSE next
  BY <1>3 DEF ScheduleRow
<1>5. Exhausted(new) <=> last
  BY <1>2, <1>4 DEF Exhausted
<1>6. new.nextRunAt = None <=> Exhausted(new)
  BY <1>1, <1>4, <1>5
<1>7. last => n = 1
  BY <1>1, <1>2 DEF Exhausted
<1>8. sch.maxRounds # Unlimited => total <= sch.maxRounds
  BY <1>1 DEF Exhausted
<1>9. Account(new, s, invs)
  BY <1>4, <1>5, <1>6, <1>7, <1>8 DEF Account
<1> QED BY <1>1, <1>4, <1>9 DEF new

\* claimDue skips a slot whose round was started before: the books are kept.
LEMMA SlotSkippedKeeps ==
    ASSUME TypeOK, TypeOK', Books, NEW s \in Schedule, NEW i \in Invocation,
           NEW next \in Slot, claimDueSchedule(s, i, next), SlotTaken(s)
    PROVE  Books' /\ UNCHANGED <<invocations, issued>>
<1> DEFINE new == Advanced(schedules[s], 0, next)
<1>1. /\ schedules[s].status = "active" /\ ~Exhausted(schedules[s])
      /\ schedules' = [schedules EXCEPT ![s] = new]
      /\ UNCHANGED <<invocations, extensions, issued>>
  BY DEF claimDueSchedule, DueNow
<1>2. /\ new.status = "active"
      /\ new.maxRounds = schedules[s].maxRounds
      /\ new.roundsStarted = schedules[s].roundsStarted + 0
      /\ Account(new, s, invocations)
  BY <1>1, AdvancedAccount DEF TypeOK
<1> HIDE DEF new
<1>3. new.roundsStarted = schedules[s].roundsStarted
  BY <1>2 DEF TypeOK, ScheduleRow
<1>4. /\ schedules'[s] = new
      /\ \A q \in Schedule \ {s} : schedules'[q] = schedules[q]
  BY <1>1 DEF TypeOK
<1>5. ASSUME NEW q \in Schedule
      PROVE  Steady(schedules'[q], q)
  <2>1. CASE q = s
    BY <1>1, <1>2, <1>3, <1>4, <2>1 DEF Steady, Present, ScheduleStatuses
  <2>2. CASE q # s
    <3>1. schedules'[q] = schedules[q] /\ invocations' = invocations
      BY <1>1, <1>4, <2>2
    <3>2. Present(q) => Account(schedules'[q], q, invocations')
      BY <3>1 DEF Books, Accounts
    <3> QED BY <3>1, <3>2 DEF Steady, Present
  <2> QED BY <2>1, <2>2
<1>6. \A j \in Invocation : Follows(invocations[j], invocations'[j])
  BY <1>1, SameFollows DEF TypeOK, Books, Rows
<1>7. Ordinary
  BY <1>1, <1>5, <1>6 DEF Ordinary
<1> QED BY <1>1, <1>7, OrdinaryKeeps

\* claimDue starts a round with a run that is claimed at once: the books are
\* kept, the count of rounds included.
LEMMA RoundKeeps ==
    ASSUME TypeOK, TypeOK', Books, NEW s \in Schedule, NEW i \in Invocation,
           NEW next \in Slot, claimDueSchedule(s, i, next), ~SlotTaken(s)
    PROVE  /\ Books'
           /\ ~Exists(i) /\ invocations[i].attempt = 0
           /\ invocations'[i].attempt = 1
           /\ invocations'[i].ownershipToken = issued + 1
           /\ invocations'[i].scheduleId = s
           /\ schedules[s].status = "active"
           /\ \A j \in Invocation \ {i} : invocations'[j] = invocations[j]
<1> DEFINE base == [UnusedInvocation EXCEPT
                      !.scheduleId = s, !.mode = "scheduled",
                      !.scheduledFor = schedules[s].nextRunAt,
                      !.maxAttempts = RetryBudget]
           row  == ClaimedBy(base, claim.worker, 1)
           new  == Advanced(schedules[s], 1, next)
<1>1. /\ claim.open /\ invocations[i].status = "unused"
      /\ schedules[s].status = "active" /\ ~Exhausted(schedules[s])
      /\ schedules' = [schedules EXCEPT ![s] = new]
      /\ invocations' = [invocations EXCEPT ![i] = row]
      /\ issued' = issued + 1 /\ UNCHANGED extensions
  BY DEF claimDueSchedule, DueNow, UnusedIds
<1>2. /\ row.status = "claimed" /\ row.scheduleId = s
      /\ row.mode = "scheduled" /\ row.attempt = 1
      /\ row.ownershipToken = issued + 1 /\ row.claimedBy = claim.worker
      /\ row.leaseUntil = "future" /\ row.retryAt = "null"
      /\ row.maxAttempts = RetryBudget
  BY DEF ClaimedBy, UnusedInvocation
<1>3. claim.worker # None
  <2>1. claim.worker \in Worker
    BY <1>1, OpenClaim DEF TypeOK
  <2> QED BY <2>1, LedgerAssumption
<1> HIDE DEF row, base
<1>4. RowFine(row)
  <2>1. /\ issued + 1 # NoToken /\ RetryBudget >= 1 /\ RetryBudget \in Nat
    BY LedgerAssumption DEF TypeOK, NoToken
  <2> QED BY <1>2, <1>3, <2>1 DEF RowFine, ActiveStatuses, NoRow
<1>5. /\ invocations'[i] = row
      /\ \A j \in Invocation \ {i} : invocations'[j] = invocations[j]
  BY <1>1 DEF TypeOK
<1>6. /\ invocations[i].mode = "manual" /\ ~Exists(i)
      /\ invocations[i].attempt = 0
  BY <1>1 DEF Books, Rows, RowFine, Exists, NoRow
<1>7. /\ new.status = "active"
      /\ new.maxRounds = schedules[s].maxRounds
      /\ new.roundsStarted = schedules[s].roundsStarted + 1
      /\ Account(new, s, invocations')
  <2>1. Unsettled(invocations'[i], s)
    BY <1>2, <1>5 DEF Unsettled, LiveStatuses, ActiveStatuses
  <2> QED BY <1>1, <2>1, AdvancedAccount DEF TypeOK
<1> HIDE DEF new
<1>8. /\ schedules'[s] = new
      /\ \A q \in Schedule \ {s} : schedules'[q] = schedules[q]
      /\ Present(s)
      /\ \A q \in Schedule : Present(q)' <=> Present(q)
  <2>1. /\ schedules'[s] = new
        /\ \A q \in Schedule \ {s} : schedules'[q] = schedules[q]
    BY <1>1 DEF TypeOK
  <2> QED BY <1>1, <1>7, <2>1 DEF Present, ScheduleStatuses
<1>9. Rows'
  BY <1>4, <1>5 DEF Rows, Books
<1>10. Tokens'
  BY <1>1, <1>2, <1>5, TokensClaimed DEF Books
<1>11. Parents'
  <2>1. schedules'[s].status # "unused"
    BY <1>7, <1>8
  <2> QED BY <1>2, <1>5, <1>8, <2>1 DEF Books, Parents, Present, Exists
<1>12. Accounts'
  <2>1. ASSUME NEW q \in Schedule, q # s, NEW j \in Invocation
        PROVE  Unsettled(invocations'[j], q) <=> Unsettled(invocations[j], q)
    BY <1>2, <1>5, <1>6, <2>1 DEF Unsettled
  <2>2. ASSUME NEW q \in Schedule, q # s, Present(q)'
        PROVE  Account(schedules'[q], q, invocations')
    BY <1>8, <2>1, <2>2, SameAccount DEF Books, Accounts
  <2> QED BY <1>7, <1>8, <2>2 DEF Accounts
<1>13. Counts'
  <2>1. \A q \in Schedule \ {s} : Rounds(q)' = Rounds(q)
    BY <1>2, <1>5, <1>6 DEF Rounds, RunsOf
  <2>2. Rounds(s)' = Rounds(s) \cup {i} /\ i \notin Rounds(s)
    BY <1>2, <1>5, <1>6 DEF Rounds, RunsOf
  <2>3. IsFiniteSet(Rounds(s))
    BY DEF Books, Counts
  <2>4. /\ IsFiniteSet(Rounds(s) \cup {i})
        /\ Cardinality(Rounds(s) \cup {i}) = Cardinality(Rounds(s)) + 1
    BY <2>2, <2>3, FS_AddElement
  <2>5. schedules'[s].roundsStarted = Cardinality(Rounds(s)')
    <3>1. schedules[s].roundsStarted = Cardinality(Rounds(s))
      BY <1>8 DEF Books, Counts
    <3> QED BY <1>7, <1>8, <2>2, <2>4, <3>1
  <2>6. ASSUME NEW q \in Schedule
        PROVE  /\ IsFiniteSet(Rounds(q)')
               /\ Present(q)' =>
                    schedules'[q].roundsStarted = Cardinality(Rounds(q)')
    <3>1. CASE q = s
      BY <2>2, <2>4, <2>5, <3>1
    <3>2. CASE q # s
      BY <1>8, <2>1, <3>2 DEF Books, Counts
    <3> QED BY <3>1, <3>2
  <2> QED BY <2>6 DEF Counts
<1>14. Chain'
  <2>1. \A q \in Schedule : Present(q) =>
           /\ Present(q)'
           /\ schedules'[q].maxRounds = schedules[q].maxRounds
           /\ schedules'[q].roundsStarted >= schedules[q].roundsStarted
    <3> TAKE q \in Schedule
    <3>1. schedules[q].roundsStarted \in Nat
      BY DEF TypeOK, ScheduleRow
    <3>2. CASE q = s
      BY <1>7, <1>8, <3>1, <3>2
    <3>3. CASE q # s
      BY <1>8, <3>1, <3>3
    <3> QED BY <3>2, <3>3
  <2> QED BY <1>1, <2>1, ChainKept DEF Books
<1> QED BY <1>1, <1>2, <1>5, <1>6, <1>9, <1>10, <1>11, <1>12, <1>13, <1>14 DEF Books

-----------------------------------------------------------------------------
(* Every step keeps the books                                               *)

\* What a step may do to the attempts and the tokens of row i: an attempt is
\* never taken back, and a new token is one nobody has seen, for the next
\* attempt, of a schedule that is active if the run is a scheduled one.
Moves(i) ==
    /\ Exists(i) /\ Exists(i)' =>
         invocations'[i].attempt >= invocations[i].attempt
    /\ invocations'[i].ownershipToken \notin
         {NoToken, invocations[i].ownershipToken} =>
         /\ invocations'[i].ownershipToken > issued
         /\ invocations'[i].attempt = invocations[i].attempt + 1
         /\ invocations'[i].mode = "scheduled" =>
              schedules[invocations'[i].scheduleId].status = "active"

\* A row that follows the one before moves nothing.
LEMMA FollowsMoves ==
    ASSUME TypeOK, NEW i \in Invocation,
           Follows(invocations[i], invocations'[i])
    PROVE  Moves(i)
<1>1. invocations[i].attempt \in Nat
  BY DEF TypeOK, InvocationRow
<1>2. Exists(i)' => invocations'[i].attempt = invocations[i].attempt
  BY DEF Follows, Exists
<1>3. invocations'[i].ownershipToken # NoToken =>
         invocations'[i].ownershipToken = invocations[i].ownershipToken
  BY DEF Follows, RowFine
<1> QED BY <1>1, <1>2, <1>3 DEF Moves

\* So does a row that is left alone.
LEMMA StaysMoves ==
    ASSUME TypeOK, NEW i \in Invocation, invocations'[i] = invocations[i]
    PROVE  Moves(i)
BY DEF Moves, TypeOK, InvocationRow

\* A run that is claimed moves to its next attempt, under a new token.
LEMMA ClaimMoves ==
    ASSUME TypeOK, NEW i \in Invocation, issued \in Nat,
           invocations'[i].ownershipToken = issued + 1,
           invocations'[i].attempt = invocations[i].attempt + 1,
           invocations'[i].mode = "scheduled" =>
              schedules[invocations'[i].scheduleId].status = "active"
    PROVE  Moves(i)
BY DEF Moves, TypeOK, InvocationRow

\* The rows claimDue has still to visit are live.
LEMMA TodoLive ==
    ASSUME SnapshotFresh, NEW i \in claim.todo
    PROVE  i \in Invocation /\ Live(i)
BY Kinds DEF SnapshotFresh, LiveRows, Live, Active

\* A claim of a live run, be it the first or the next attempt, keeps the books
\* and moves it.
LEMMA ClaimStep ==
    ASSUME TypeOK, TypeOK', Books, NEW i \in Invocation, Live(i),
           NEW w \in Worker, NextAttempt(i) <= invocations[i].maxAttempts,
           invocations' = [invocations EXCEPT ![i] =
                              ClaimedBy(@, w, NextAttempt(i))],
           issued' = issued + 1, UNCHANGED <<schedules, extensions>>,
           invocations[i].mode = "scheduled" =>
              schedules[invocations[i].scheduleId].status # "paused"
    PROVE  Books' /\ \A j \in Invocation : Moves(j)
<1> DEFINE a == NextAttempt(i)
<1>1. /\ invocations[i] \in InvocationRow /\ RowFine(invocations[i])
      /\ issued \in Nat
  BY DEF TypeOK, Books, Rows
<1>2. a \in Nat /\ a > 0 /\ a = invocations[i].attempt + 1
  BY <1>1 DEF NextAttempt, RowFine, InvocationRow
<1> HIDE DEF a
<1>3. /\ a <= invocations[i].maxAttempts
      /\ invocations' = [invocations EXCEPT ![i] = ClaimedBy(@, w, a)]
  BY DEF a
<1>4. /\ Books'
      /\ invocations'[i].attempt = a
      /\ invocations'[i].mode = invocations[i].mode
      /\ invocations'[i].scheduleId = invocations[i].scheduleId
  BY <1>2, <1>3, ClaimKeeps, ZenonT(40)
<1>5. invocations'[i].ownershipToken = issued + 1
  BY <1>3 DEF TypeOK, ClaimedBy, InvocationRow
<1>6. invocations[i].mode = "scheduled" =>
         schedules[invocations[i].scheduleId].status = "active"
  <2> SUFFICES ASSUME invocations[i].mode = "scheduled"
               PROVE  schedules[invocations[i].scheduleId].status = "active"
    OBVIOUS
  <2> DEFINE s == invocations[i].scheduleId
  <2>1. Exists(i)
    BY Kinds DEF Live, Exists
  <2>2. s \in Schedule /\ Present(s)
    BY <2>1 DEF TypeOK, Books, Parents
  <2>3. Unsettled(invocations[i], s)
    BY DEF Unsettled, Live
  <2>4. schedules[s].status # "completed"
    BY <2>2, <2>3 DEF Books, Accounts, Account
  <2> QED BY <2>2, <2>4 DEF Present, ScheduleStatuses
<1>7. Moves(i)
  BY <1>1, <1>2, <1>4, <1>5, <1>6, ClaimMoves
<1>8. \A j \in Invocation \ {i} : Moves(j)
  BY <1>3, StaysMoves DEF TypeOK
<1> QED BY <1>4, <1>7, <1>8

\* Every step keeps the books, and moves every row as it may.
LEMMA BooksStep ==
    ASSUME Inv, TypeOK', [Next]_vars
    PROVE  Books' /\ \A i \in Invocation : Moves(i)
<1> USE DEF Inv
<1>1. ASSUME Ordinary
      PROVE  Books' /\ \A i \in Invocation : Moves(i)
  BY <1>1, OrdinaryKeeps, FollowsMoves DEF Ordinary
<1>2. Rows /\ Accounts /\ Parents
  BY DEF Books
<1>3. CASE ScheduleStep
  <2>1. PICK s \in Schedule :
          \/ \E m \in 0..MaxRoundsCap, next \in Slot, now \in BOOLEAN :
                createSchedule(s, m, next, now)
          \/ resumeSchedule(s)
          \/ \E settled \in SUBSET RunsOf(s) : pauseSchedule(s, settled)
          \/ \E r \in Request, e \in 1..MaxRoundsCap, n \in 1..MaxRoundsCap,
                next \in Slot : extendSchedule(r, s, e, n, next)
          \/ \E abandon \in BOOLEAN : removeSchedule(s, abandon)
    BY <1>3 DEF ScheduleStep
  <2>2. CASE \/ resumeSchedule(s)
             \/ \E settled \in SUBSET RunsOf(s) : pauseSchedule(s, settled)
    BY <1>1, <1>2, <2>2, ResumeOrdinary, PauseOrdinary
  <2>3. ASSUME NEW m \in 0..MaxRoundsCap, NEW next \in Slot,
               NEW now \in BOOLEAN, createSchedule(s, m, next, now)
        PROVE  Books' /\ \A i \in Invocation : Moves(i)
    BY <2>3, CreateKeeps, StaysMoves DEF createSchedule
  <2>4. ASSUME NEW r \in Request, NEW e \in 1..MaxRoundsCap,
               NEW n \in 1..MaxRoundsCap, NEW next \in Slot,
               extendSchedule(r, s, e, n, next)
        PROVE  Books' /\ \A i \in Invocation : Moves(i)
    <3>1. Books'
      BY <2>4, ExtendKeeps
    <3>2. \A i \in Invocation : invocations'[i] = invocations[i]
      BY <2>4 DEF extendSchedule
    <3> QED BY <3>1, <3>2, StaysMoves
  <2>5. ASSUME NEW abandon \in BOOLEAN, removeSchedule(s, abandon)
        PROVE  Books' /\ \A i \in Invocation : Moves(i)
    BY <2>5, RemoveKeeps, FollowsMoves
  <2> QED BY <2>1, <2>2, <2>3, <2>4, <2>5
<1>4. CASE ManualStep
  <2>1. ASSUME NEW i \in Invocation, NEW s \in Schedule,
               NEW n \in {1, RetryBudget}, enqueueManualInvocation(s, i, n)
        PROVE  Books' /\ \A j \in Invocation : Moves(j)
    <3>1. /\ Books'
          /\ invocations'[i].ownershipToken = NoToken
          /\ \A j \in Invocation \ {i} : invocations'[j] = invocations[j]
          /\ ~Exists(i)
      BY <2>1, EnqueueKeeps
    <3>2. Moves(i)
      BY <3>1 DEF Moves
    <3> QED BY <3>1, <3>2, StaysMoves
  <2>2. ASSUME NEW i \in Invocation, NEW w \in Worker,
               claimPendingInvocation(i, w)
        PROVE  Books' /\ \A j \in Invocation : Moves(j)
    <3>1. /\ invocations[i].status = "pending"
          /\ NextAttempt(i) = 1
          /\ invocations' = [invocations EXCEPT ![i] =
                                ClaimedBy(@, w, NextAttempt(i))]
          /\ issued' = issued + 1 /\ UNCHANGED <<schedules, extensions>>
      BY <2>2 DEF claimPendingInvocation, NextAttempt
    <3>2. /\ Live(i) /\ invocations[i].mode = "manual"
          /\ NextAttempt(i) <= invocations[i].maxAttempts
      BY <1>2, <3>1, Kinds DEF Live, Rows, RowFine, TypeOK, InvocationRow
    <3> QED BY <3>1, <3>2, ClaimStep
  <2>3. ASSUME NEW i \in Invocation, discardPendingInvocation(i)
        PROVE  Books' /\ \A j \in Invocation : Moves(j)
    BY <1>1, <1>2, <2>3, DiscardOrdinary
  <2> QED BY <1>4, <2>1, <2>2, <2>3 DEF ManualStep
<1>5. CASE ClaimDueStep
  <2>1. CASE ClaimDueQuiet
    BY <1>1, <1>2, <2>1, ClaimDueQuietOrdinary
  <2>2. ASSUME NEW i \in Invocation, claimDueReclaim(i)
        PROVE  Books' /\ \A j \in Invocation : Moves(j)
    <3>1. Live(i) /\ claim.worker \in Worker
      BY <2>2, TodoLive, OpenClaim DEF claimDueReclaim, InClaim, TypeOK
    <3>2. /\ NextAttempt(i) <= invocations[i].maxAttempts
          /\ invocations' = [invocations EXCEPT ![i] =
                                ClaimedBy(@, claim.worker, NextAttempt(i))]
          /\ issued' = issued + 1 /\ UNCHANGED <<schedules, extensions>>
      BY <2>2 DEF claimDueReclaim
    <3>3. invocations[i].mode = "scheduled" =>
             schedules[invocations[i].scheduleId].status # "paused"
      BY <2>2 DEF claimDueReclaim, AbandonedByPause, ScheduleOf
    <3> QED BY <3>1, <3>2, <3>3, ClaimStep
  <2>3. ASSUME NEW i \in Invocation, NEW s \in Schedule, NEW next \in Slot,
               claimDueSchedule(s, i, next)
        PROVE  Books' /\ \A j \in Invocation : Moves(j)
    <3>1. CASE SlotTaken(s)
      BY <2>3, <3>1, SlotSkippedKeeps, StaysMoves
    <3>2. CASE ~SlotTaken(s)
      <4>1. /\ Books' /\ invocations[i].attempt = 0
            /\ invocations'[i].attempt = 1
            /\ invocations'[i].ownershipToken = issued + 1
            /\ invocations'[i].scheduleId = s
            /\ schedules[s].status = "active"
            /\ \A j \in Invocation \ {i} : invocations'[j] = invocations[j]
        BY <2>3, <3>2, RoundKeeps
      <4>2. Moves(i)
        BY <4>1, ClaimMoves DEF TypeOK
      <4> QED BY <4>1, <4>2, StaysMoves
    <3> QED BY <3>1, <3>2
  <2> QED BY <1>5, <2>1, <2>2, <2>3 DEF ClaimDueStep, ClaimDueQuiet
<1>6. CASE RunStep
  BY <1>1, <1>2, <1>6, RunStepOrdinary
<1>7. CASE CancelStep
  BY <1>1, <1>2, <1>7, CancelStepOrdinary
<1>8. CASE ClockStep
  BY <1>1, <1>2, <1>8, ClockStepOrdinary
<1>9. CASE UNCHANGED vars
  <2>1. Ordinary
    <3>1. \A i \in Invocation : Follows(invocations[i], invocations'[i])
      BY <1>2, <1>9, SameFollows DEF vars, TypeOK, Rows
    <3>2. UNCHANGED <<schedules, extensions, issued, invocations>>
      BY <1>9 DEF vars
    <3> QED BY <1>2, <3>1, <3>2, QuietOrdinary
  <2> QED BY <1>1, <2>1
<1> QED BY <1>3, <1>4, <1>5, <1>6, <1>7, <1>8, <1>9 DEF Next

\* The empty ledger keeps its books.
LEMMA InitBooks == Init => Books
<1> SUFFICES ASSUME Init PROVE Books
  OBVIOUS
<1>1. \A i \in Invocation :
         /\ invocations[i] = UnusedInvocation
         /\ invocations[i].status = "unused"
         /\ invocations[i].scheduleId = None
         /\ invocations[i].mode = "manual"
         /\ ~Active(i) /\ ~Exists(i)
         /\ invocations[i].ownershipToken = 0
  BY DEF Init, UnusedInvocation, Active, Exists, ActiveStatuses, NoRow, NoToken
<1>2. \A s \in Schedule : ~Present(s)
  BY DEF Init, UnusedSchedule, Present, ScheduleStatuses
<1>3. Rows
  <2>1. RowFine(UnusedInvocation)
    BY DEF RowFine, UnusedInvocation, ActiveStatuses, NoRow, NoToken
  <2> QED BY <1>1, <2>1 DEF Rows
<1>4. Tokens
  BY <1>1 DEF Init, Tokens
<1>5. Parents
  BY <1>1, LedgerAssumption DEF Parents
<1>6. Accounts
  BY <1>2 DEF Accounts
<1>7. Counts
  <2>1. \A s \in Schedule : Rounds(s) = {}
    BY <1>1 DEF Rounds, RunsOf
  <2> QED BY <1>2, <2>1, FS_EmptySet DEF Counts
<1>8. Chain
  BY DEF Init, Chain
<1> QED BY <1>3, <1>4, <1>5, <1>6, <1>7, <1>8 DEF Books

\* The invariant holds in every reachable state of the ledger.
LEMMA Inductive ==
    /\ Init => Inv
    /\ Inv /\ [Next]_vars => Inv'
<1>1. Init => Inv
  BY InitOK, InitBooks DEF Inv
<1>2. Inv /\ [Next]_vars => Inv'
  <2> SUFFICES ASSUME Inv, [Next]_vars PROVE Inv'
    OBVIOUS
  <2>1. TypeOK'
    BY TypeStep DEF Inv
  <2>2. SnapshotFresh'
    BY SnapshotStep DEF Inv
  <2>3. Books'
    BY <2>1, BooksStep
  <2> QED BY <2>1, <2>2, <2>3 DEF Inv
<1> QED BY <1>1, <1>2

\* Every row is one that claimDue, a failure or a cancellation can deal with:
\* its columns are of their kind and agree with its status, tokens are not
\* shared, its attempts are within its budget, and its schedule is there.
THEOREM RowsAreConsistent == Spec => []RowsConsistent
<1>1. Inv => RowsConsistent
  <2> SUFFICES ASSUME Inv PROVE RowsConsistent
    OBVIOUS
  <2>1. ASSUME NEW i \in Invocation
        PROVE  RowFine(invocations[i]) /\ invocations[i].ownershipToken <= issued
    BY DEF Inv, Books, Rows, Tokens
  <2>2. ASSUME NEW i \in Invocation, NEW j \in Invocation, Active(i),
               invocations[i].ownershipToken = invocations[j].ownershipToken
        PROVE  i = j
    <3>1. Active(j)
      BY <2>1, <2>2 DEF RowFine, Active
    <3> QED BY <2>2, <3>1 DEF Inv, Books, Tokens
  <2>3. OwnershipShape
    BY <2>1, <2>2 DEF OwnershipShape, RowFine, Active
  <2>4. AttemptBudget
    BY <2>1 DEF AttemptBudget, RowFine, Active
  <2>5. References
    <3>1. ASSUME NEW i \in Invocation, Exists(i)
          PROVE  Present(invocations[i].scheduleId)
      BY <3>1 DEF Inv, TypeOK, Books, Parents
    <3>2. ASSUME NEW r \in Request, extensions[r] # NoExtension
          PROVE  Present(extensions[r].scheduleId)
      BY <3>2 DEF Inv, Books, Chain, Founded, Present
    <3> QED BY <3>1, <3>2 DEF References
  <2> QED BY <2>3, <2>4, <2>5 DEF RowsConsistent, Inv
<1> QED BY <1>1, Inductive, PTL DEF Spec

\* Status, trigger, quota and extensions of every schedule agree with each other
\* and with its runs, after every transaction.
THEOREM AccountsBalance == Spec => []ScheduleAccounts
<1>1. Inv => ScheduleAccounts
  <2> SUFFICES ASSUME Inv PROVE ScheduleAccounts
    OBVIOUS
  <2>1. SettledExactly
    BY DEF Inv, Books, Accounts, Account, SettledExactly
  <2>2. TriggerArmed
    BY DEF Inv, Books, Accounts, Account, TriggerArmed
  <2>3. RoundsAccounting
    BY DEF Inv, Books, Accounts, Account, Counts, Rounds, RoundsAccounting
  <2>4. ExtendExactlyOnce
    <3> SUFFICES ASSUME NEW r \in Request, extensions[r] # NoExtension
                 PROVE  LET peers == {q \in Request :
                              extensions[q].scheduleId = extensions[r].scheduleId}
                        IN  /\ \E q \in peers : End(q) =
                                 schedules[extensions[r].scheduleId].maxRounds
                            /\ \A q \in peers \ {r} :
                                 \/ End(q) <= extensions[r].expectedMaxRounds
                                 \/ End(r) <= extensions[q].expectedMaxRounds
                            /\ schedules[extensions[r].scheduleId].roundsStarted
                                 >= extensions[r].expectedMaxRounds
      BY DEF ExtendExactlyOnce, End
    <3>1. Founded(r)
      BY DEF Inv, Books, Chain
    <3>2. /\ extensions[r].expectedMaxRounds \in Nat
          /\ schedules[extensions[r].scheduleId].roundsStarted \in Nat
      BY ExtensionRows DEF Inv, TypeOK, ExtensionRow, ScheduleRow
    <3>3. \A q \in Request \ {r} :
            extensions[q].scheduleId = extensions[r].scheduleId =>
              \/ End(q) <= extensions[r].expectedMaxRounds
              \/ End(r) <= extensions[q].expectedMaxRounds
      BY DEF Inv, Books, Chain
    <3> QED BY <3>1, <3>2, <3>3 DEF Founded
  <2> QED BY <2>1, <2>2, <2>3, <2>4 DEF ScheduleAccounts
<1> QED BY <1>1, Inductive, PTL DEF Spec

\* A token is handed out once and each claim of a run is a new attempt.
THEOREM ClaimsAreFenced == Spec => ClaimFenced
<1>1. Inv /\ [Next]_vars =>
        [\A i \in Invocation :
           /\ Exists(i) /\ Exists(i)' =>
                invocations'[i].attempt >= invocations[i].attempt
           /\ invocations'[i].ownershipToken \notin
                {NoToken, invocations[i].ownershipToken} =>
                /\ invocations'[i].ownershipToken > issued
                /\ invocations'[i].attempt = invocations[i].attempt + 1]_vars
  <2>1. ASSUME Inv, [Next]_vars
        PROVE  \A i \in Invocation : Moves(i)
    <3>1. TypeOK'
      BY <2>1, TypeStep DEF Inv
    <3> QED BY <2>1, <3>1, BooksStep
  <2> QED BY <2>1 DEF Moves
<1> QED BY <1>1, Inductive, PTL DEF Spec, ClaimFenced

\* No attempt of a scheduled run starts while its schedule is paused or
\* completed.
THEOREM ScheduledRunsStartActive == Spec => ScheduledStartsActive
<1>1. Inv /\ [Next]_vars =>
        [\A i \in Invocation :
           /\ invocations'[i].mode = "scheduled"
           /\ invocations'[i].ownershipToken \notin
                {NoToken, invocations[i].ownershipToken}
           => schedules[invocations'[i].scheduleId].status = "active"]_vars
  <2>1. ASSUME Inv, [Next]_vars
        PROVE  \A i \in Invocation : Moves(i)
    <3>1. TypeOK'
      BY <2>1, TypeStep DEF Inv
    <3> QED BY <2>1, <3>1, BooksStep
  <2> QED BY <2>1 DEF Moves
<1> QED BY <1>1, Inductive, PTL DEF Spec, ScheduledStartsActive
=============================================================================
