---------------------------- MODULE SchedulerHost ----------------------------
(***************************************************************************)
(* The processes around the ledger: packages/core/src/scheduler-host.      *)
(*   - the daemon (daemon.ts): claims, launches an executor per claim, keeps *)
(*     a map of them, renews their leases, stops them at max-run and settles *)
(*     the row when the process exits; it may crash or be stopped;          *)
(*   - the executors (execute-invocation.ts, cli/commands/schedule-exec.ts): *)
(*     begin, preflight cleanup, turn, settle cleanup, result;              *)
(*   - an inline run (cli/commands/schedule-run-now.ts --inline), which is a *)
(*     host of one executor;                                                *)
(*   - `cancel --kill` (cancel-invocation.ts), with the awaits between its   *)
(*     reads and its write.                                                 *)
(* Every ledger action below is one of ScheduleLedger; what the ledger asks *)
(* of the world (is this executor dead, is this tree gone) is answered from *)
(* the processes.  Platform: Linux, where the processes of a run are found  *)
(* by the mark in their environment.                                        *)
(***************************************************************************)
EXTENDS ScheduleLedger

CONSTANTS
    Daemon,          \* the worker that is the daemon; the others run inline
    Scenarios        \* bound: what a behaviour may meet

ASSUME HostAssumption ==
    /\ Daemon \in Worker
    /\ None \notin Invocation      \* an id is not NULL
    /\ \A s \in Scenarios :
          /\ s.crashes \in Nat        \* times the daemon dies
          /\ s.cancels \in Nat        \* cancel commands
          /\ s.probesMayFail \in BOOLEAN
          /\ s.commands \subseteq {"pause", "manual", "inline", "stop"}

VARIABLES
    scenario,   \* the bounds of this behaviour, chosen at the start
    daemon,     \* "down", "up" or "stopping"
    crashes,    \* times it died so far
    launching,  \* runs claimed by the tick under way and not launched yet
    entries,    \* per run, its host's record: the daemon's map `running`
    procs,      \* the executor processes; an identity is used once
    cancel,     \* the cancel command under way
    cancels     \* cancel commands so far

hostVars == <<scenario, daemon, crashes, launching, entries, procs, cancel, cancels>>
allVars  == <<vars, hostVars>>

-----------------------------------------------------------------------------
(* Processes                                                                *)

\* starting -> preflight -> turn -> settle -> write -> leaving -> gone, with
\* preflight -> refused -> leaving and settle -> leaving when processes survive
\* the cleanup.  A process that is leaving has no write left to do.
LivePhases ==
    {"starting", "preflight", "refused", "turn", "settle", "write", "leaving"}

Proc ==
    [phase : LivePhases \cup {"unused", "gone"},
     inv : Invocation \cup {None},
     token : Nat,
     attempt : Nat,
     ok : BOOLEAN,        \* the turn ended with a result
     stop : BOOLEAN,      \* SIGTERM received
     kids : {"none", "group", "own"},  \* tool processes: in the executor's
                                       \* process group, or in one of their own
     ran : BOOLEAN]       \* its turn has started (kept for the properties)

UnusedProc ==
    [phase |-> "unused", inv |-> None, token |-> NoToken, attempt |-> 0,
     ok |-> FALSE, stop |-> FALSE, kids |-> "none", ran |-> FALSE]

RootAlive(e)   == procs[e].phase \in LivePhases
ProcsOf(i)     == {e \in Executor : procs[e].inv = i}
Leftover(e)    == RootAlive(e) \/ procs[e].kids # "none"
FreshProcs     == {e \in Executor : procs[e].phase = "unused"}

\* A process that ended; what it knew went with it.
Gone(p, kids) ==
    [UnusedProc EXCEPT !.phase = "gone", !.inv = p.inv, !.attempt = p.attempt,
                       !.ran = p.ran, !.kids = kids]

\* It has only to exit: what it knew no longer matters.
Leaving(p) == [p EXCEPT !.phase = "leaving", !.token = NoToken,
                        !.ok = FALSE, !.stop = FALSE]

\* SIGKILL to the executor's process group.
GroupKilled(p) == Gone(p, IF p.kids = "group" THEN "none" ELSE p.kids)

\* (bug) looks at the executor alone
ExecutorDead_rootOnly(e) == ~RootAlive(e)

\* probeExecutorLiveness answers "dead" only of a root that is gone with every
\* member of its group.
ExecutorDead(e) == ~RootAlive(e) /\ procs[e].kids # "group"

\* (bug) takes a probe that fails for one that confirms
ProbeAnswers_trusting(b) == IF scenario.probesMayFail THEN {b, TRUE} ELSE {b}

\* What a probe may answer when the truth is `b`.
ProbeAnswers(b) == IF scenario.probesMayFail THEN {b, FALSE} ELSE {b}

\* probeInvocationTreeSettled: no process carries the mark of run i.
TreeGone(i) == \A e \in ProcsOf(i) : ~Leftover(e)

\* (bug) stops the executors and leaves what they started
TornDown_rootOnly(i, self, clean) ==
    [e \in Executor |->
        IF ~clean \/ e \notin ProcsOf(i) THEN procs[e]
        ELSE IF e = self THEN [procs[e] EXCEPT !.kids = "none"]
        ELSE Gone(procs[e], procs[e].kids)]

\* (bug) does not find what the calling executor started
TornDown_notOwn(i, self, clean) ==
    [e \in Executor |->
        IF ~clean \/ e \notin ProcsOf(i) \/ e = self THEN procs[e]
        ELSE Gone(procs[e], "none")]

\* terminateInvocationTree by `self`; a cleanup that is not clean may have
\* killed any part of the tree, which those processes also do by themselves.
TornDown(i, self, clean) ==
    [e \in Executor |->
        IF ~clean \/ e \notin ProcsOf(i) THEN procs[e]
        ELSE IF e = self THEN [procs[e] EXCEPT !.kids = "none"]
        ELSE Gone(procs[e], "none")]

-----------------------------------------------------------------------------
(* Hosts                                                                    *)

\* "running": in the daemon's map (or an inline run waiting for its child).
\* "armed": dropped from the map, its kill timer still to fire (which it does
\* before a lease that was renewed while the entry was held can expire).
Entry ==
    [state : {"running", "armed"}, worker : Worker, token : Nat, attempt : Nat,
     proc : Executor, timedOut : BOOLEAN, late : BOOLEAN]

NoEntry ==
    [state |-> "none", worker |-> None, token |-> NoToken, attempt |-> 0,
     proc |-> None, timedOut |-> FALSE, late |-> FALSE]

Held(w) == {i \in Invocation : /\ entries[i].state = "running"
                               /\ entries[i].worker = w}

\* killing -> check -> teardown -> finalize
NoCancel == [phase |-> "idle", inv |-> None, attempt |-> 0, proc |-> None,
             tears |-> FALSE, tree |-> "none"]

CancelState ==
    {NoCancel} \cup
    [phase : {"killing", "check", "teardown", "finalize"}, inv : Invocation,
     attempt : Nat, proc : Executor \cup {None},
     tears : BOOLEAN,     \* it will tear down the process tree
     tree : {"none", "settled", "unsettled"}]

HostInit ==
    /\ Init
    /\ scenario \in Scenarios
    /\ daemon = "down"
    /\ crashes = 0
    /\ launching = {}
    /\ entries = [i \in Invocation |-> NoEntry]
    /\ procs = [e \in Executor |-> UnusedProc]
    /\ cancel = NoCancel
    /\ cancels = 0

\* (bug) drops the run and keeps the identity of its process
Dropped_halfway(i) == [entries EXCEPT ![i].state = "none"]

Dropped(i) == [entries EXCEPT ![i] = NoEntry]

\* A process for the claim of run i that was given `token`.
Spawned(i, e, token, attempt) ==
    [procs EXCEPT ![e] = [UnusedProc EXCEPT !.phase = "starting", !.inv = i,
                                            !.token = token, !.attempt = attempt]]

EntryFor(w, e, token, attempt) ==
    [NoEntry EXCEPT !.state = "running", !.worker = w, !.token = token,
                    !.attempt = attempt, !.proc = e]

\* failInvocation by the process that was given `token`; the call writes nothing
\* when the run is no longer its own, or when the tree blocks a final failure.
CallFail(i, token, terminal) ==
    \E settled \in ProbeAnswers(TreeGone(i)) :
        IF /\ HoldsToken(i, token)
           /\ terminal \/ Spent(invocations[i])
                 => ~TreeBlocks(invocations[i], settled)
        THEN failInvocation(i, token, terminal, settled)
        ELSE Idle /\ UNCHANGED vars

\* The row that `i`'s entry was for is still that claim's after the step.
StillHeld(i) == /\ invocations'[i].status \in ActiveStatuses
                /\ invocations'[i].ownershipToken = entries[i].token

CallRecord(i, token, unsettled) ==
    IF HoldsToken(i, token) THEN recordInvocationTree(i, token, unsettled)
                            ELSE Idle /\ UNCHANGED vars

-----------------------------------------------------------------------------
(* Commands that only write to the ledger                                   *)

userCommand ==
    /\ \E s \in Schedule :
          \/ \E m \in 0..MaxRoundsCap, next \in Slot, now \in BOOLEAN :
                createSchedule(s, m, next, now)
          \/ "pause" \in scenario.commands /\ resumeSchedule(s)
          \/ /\ "pause" \in scenario.commands
             /\ \E settled \in SUBSET {i \in RunsOf(s) : TreeGone(i)} :
                   pauseSchedule(s, settled)
          \/ /\ "manual" \in scenario.commands
             /\ \E i \in Invocation : enqueueManualInvocation(s, i, RetryBudget)
    /\ UNCHANGED hostVars

clock ==
    /\ ClockStep
    /\ UNCHANGED hostVars

-----------------------------------------------------------------------------
(* The daemon                                                               *)

startDaemon ==
    /\ daemon = "down"
    /\ daemon' = "up"
    /\ UNCHANGED <<vars, crashes, launching, entries, procs, cancel, cancels>>

\* Its executors are detached and survive it.  (A claimDue under way is rolled
\* back: it never began.)
crashDaemon ==
    /\ Idle
    /\ daemon # "down"
    /\ crashes < scenario.crashes
    /\ crashes' = crashes + 1
    /\ daemon' = "down"
    /\ launching' = {}
    /\ entries' = [i \in Invocation |->
          IF entries[i].worker = Daemon THEN NoEntry ELSE entries[i]]
    /\ UNCHANGED <<vars, procs, cancel, cancels>>

\* tick: claimDue with the runs of the map as `held`; the limit is what
\* maxConcurrentRuns leaves.  The renewLeases it makes first writes what the
\* first pass of claimDue writes for the held runs; its boundOrphans only starts
\* the kills that boundOrphans below completes; its pruneInvocations, weeks and
\* hundreds of runs away, is left out.
tick ==
    /\ daemon = "up"
    /\ launching = {}
    /\ \E probed \in SUBSET ProbeCandidates(Held(Daemon)) :
       \E alive \in SUBSET probed :
          /\ \A i \in probed :
                (i \notin alive) \in
                    ProbeAnswers(ExecutorDead(invocations[i].executor))
          /\ beginClaimDue(Daemon, IF Cardinality(Held(Daemon)) >= MaxLimit THEN 0
                                   ELSE MaxLimit - Cardinality(Held(Daemon)),
                           Held(Daemon), probed, alive)
    /\ UNCHANGED hostVars

walkClaimDue ==
    /\ UNCHANGED <<daemon, crashes, entries, procs, cancel, cancels>>
    /\ \/ /\ UNCHANGED launching
          /\ \/ commitClaimDue
             \/ \E i \in Invocation :
                   \/ claimDueSkip(i)
                   \/ \E settled \in ProbeAnswers(TreeGone(i)) :
                         claimDueAbandon(i, settled) \/ claimDueExhaust(i, settled)
       \/ \E i \in Invocation :
             /\ \/ claimDueReclaim(i)
                \/ \E s \in Schedule, next \in Slot : claimDueSchedule(s, i, next)
             /\ launching' = IF issued' > issued THEN launching \cup {i}
                                                 ELSE launching

\* launch, in the same tick; the spawn may throw.  A run the map still holds is
\* not launched twice.
launch(i) ==
    LET token == invocations[i].ownershipToken
        attempt == invocations[i].attempt
    IN  /\ Idle
        /\ i \in launching
        /\ launching' = launching \ {i}
        /\ IF i \in Held(Daemon)
           THEN UNCHANGED <<vars, entries, procs>>
           ELSE \/ \E e \in FreshProcs :
                      /\ procs' = Spawned(i, e, token, attempt)
                      /\ entries' = [entries EXCEPT ![i] =
                                        EntryFor(Daemon, e, token, attempt)]
                      /\ UNCHANGED vars
                \/ CallFail(i, token, FALSE) /\ UNCHANGED <<entries, procs>>
        /\ UNCHANGED <<daemon, crashes, cancel, cancels>>

\* (bug) renews by the id of the run, whoever owns it by now
renewLeases_anyone(i) ==
    /\ Idle
    /\ entries[i].state = "running"
    /\ entries[i].worker = Daemon => daemon = "up"
    /\ invocations' = [invocations EXCEPT ![i].leaseUntil = "future"]
    /\ UNCHANGED <<schedules, extensions, claim, issued>>
    /\ UNCHANGED hostVars

\* renewLeases: from the tick and from an interval, which ends when the daemon
\* begins to stop.  An inline run renews its own.
renewLeases(i) ==
    /\ entries[i].state = "running"
    /\ entries[i].worker = Daemon => daemon = "up"
    /\ renewLease(i, entries[i].token)
    /\ UNCHANGED hostVars

Signalled(i) ==
    [procs EXCEPT ![entries[i].proc].stop = TRUE]

\* The run timer fires: SIGTERM, and a second timer for SIGKILL.
maxRunReached(i) ==
    /\ Idle
    /\ entries[i].state = "running" /\ ~entries[i].timedOut
    /\ entries' = [entries EXCEPT ![i].timedOut = TRUE]
    /\ procs' = Signalled(i)
    /\ UNCHANGED <<vars, daemon, crashes, launching, cancel, cancels>>

\* The second timer: SIGKILL to an executor that is still there.  When only its
\* descendants are, they are killed and, if the probe already sees them gone,
\* the row is settled here.
forceKill(i) ==
    LET e == entries[i].proc IN
    /\ Idle
    /\ entries[i].timedOut
    /\ procs' = [procs EXCEPT ![e] = GroupKilled(@)]
    /\ \/ /\ RootAlive(e) /\ entries[i].state = "running"
          /\ UNCHANGED <<vars, entries>>
       \/ /\ ~RootAlive(e) /\ ~ExecutorDead(e)
          /\ invocations[i].status = "running"
          /\ \/ /\ CallFail(i, entries[i].token, FALSE)
                /\ entries' = IF StillHeld(i) THEN entries ELSE Dropped(i)
             \/ /\ UNCHANGED vars
                /\ entries' = IF entries[i].state = "armed" THEN Dropped(i)
                                                            ELSE entries
    /\ UNCHANGED <<daemon, crashes, launching, cancel, cancels>>

\* onExit (and settleInlineAfterExit): a result written after the timer fired is
\* taken back; otherwise the row of a dead executor fails, and the row of one
\* whose death the probe does not confirm is left to its lease.  A kill timer
\* that has not fired stays when processes of the executor's group are left.
onExit(i) ==
    LET entry == entries[i]
        row   == invocations[i]
        e     == entry.proc
    IN  /\ Idle
        /\ entry.state = "running"
        /\ ~RootAlive(e)
        /\ \/ /\ entry.timedOut /\ entry.late
              /\ row.status \in ResultStatuses /\ row.attempt = entry.attempt
              /\ reclassifyTimedOutInvocation(i, entry.attempt, TRUE)
              /\ entries' = Dropped(i)
           \/ /\ ~(/\ entry.timedOut /\ entry.late
                   /\ row.status \in ResultStatuses
                   /\ row.attempt = entry.attempt)
              /\ \E dead \in IF row.status = "running"
                             THEN ProbeAnswers(ExecutorDead(row.executor))
                             ELSE {TRUE} :
                    IF dead
                    THEN CallFail(i, entry.token, FALSE) /\ entries' = Dropped(i)
                    ELSE /\ UNCHANGED vars
                         /\ \/ entries' = Dropped(i)
                            \/ /\ entry.timedOut /\ ~ExecutorDead(e)
                               /\ entries' = [entries EXCEPT ![i].state = "armed"]
        /\ UNCHANGED <<daemon, crashes, launching, procs, cancel, cancels>>

\* boundOrphans: a run past its max-run that this daemon does not hold.
boundOrphans(i) ==
    /\ Idle
    /\ daemon = "up"
    /\ invocations[i].status = "running"
    /\ i \notin Held(Daemon)
    /\ ~ExecutorDead(invocations[i].executor)
    /\ procs' = [procs EXCEPT ![invocations[i].executor] = GroupKilled(@)]
    /\ UNCHANGED <<vars, daemon, crashes, launching, entries, cancel, cancels>>

\* terminateChildren: SIGTERM to every child, SIGKILL after the grace, then the
\* daemon lets go of what it could not confirm.
stopDaemon ==
    /\ Idle
    /\ "stop" \in scenario.commands
    /\ daemon = "up" /\ launching = {}
    /\ daemon' = "stopping"
    /\ procs' = [e \in Executor |->
          IF \E i \in Held(Daemon) : entries[i].proc = e
          THEN [procs[e] EXCEPT !.stop = TRUE] ELSE procs[e]]
    /\ UNCHANGED <<vars, crashes, launching, entries, cancel, cancels>>

stopKill(i) ==
    /\ Idle
    /\ daemon = "stopping"
    /\ i \in Held(Daemon)
    /\ procs' = [procs EXCEPT ![entries[i].proc] = GroupKilled(@)]
    /\ UNCHANGED <<vars, daemon, crashes, launching, entries, cancel, cancels>>

settleStopped(i) ==
    /\ daemon = "stopping"
    /\ i \in Held(Daemon)
    /\ invocations[i].status = "running"
    /\ ExecutorDead(invocations[i].executor)
    /\ CallFail(i, entries[i].token, FALSE)
    /\ entries' = IF StillHeld(i) THEN entries ELSE Dropped(i)
    /\ UNCHANGED <<daemon, crashes, launching, procs, cancel, cancels>>

releaseUnconfirmed ==
    /\ Idle
    /\ daemon = "stopping"
    /\ daemon' = "down"
    /\ entries' = [i \in Invocation |->
          IF entries[i].worker = Daemon THEN NoEntry ELSE entries[i]]
    /\ UNCHANGED <<vars, crashes, launching, procs, cancel, cancels>>

-----------------------------------------------------------------------------
(* Inline runs                                                              *)

\* run-now --inline: enqueue with one attempt, claim it (unless the daemon was
\* faster) and spawn, which may throw; give the pending run up when the schedule
\* is busy or the scheduler is under maintenance.
inlineEnqueue(s, i) ==
    /\ "inline" \in scenario.commands
    /\ enqueueManualInvocation(s, i, 1)
    /\ UNCHANGED hostVars

inlineClaim(w, i) ==
    /\ w # Daemon
    /\ Held(w) = {}
    /\ invocations[i].maxAttempts = 1
    /\ claimPendingInvocation(i, w)
    /\ \/ \E e \in FreshProcs :
             /\ procs' = Spawned(i, e, issued + 1, 1)
             /\ entries' = [entries EXCEPT ![i] = EntryFor(w, e, issued + 1, 1)]
       \/ UNCHANGED <<procs, entries>>
    /\ UNCHANGED <<daemon, crashes, launching, cancel, cancels>>

inlineGivesUp(i) ==
    /\ invocations[i].maxAttempts = 1
    /\ discardPendingInvocation(i)
    /\ UNCHANGED hostVars

\* The command is killed; its executor goes on.
inlineDies(i) ==
    /\ Idle
    /\ entries[i].state # "none" /\ entries[i].worker # Daemon
    /\ entries' = Dropped(i)
    /\ UNCHANGED <<vars, daemon, crashes, launching, procs, cancel, cancels>>

-----------------------------------------------------------------------------
(* Executors                                                                *)

begin(e) ==
    LET p == procs[e] IN
    /\ p.phase = "starting"
    /\ IF /\ invocations[p.inv].status = "claimed"
          /\ invocations[p.inv].ownershipToken = p.token
       THEN /\ beginInvocation(p.inv, p.token, e)
            /\ procs' = [procs EXCEPT ![e].phase = "preflight"]
       ELSE /\ Idle
            /\ UNCHANGED vars
            /\ procs' = [procs EXCEPT ![e] = Leaving(@)]
    /\ UNCHANGED <<daemon, crashes, launching, entries, cancel, cancels>>

\* An executor that cannot read its own identity gives the run up.
refuseUnidentified(e) ==
    /\ procs[e].phase = "starting"
    /\ CallFail(procs[e].inv, procs[e].token, TRUE)
    /\ procs' = [procs EXCEPT ![e] = Leaving(@)]
    /\ UNCHANGED <<daemon, crashes, launching, entries, cancel, cancels>>

\* teardown(preflight): what earlier attempts left behind must be gone before
\* the turn starts.
preflight(e) ==
    LET p == procs[e] IN
    /\ p.phase = "preflight"
    /\ \E clean \in BOOLEAN :
          /\ CallRecord(p.inv, p.token, ~clean)
          /\ procs' = [TornDown(p.inv, e, clean) EXCEPT
                          ![e].phase = IF clean THEN "turn" ELSE "refused",
                          ![e].ran = clean]
    /\ UNCHANGED <<daemon, crashes, launching, entries, cancel, cancels>>

refuse(e) ==
    /\ procs[e].phase = "refused"
    /\ CallFail(procs[e].inv, procs[e].token, FALSE)
    /\ procs' = [procs EXCEPT ![e] = Leaving(@)]
    /\ UNCHANGED <<daemon, crashes, launching, entries, cancel, cancels>>

\* runTurn: the tools start processes; it returns or throws.
runTool(e, k) ==
    /\ Idle
    /\ procs[e].phase = "turn"
    /\ procs' = [procs EXCEPT ![e].kids = k]
    /\ UNCHANGED <<vars, daemon, crashes, launching, entries, cancel, cancels>>

endTurn(e, ok) ==
    /\ Idle
    /\ procs[e].phase = "turn"
    /\ procs' = [procs EXCEPT ![e].phase = "settle", ![e].ok = ok]
    /\ UNCHANGED <<vars, daemon, crashes, launching, entries, cancel, cancels>>

\* teardown(settle), before any result is written: none is when processes are
\* left, nor a failure when the process was told to stop.
settle(e) ==
    LET p == procs[e] IN
    /\ p.phase = "settle"
    /\ \E clean \in BOOLEAN :
          /\ CallRecord(p.inv, p.token, ~clean)
          /\ procs' = [TornDown(p.inv, e, clean) EXCEPT
                          ![e] = IF clean /\ (p.ok \/ ~p.stop)
                                 THEN [@ EXCEPT !.phase = "write"]
                                 ELSE Leaving(@)]
    /\ UNCHANGED <<daemon, crashes, launching, entries, cancel, cancels>>

write(e) ==
    LET p == procs[e]
        i == p.inv
    IN  /\ p.phase = "write"
        /\ procs' = [procs EXCEPT ![e] = Leaving(@)]
        /\ \/ /\ ~p.ok
              /\ \E terminal \in BOOLEAN : CallFail(i, p.token, terminal)
              /\ UNCHANGED entries
           \/ /\ p.ok
              /\ IF HoldsToken(i, p.token) /\ ~TreeBlocks(invocations[i], FALSE)
                 THEN /\ \E result \in ResultStatuses :
                            completeInvocation(i, p.token, result, FALSE)
                      /\ entries' =
                           IF entries[i].proc = e /\ entries[i].timedOut
                           THEN [entries EXCEPT ![i].late = TRUE] ELSE entries
                 ELSE Idle /\ UNCHANGED <<vars, entries>>
        /\ UNCHANGED <<daemon, crashes, launching, cancel, cancels>>

\* The world: an executor exits, or dies at any point; a process it left behind
\* ends.
executorEnds(e) ==
    /\ Idle
    /\ RootAlive(e)
    /\ procs' = [procs EXCEPT ![e] = Gone(@, @.kids)]
    /\ UNCHANGED <<vars, daemon, crashes, launching, entries, cancel, cancels>>

leftoverEnds(e) ==
    /\ Idle
    /\ procs[e].kids # "none"
    /\ procs' = [procs EXCEPT ![e].kids = "none"]
    /\ UNCHANGED <<vars, daemon, crashes, launching, entries, cancel, cancels>>

-----------------------------------------------------------------------------
(* cancel, with or without --kill                                           *)

cancelRead(i, kill) ==
    LET row == invocations[i]
        aims == kill /\ row.status = "running"
    IN  /\ Idle
        /\ cancel = NoCancel
        /\ cancels < scenario.cancels
        /\ cancels' = cancels + 1
        /\ Exists(i)
        /\ cancel' = [phase |-> IF aims THEN "killing" ELSE "check",
                      inv |-> i, attempt |-> row.attempt, proc |-> row.executor,
                      tears |-> kill /\ row.status \in {"claimed", "retry"},
                      tree |-> "none"]
        /\ UNCHANGED <<vars, daemon, crashes, launching, entries, procs>>

\* killAndConfirmExit: confirmed dead, or unconfirmed, or (tree kill failed) the
\* command gives up.
cancelKill ==
    /\ Idle
    /\ cancel.phase = "killing"
    /\ \/ /\ procs' = [procs EXCEPT ![cancel.proc] = GroupKilled(@)]
          /\ cancel' = [cancel EXCEPT !.phase = "check", !.tears = TRUE]
       \/ /\ UNCHANGED procs
          /\ cancel' \in {NoCancel, [cancel EXCEPT !.phase = "check"]}
    /\ UNCHANGED <<vars, daemon, crashes, launching, entries, cancels>>

\* It reads the row again, and gives up if another attempt has it.
cancelCheck ==
    /\ Idle
    /\ cancel.phase = "check"
    /\ cancel' = IF invocations[cancel.inv].attempt # cancel.attempt
                 THEN NoCancel
                 ELSE [cancel EXCEPT !.phase = IF cancel.tears THEN "teardown"
                                                               ELSE "finalize"]
    /\ UNCHANGED <<vars, daemon, crashes, launching, entries, procs, cancels>>

\* terminateInvocationTree: it kills whatever carries the mark of the run.
cancelTeardown ==
    /\ Idle
    /\ cancel.phase = "teardown"
    /\ \E clean \in BOOLEAN :
          /\ procs' = TornDown(cancel.inv, None, clean)
          /\ cancel' = [cancel EXCEPT !.phase = "finalize",
                           !.tree = IF clean THEN "settled" ELSE "unsettled"]
    /\ UNCHANGED <<vars, daemon, crashes, launching, entries, cancels>>

cancelFinalize ==
    LET i == cancel.inv
        row == invocations[i]
    IN  /\ Idle
        /\ cancel.phase = "finalize"
        /\ cancel' = NoCancel
        /\ \/ \E dead \in IF row.executor = None THEN {FALSE}
                          ELSE ProbeAnswers(ExecutorDead(row.executor)) :
              \E settled \in ProbeAnswers(TreeGone(i)) :
                 finalizeCancellation(i, cancel.attempt, FALSE, cancel.tree,
                                      dead, settled)
           \/ UNCHANGED vars
        /\ UNCHANGED <<daemon, crashes, launching, entries, procs, cancels>>

-----------------------------------------------------------------------------

DaemonStep ==
    \/ startDaemon \/ crashDaemon \/ tick \/ walkClaimDue
    \/ stopDaemon \/ releaseUnconfirmed
    \/ \E i \in Invocation :
          \/ launch(i) \/ renewLeases(i) \/ maxRunReached(i) \/ forceKill(i)
          \/ onExit(i) \/ boundOrphans(i) \/ stopKill(i) \/ settleStopped(i)

InlineStep ==
    \E i \in Invocation :
        \/ \E s \in Schedule : inlineEnqueue(s, i)
        \/ \E w \in Worker : inlineClaim(w, i)
        \/ inlineGivesUp(i) \/ inlineDies(i)

ExecutorStep ==
    \E e \in Executor :
        \/ begin(e) \/ refuseUnidentified(e) \/ preflight(e) \/ refuse(e) \/ settle(e) \/ write(e)
        \/ \E k \in {"group", "own"} : runTool(e, k)
        \/ \E ok \in BOOLEAN : endTurn(e, ok)
        \/ executorEnds(e) \/ leftoverEnds(e)

CancelCommandStep ==
    \/ \E i \in Invocation, kill \in BOOLEAN : cancelRead(i, kill)
    \/ cancelKill \/ cancelCheck \/ cancelTeardown \/ cancelFinalize

HostNext ==
    /\ \/ userCommand \/ clock
       \/ DaemonStep \/ InlineStep \/ ExecutorStep \/ CancelCommandStep
    /\ UNCHANGED scenario

HostSpec == HostInit /\ [][HostNext]_allVars

-----------------------------------------------------------------------------
(* What the hosts promise                                                   *)

HostTypeOK ==
    /\ scenario \in Scenarios
    /\ daemon \in {"down", "up", "stopping"}
    /\ crashes \in 0..scenario.crashes
    /\ launching \subseteq Invocation
    /\ entries \in [Invocation -> Entry \cup {NoEntry}]
    /\ procs \in [Executor -> Proc]
    /\ cancel \in CancelState
    /\ cancels \in 0..scenario.cancels

InTurn(e) == procs[e].phase = "turn"

SameSchedule(e, f) ==
    /\ procs[e].inv # None /\ procs[f].inv # None
    /\ invocations[procs[e].inv].scheduleId = invocations[procs[f].inv].scheduleId

\* While an executor is in its turn, no other executor of its schedule is in one
\* or has left a process in its group, whatever the daemon, the inline runs,
\* crashes, timers, lost leases and cancellations do: the singleton, for what
\* probeExecutorLiveness can see.
TurnExclusive ==
    \A e, f \in Executor :
        InTurn(e) /\ e # f /\ SameSchedule(e, f)
        => ~InTurn(f) /\ procs[f].kids # "group"

\* An attempt begins its turn only when nothing of the earlier attempts of its
\* run is alive, and none of them comes back while it lasts.
TurnAlone ==
    \A e \in Executor : InTurn(e) =>
        \A f \in ProcsOf(procs[e].inv) \ {e} : ~Leftover(f)

\* A turn shares the machine neither with another turn of its schedule nor with
\* what an earlier attempt of its run left.
TurnsApart == TurnExclusive /\ TurnAlone

\* No attempt runs its turn twice: a claim is launched at most once and a
\* process that lost the claim never gets to its turn.
TurnOnce ==
    \A e, f \in Executor :
        /\ procs[e].ran /\ procs[f].ran
        /\ procs[e].inv = procs[f].inv /\ procs[e].attempt = procs[f].attempt
        => e = f

\* The daemon's map, the executors and a cancel command are in states they know,
\* and no attempt is run twice.
HostsConsistent == HostTypeOK /\ TurnOnce

\* A result is recorded only for an attempt whose turn ended with one, when none
\* of the run's processes is left but the one that writes it.
ResultAfterCleanup ==
    [][\A i \in Invocation :
         /\ invocations'[i].status \in ResultStatuses
         /\ invocations[i].status \notin ResultStatuses
         => \E e \in ProcsOf(i) :
               /\ procs[e].ran /\ procs[e].ok
               /\ procs[e].attempt = invocations[i].attempt
               /\ procs[e].kids = "none"
               /\ \A f \in ProcsOf(i) \ {e} : ~Leftover(f)]_allVars

\* docs/how-to-schedule-tasks.md: two process trees that Roll manages and can
\* still verify to be alive never run at the same time.  (On Linux the mark in
\* the environment makes a command of the shell tool verifiable; the probe that
\* releases the singleton looks at the executor's process group only.)
TreesNeverOverlap ==
    \A e, f \in Executor :
        InTurn(e) /\ e # f /\ SameSchedule(e, f)
        => ~InTurn(f) /\ procs[f].kids = "none"

\* Every step of the processes is a step of the ledger, or leaves it alone: what
\* is proved of the ledger for unconstrained callers holds for these.  (Spec of
\* ScheduleLedger, with the steps that leave it alone named first.)
ImplementsLedger == Init /\ [][UNCHANGED vars \/ Next]_vars

=============================================================================
