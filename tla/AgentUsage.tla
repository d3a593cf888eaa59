------------------------------ MODULE AgentUsage ------------------------------
(***************************************************************************)
(* How the roll processes of one user share an agent that Core manages:     *)
(* packages/core/src/registry/agent-usage-lease.ts, process-manager.ts and   *)
(* managed-agent-start.ts.  They meet in files only: a lifecycle lock, the   *)
(* pid file and the sidecar of the agent's runtime, and one lease file per   *)
(* process that uses it.  A runtime started for a lease stops with its last  *)
(* lease, one started by `roll agent start` stays, and `roll agent stop`     *)
(* refuses while anyone uses the agent.                                      *)
(*                                                                          *)
(* One agent; a process runs one command.  Each access to the lock file is   *)
(* a step of its own, since other processes run between them, and what is    *)
(* done under the lock is cut where the process may die, wait or fail.       *)
(* Left out: the reuse of pids, files that anything but this code writes,    *)
(* half-written files, and the registry (its status of the agent, and its    *)
(* lock, which keeps apart some of the commands that interleave here).       *)
(*                                                                          *)
(* A definition marked (bug), named X_..., is X with a plausible mistake.    *)
(***************************************************************************)
EXTENDS Naturals, FiniteSets

CONSTANTS
    Process,     \* the roll processes
    Runtime,     \* processes of the agent, in the order they are spawned
    None,
    Commands,    \* the commands that are run
    MaxDeaths    \* bound: processes that die

ASSUME UsageAssumption ==
    /\ None \notin Process \cup Runtime
    /\ Commands \subseteq {"use", "connect", "start", "stop", "recover"}
    /\ MaxDeaths \in Nat

VARIABLES
    lock,       \* the lock file: the process whose token it holds, or None
    pidFile,    \* the runtime whose pid it holds, or None
    sidecar,    \* the sidecar
    leases,     \* the lease file of each process
    runtimes,   \* what has become of each runtime
    procs,      \* each process
    alive,      \* the processes that have not died
    mayFail,    \* whether probes, writes and waits fail in this behaviour
    raced       \* history: a process removed a lock file other than the one
                \* it had read

vars == <<lock, pidFile, sidecar, leases, runtimes, procs, alive, mayFail, raced>>

\* What only a few steps change.
rest == <<alive, mayFail, raced>>

files == <<pidFile, sidecar, leases, runtimes>>

\* The steps of acquireAgentLifecycleLock, those made under the lock, those of
\* its release, and the rest.
Locking == {"create", "judge", "compare", "unlink", "recreate"}
Locked == {"section", "spawn", "record", "write", "decide", "signal", "wait", "clear"}
Unlocking == {"unlock", "remove"}
Step == {"idle", "ready", "holding", "done"} \cup Locking \cup Locked \cup Unlocking

Job == {"none", "acquire", "connect", "release", "prepare", "finalize", "stop", "recover"}

Sidecar == [runtime : Runtime, persistent : BOOLEAN]
NoSidecar == [runtime |-> None, persistent |-> FALSE]

\* file "releasing": renamed to .<id>.<nonce>.releasing.json.
LeaseFile == [file : {"lease", "releasing"}, runtime : Runtime]
NoLease == [file |-> "none", runtime |-> None]

\* then: the step after the lock is released.  seen: the lock file it read.
\* target: the runtime it started, joins or stops.  marks: the interrupted
\* releases it recovers; saw: it found a runtime beside them.
Proc ==
    [at : Step, job : Job, then : {"ready", "holding", "done", "create"},
     seen : Process \cup {None}, target : Runtime \cup {None},
     started : BOOLEAN, saw : BOOLEAN, marks : SUBSET Process]

Fresh == [at |-> "idle", job |-> "none", then |-> "done", seen |-> None,
          target |-> None, started |-> FALSE, saw |-> FALSE, marks |-> {}]

Init ==
    /\ lock = None
    /\ pidFile = None
    /\ sidecar = NoSidecar
    /\ leases = [p \in Process |-> NoLease]
    /\ runtimes = [r \in Runtime |-> "unborn"]
    /\ procs = [p \in Process |-> Fresh]
    /\ alive = Process
    /\ mayFail \in BOOLEAN
    /\ raced = FALSE

At(p, step) == p \in alive /\ procs[p].at = step

Goes(p, step) == procs' = [procs EXCEPT ![p].at = step]

\* p begins a job that takes the lock.
Takes(p, job) ==
    procs' = [procs EXCEPT ![p].at = "create", ![p].job = job, ![p].then = "done"]

\* p lets go of the lock and goes on to `step`.
Leaves(p, step) ==
    procs' = [procs EXCEPT ![p] =
        IF step = "done" THEN [Fresh EXCEPT !.at = "unlock"]
        ELSE [procs[p] EXCEPT !.at = "unlock", !.then = step, !.seen = None]]

-----------------------------------------------------------------------------
(* The lifecycle lock                                                       *)

\* Where a job goes on that did not get the lock in time: a release can be
\* repeated, anything else is given up.
Unlucky(p) == IF procs[p].job = "release" THEN "holding" ELSE "done"

\* AgentLifecycleBusyError: the callers retry until their deadline.
Busy(p) == \E step \in {"create", Unlucky(p)} :
    procs' = [procs EXCEPT ![p].at = step, ![p].seen = None]

\* writeFileSync with wx.
Create(p) ==
    /\ At(p, "create")
    /\ IF lock = None
       THEN lock' = p /\ Goes(p, "section")
       ELSE lock' = lock /\ Goes(p, "judge")
    /\ UNCHANGED <<files, rest>>

\* (bug) a lock is stale once it is in the way
Stale_always(q) == TRUE

\* isLifecycleLockStale
Stale(q) == q \notin alive

\* The first read of removeStaleAgentLifecycleLock, and what it says of the owner.
Judge(p) ==
    /\ At(p, "judge")
    /\ IF lock # None /\ Stale(lock)
       THEN procs' = [procs EXCEPT ![p].at = "compare", ![p].seen = lock]
       ELSE Busy(p)
    /\ UNCHANGED <<lock, files, rest>>

Compare(p) ==
    /\ At(p, "compare")
    /\ IF lock = procs[p].seen THEN Goes(p, "unlink") ELSE Busy(p)
    /\ UNCHANGED <<lock, files, rest>>

\* unlinkSync removes whatever has the name by now.
Unlink(p) ==
    /\ At(p, "unlink")
    /\ lock' = None
    /\ raced' = (raced \/ lock \notin {None, procs[p].seen})
    /\ IF lock # None THEN Goes(p, "recreate") ELSE Busy(p)
    /\ UNCHANGED <<files, alive, mayFail>>

\* The second attempt, after which there is none.
Recreate(p) ==
    /\ At(p, "recreate")
    /\ IF lock = None
       THEN lock' = p /\ Goes(p, "section")
       ELSE lock' = lock /\ Busy(p)
    /\ UNCHANGED <<files, rest>>

\* releaseAgentLifecycleLock reads the token ...
Unlock(p) ==
    /\ At(p, "unlock")
    /\ Goes(p, IF lock = p THEN "remove" ELSE procs[p].then)
    /\ UNCHANGED <<lock, files, rest>>

\* ... and removes the file.
Remove(p) ==
    /\ At(p, "remove")
    /\ lock' = None
    /\ raced' = (raced \/ lock \notin {None, p})
    /\ Goes(p, procs[p].then)
    /\ UNCHANGED <<files, alive, mayFail>>

-----------------------------------------------------------------------------
(* What is read under the lock                                              *)

Live == {r \in Runtime : runtimes[r] \in {"running", "signalled"}}

\* getAgentPid
AgentPid == IF pidFile \in Live THEN pidFile ELSE None

\* readVerifiedManagedAgentRuntime throws AgentRuntimeIdentityError.
Unverifiable == AgentPid # None /\ sidecar.runtime # AgentPid

NothingRuns == AgentPid = None

\* It also throws when the start of the process cannot be determined.
CannotVerify == Unverifiable \/ (mayFail /\ ~NothingRuns)

Runs == ~NothingRuns /\ ~Unverifiable

\* (bug) an owner that cannot be verified counts as gone
Gone_unverified(q) == TRUE

Gone(q) == q \notin alive

\* The leases a reconciliation may remove: all whose owner is gone, or only
\* some when the verification of an owner may be unavailable.
Prunable ==
    LET dead == {q \in Process : leases[q].file = "lease" /\ Gone(q)} IN
    IF mayFail THEN SUBSET dead ELSE {dead}

Without(gone) == [q \in Process |-> IF q \in gone THEN NoLease ELSE leases[q]]

\* The blockers that reconcileLeaseFiles reports once it has removed `gone`, the
\* reader's own file apart.
Blockers(p, gone) == {q \in Process \ (gone \cup {p}) : leases[q].file # "none"}

\* Its name does not go with its id: a release was interrupted.
Invalid(q) == leases[q].file = "releasing"

\* The blockers an acquisition may share the runtime with: activeRecords.
Compatible(p, gone) ==
    {q \in Blockers(p, gone) : ~Invalid(q) /\ leases[q].runtime = AgentPid}

-----------------------------------------------------------------------------
(* acquireAgentUsageLease; prepareAgentStartAttempt begins a runtime likewise *)

Begin(p) ==
    /\ At(p, "idle")
    /\ \E c \in Commands :
        Takes(p, [use |-> "acquire", connect |-> "connect", start |-> "prepare",
                  stop |-> "stop", recover |-> "recover"][c])
    /\ UNCHANGED <<lock, files, rest>>

Starts(p) == Goes(p, "spawn")

Joins(p) == procs' = [procs EXCEPT ![p].at = "write", ![p].target = AgentPid]

Acquire(p) ==
    /\ At(p, "section") /\ procs[p].job \in {"acquire", "connect"}
    /\ \/ CannotVerify /\ Leaves(p, "done") /\ UNCHANGED leases
       \/ \E gone \in Prunable :
           /\ ~Unverifiable
           /\ leases' = Without(gone)
           /\ IF Runs
              THEN IF Blockers(p, gone) = Compatible(p, gone)
                   THEN Joins(p) ELSE Leaves(p, "done")
              ELSE IF Blockers(p, gone) = {} /\ procs[p].job = "acquire"
                   THEN Starts(p) ELSE Leaves(p, "done")
    /\ UNCHANGED <<lock, pidFile, sidecar, runtimes, rest>>

Prepare(p) ==
    /\ At(p, "section") /\ procs[p].job = "prepare"
    /\ \/ CannotVerify /\ Leaves(p, "done") /\ UNCHANGED <<leases, sidecar>>
       \/ /\ Runs   \* promoteManagedAgentRuntimeToPersistent
          /\ sidecar' = [sidecar EXCEPT !.persistent = TRUE]
          /\ Leaves(p, "ready") /\ UNCHANGED leases
       \/ \E gone \in Prunable :
           /\ NothingRuns
           /\ leases' = Without(gone)
           /\ IF Blockers(p, gone) = {} THEN Starts(p) ELSE Leaves(p, "done")
           /\ UNCHANGED sidecar
    /\ UNCHANGED <<lock, pidFile, runtimes, rest>>

\* startAgentUnlocked, up to the spawn.
Spawn(p) ==
    /\ At(p, "spawn")
    /\ IF NothingRuns
       THEN \E r \in Runtime :
           /\ runtimes[r] = "unborn"
           /\ runtimes' = [runtimes EXCEPT ![r] = "running"]
           /\ procs' = [procs EXCEPT ![p].at = "record", ![p].target = r]
       ELSE Leaves(p, "done") /\ UNCHANGED runtimes
    /\ UNCHANGED <<lock, pidFile, sidecar, leases, rest>>

\* The pid file, then the sidecar; a failure ends the child and removes both.  A
\* runtime that cannot be verified after that is left alone; the start command
\* stops again the one that it finds no registered agent for.
Record(p) ==
    LET r == procs[p].target
        mine == procs[p].job = "prepare" IN
    /\ At(p, "record")
    /\ \/ /\ pidFile # r
          /\ pidFile' = r
          /\ UNCHANGED <<sidecar, runtimes, procs>>
       \/ /\ pidFile = r /\ r \in Live
          /\ sidecar' = [runtime |-> r, persistent |-> mine]
          /\ \/ mayFail /\ Leaves(p, "done")
             \/ mayFail /\ mine /\ Goes(p, "signal")
             \/ procs' = [procs EXCEPT ![p].at = IF mine THEN "unlock" ELSE "write",
                                       ![p].then = IF mine THEN "ready" ELSE "done",
                                       ![p].started = TRUE]
          /\ UNCHANGED <<pidFile, runtimes>>
       \/ /\ mayFail \/ r \notin Live
          /\ runtimes' = IF r \in Live
                         THEN [runtimes EXCEPT ![r] = "signalled"] ELSE runtimes
          /\ pidFile' = None /\ sidecar' = NoSidecar
          /\ Leaves(p, "done")
    /\ UNCHANGED <<lock, leases, rest>>

\* Without a lease: rollbackStartedManagedAgentOrThrow.
GivesUp(p) == IF procs[p].started THEN Goes(p, "signal") ELSE Leaves(p, "done")

\* writeLeaseRecord; if it fails, or the caller gave up, a runtime started for
\* the lease is stopped again.  A failure after the rename leaves the file, which
\* counts as a lease until its process ends.
Write(p) ==
    /\ At(p, "write")
    /\ \/ /\ leases' = [leases EXCEPT ![p] = [file |-> "lease",
                                              runtime |-> procs[p].target]]
          /\ \/ Leaves(p, "ready")
             \/ mayFail /\ GivesUp(p)
       \/ mayFail /\ GivesUp(p) /\ UNCHANGED leases
    /\ UNCHANGED <<lock, pidFile, sidecar, runtimes, rest>>

\* The agent answers, or it does not: the lease is released, a runtime that the
\* start command began is stopped.
Ready(p) ==
    /\ At(p, "ready")
    /\ IF procs[p].job = "prepare"
       THEN Goes(p, "done") \/ (procs[p].started /\ Takes(p, "finalize"))
       ELSE Goes(p, "holding") \/ Takes(p, "release")
    /\ UNCHANGED <<lock, files, rest>>

-----------------------------------------------------------------------------
(* releaseAgentUsageLease                                                   *)

Release(p) ==
    /\ At(p, "holding")
    /\ Takes(p, "release")
    /\ UNCHANGED <<lock, files, rest>>

\* quarantineOwnedLeaseFile
Quarantine(p) ==
    /\ At(p, "section") /\ procs[p].job = "release"
    /\ IF leases[p] = NoLease
       THEN Leaves(p, "done") /\ UNCHANGED leases
       ELSE Goes(p, "decide") /\ leases' = [leases EXCEPT ![p].file = "releasing"]
    /\ UNCHANGED <<lock, pidFile, sidecar, runtimes, rest>>

\* (bug) one's own lease, by now renamed, is a usage too
OtherUsage_own(p, gone) == \E q \in Process \ gone : leases[q].file # "none"

\* hasOtherUsage
OtherUsage(p, gone) == Blockers(p, gone) # {}

\* (bug) a persistent runtime stops with its last lease too
Retained_never == FALSE

Retained == sidecar.persistent

Decide(p) ==
    /\ At(p, "decide")
    /\ \/ CannotVerify /\ Leaves(p, "holding") /\ UNCHANGED leases
       \/ /\ NothingRuns \/ (Runs /\ AgentPid # leases[p].runtime)
          /\ leases' = [leases EXCEPT ![p] = NoLease]
          /\ Leaves(p, "done")
       \/ \E gone \in Prunable :
           /\ Runs /\ AgentPid = leases[p].runtime
           /\ IF Retained \/ OtherUsage(p, gone)
              THEN leases' = Without(gone \cup {p}) /\ Leaves(p, "done")
              ELSE /\ leases' = Without(gone)
                   /\ procs' = [procs EXCEPT ![p].at = "signal", ![p].target = AgentPid]
    /\ UNCHANGED <<lock, pidFile, sidecar, runtimes, rest>>

-----------------------------------------------------------------------------
(* The commands that stop an agent                                          *)

Stops(p, r) == procs' = [procs EXCEPT ![p].at = "signal", ![p].target = r]

\* acquireAgentUsageMaintenanceGuard
Stop(p) ==
    /\ At(p, "section") /\ procs[p].job = "stop"
    /\ \/ CannotVerify /\ Leaves(p, "done") /\ UNCHANGED leases
       \/ \E gone \in Prunable :
           /\ ~Unverifiable
           /\ leases' = Without(gone)
           /\ IF Blockers(p, gone) = {} THEN Stops(p, AgentPid) ELSE Leaves(p, "done")
    /\ UNCHANGED <<lock, pidFile, sidecar, runtimes, rest>>

\* The readiness of a started runtime failed: finalizeAgentStartAttempt.
Finalize(p) ==
    /\ At(p, "section") /\ procs[p].job = "finalize"
    /\ \/ /\ CannotVerify \/ NothingRuns \/ AgentPid # procs[p].target
          /\ Leaves(p, "done") /\ UNCHANGED leases
       \/ \E gone \in Prunable :
           /\ Runs /\ AgentPid = procs[p].target
           /\ leases' = Without(gone)
           /\ IF Blockers(p, gone) = {} THEN Stops(p, AgentPid) ELSE Leaves(p, "done")
    /\ UNCHANGED <<lock, pidFile, sidecar, runtimes, rest>>

Interrupted == {q \in Process : Invalid(q)}

\* inspectAgentUsageStopRecoveryWithLock: every owner is gone, and every runtime
\* they name is the recorded one or gone.
Recoverable(p, gone) ==
    /\ Blockers(p, gone) \subseteq Interrupted
    /\ \A q \in Interrupted :
        Gone(q) /\ (leases[q].runtime = AgentPid \/ leases[q].runtime \notin Live)

\* recoverInterruptedAgentStop; without an interrupted release the command goes
\* on to stop as usual.
Recover(p) ==
    /\ At(p, "section") /\ procs[p].job = "recover"
    /\ \/ CannotVerify /\ Leaves(p, "done") /\ UNCHANGED leases
       \/ \E gone \in Prunable :
           /\ ~Unverifiable
           /\ leases' = Without(gone)
           /\ IF Interrupted = {}
              THEN IF Blockers(p, gone) \subseteq alive
                   THEN procs' = [procs EXCEPT ![p].at = "unlock", ![p].job = "stop",
                                               ![p].then = "create"]
                   ELSE Leaves(p, "done")
              ELSE IF Recoverable(p, gone)
              THEN \E q \in Interrupted :
                  procs' = [procs EXCEPT ![p].at = "signal", ![p].marks = Interrupted,
                                ![p].saw = Runs,
                                ![p].target = IF Runs THEN AgentPid ELSE leases[q].runtime]
              ELSE Leaves(p, "done")
       \/ /\ mayFail /\ Interrupted # {}   \* an owner cannot be verified
          /\ Leaves(p, "done") /\ UNCHANGED leases
    /\ UNCHANGED <<lock, pidFile, sidecar, runtimes, rest>>

-----------------------------------------------------------------------------
(* stopAgentGracefully                                                      *)

\* Where its caller goes on, by what it returned; a failure is thrown.
After(p, stopped) ==
    CASE procs[p].job = "recover" ->
            IF ~stopped /\ (procs[p].saw \/ ~NothingRuns)
            THEN Leaves(p, "done") ELSE Goes(p, "clear")
      [] procs[p].job = "release" -> Goes(p, "clear")
      [] OTHER -> Leaves(p, "done")

Throws(p) == Leaves(p, IF procs[p].job = "release" THEN "holding" ELSE "done")

Expected(p) == procs[p].target \in {None, AgentPid}

Signal(p) ==
    /\ At(p, "signal")
    /\ \/ /\ NothingRuns
          /\ pidFile' = None /\ sidecar' = NoSidecar
          /\ After(p, FALSE)
          /\ UNCHANGED runtimes
       \/ /\ CannotVerify
          /\ Throws(p)
          /\ UNCHANGED <<pidFile, sidecar, runtimes>>
       \/ /\ Runs /\ ~Expected(p)
          /\ After(p, FALSE)
          /\ UNCHANGED <<pidFile, sidecar, runtimes>>
       \/ /\ Runs /\ Expected(p)
          /\ runtimes' = [runtimes EXCEPT ![AgentPid] = "signalled"]
          /\ procs' = [procs EXCEPT ![p].at = "wait", ![p].target = AgentPid]
          /\ UNCHANGED <<pidFile, sidecar>>
    /\ UNCHANGED <<lock, leases, rest>>

\* removeAgentRuntimeFilesForIdentity
Wait(p) ==
    LET r == procs[p].target IN
    /\ At(p, "wait")
    /\ \/ /\ r \notin Live
          /\ IF pidFile = r /\ sidecar.runtime = r
             THEN pidFile' = None /\ sidecar' = NoSidecar
             ELSE UNCHANGED <<pidFile, sidecar>>
          /\ After(p, TRUE)
       \/ /\ r \in Live /\ mayFail   \* it did not stop in time
          /\ Throws(p)
          /\ UNCHANGED <<pidFile, sidecar>>
    /\ UNCHANGED <<lock, leases, runtimes, rest>>

\* A release removes its file, a recovery those it found, one after the other, if
\* they are unchanged.
Clear(p) ==
    LET mine == IF procs[p].job = "release" THEN {p} ELSE procs[p].marks IN
    /\ At(p, "clear")
    /\ \/ /\ \A q \in mine : Invalid(q)
          /\ \E q \in mine :
              /\ leases' = Without({q})
              /\ IF mine = {q} THEN Leaves(p, "done")
                 ELSE procs' = [procs EXCEPT ![p].marks = @ \ {q}]
       \/ /\ \E q \in mine : ~Invalid(q)
          /\ Leaves(p, "done") /\ UNCHANGED leases
       \/ /\ mayFail
          /\ Throws(p) /\ UNCHANGED leases
    /\ UNCHANGED <<lock, pidFile, sidecar, runtimes, rest>>

-----------------------------------------------------------------------------
(* What happens to the processes                                            *)

\* A roll process is killed, or ends without its release.  What it was about is
\* lost, but for the runtime it had not recorded yet (RuntimeRecorded).
Dies(p) ==
    /\ p \in alive /\ procs[p].at # "idle"
    /\ procs[p].at = "done" => leases[p] # NoLease
    /\ Cardinality(Process \ alive) < MaxDeaths
    /\ alive' = alive \ {p}
    /\ procs' = IF procs[p].at = "record" THEN procs
                ELSE [procs EXCEPT ![p] = [Fresh EXCEPT !.at = "done"]]
    /\ UNCHANGED <<lock, files, mayFail, raced>>

\* A runtime ends, told to or not.
Exits(r) ==
    /\ r \in Live
    /\ runtimes' = [runtimes EXCEPT ![r] = "gone"]
    /\ UNCHANGED <<lock, pidFile, sidecar, leases, procs, rest>>

ProcessStep(p) ==
    \/ Begin(p) \/ Create(p) \/ Judge(p) \/ Compare(p) \/ Unlink(p)
    \/ Recreate(p) \/ Unlock(p) \/ Remove(p)
    \/ Acquire(p) \/ Prepare(p) \/ Spawn(p) \/ Record(p) \/ Write(p)
    \/ Ready(p) \/ Release(p) \/ Quarantine(p) \/ Decide(p)
    \/ Stop(p) \/ Finalize(p) \/ Recover(p)
    \/ Signal(p) \/ Wait(p) \/ Clear(p) \/ Dies(p)

Next == (\E p \in Process : ProcessStep(p)) \/ \E r \in Runtime : Exits(r)

Spec == Init /\ [][Next]_vars

-----------------------------------------------------------------------------
(* Properties.  Once a reclaimed lock was removed under its new owner nothing *)
(* is promised, hence `raced`.                                              *)

TypeOK ==
    /\ lock \in Process \cup {None}
    /\ pidFile \in Runtime \cup {None}
    /\ sidecar \in Sidecar \cup {NoSidecar}
    /\ leases \in [Process -> LeaseFile \cup {NoLease}]
    /\ runtimes \in [Runtime -> {"unborn", "running", "signalled", "gone"}]
    /\ procs \in [Process -> Proc]
    /\ alive \subseteq Process
    /\ mayFail \in BOOLEAN /\ raced \in BOOLEAN

InSection(p) == p \in alive /\ procs[p].at \in Locked

\* Two processes never work on the agent at a time, whoever died with the lock
\* and whoever reclaimed it.
LockExclusive ==
    \A p, q \in Process : InSection(p) /\ InSection(q) => p = q \/ raced

\* A runtime that was not told to stop is the recorded one, unless its starter
\* did not get to record it: there are never two to serve one endpoint, and none
\* that no command can find.
RuntimeRecorded ==
    \A r \in Runtime :
        runtimes[r] = "running"
        => \/ pidFile = r
           \/ \E p \in Process : procs[p].at = "record" /\ procs[p].target = r
           \/ raced

\* What the lock protects: one process at work on the agent, one runtime on record.
UsageConsistent == TypeOK /\ LockExclusive /\ RuntimeRecorded

\* Where nothing died or failed, a runtime that was started for a lease does not
\* outlive its leases.
LastOutStops ==
    /\ alive = Process /\ ~mayFail /\ ~raced
    /\ ~\E p \in Process : InSection(p)
    => \A r \in Runtime :
        runtimes[r] = "running" /\ ~sidecar.persistent
        => \E p \in Process : leases[p].runtime = r

Uses(p, r) == p \in alive /\ leases[p] = [file |-> "lease", runtime |-> r]

\* No process tells a runtime to stop that another one has a lease of; a release
\* leaves a persistent runtime alone, whoever promoted it meanwhile.
SparesUsers ==
    [][\A p \in Process :
        procs[p].at = "signal" /\ procs'[p].at = "wait" /\ ~raced
        => /\ ~\E q \in Process \ {p} : Uses(q, procs'[p].target)
           /\ procs[p].job = "release" => ~sidecar.persistent]_vars

\* Only its owner removes the lease file of a process that is alive, an
\* interrupted release of it included.
LeaseKept ==
    [][\A p \in alive :
        leases[p] # NoLease /\ leases'[p] = NoLease => procs'[p] # procs[p]]_vars

\* `roll chat`, `roll run` and `roll ask` share one runtime "without one client
\* shutting it down underneath another" (packages/core/CHANGELOG.md:870-871).
NeverUnderneath ==
    [][\A p, q \in Process, r \in Runtime :
        /\ p # q
        /\ procs[p].at = "signal" /\ procs'[p].at = "wait" /\ procs'[p].target = r
        => ~Uses(q, r)]_vars

=============================================================================
