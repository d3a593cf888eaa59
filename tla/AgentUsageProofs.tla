--------------------------- MODULE AgentUsageProofs ---------------------------
(***************************************************************************)
(* Proofs about AgentUsage, for any number of processes, runtimes and       *)
(* deaths: as long as no reclaim went wrong, the lifecycle lock excludes,   *)
(* no process stops a runtime that another one uses, and no runtime is      *)
(* lost; and where nothing died or failed, the last lease takes with it the *)
(* runtime that was started for one.  The invariant says what a process     *)
(* knows of the files at each step of its job, and that whatever another    *)
(* one does leaves it true.                                                 *)
(***************************************************************************)
EXTENDS AgentUsage, TLAPS

Working == Locked \cup Unlocking

\* Who works holds the lock.
LockOwned(p) == ~raced /\ procs[p].at \in Working => lock = p

\* The lock a process is about to remove belongs to a dead one.
SeenDead(p) == procs[p].at \in {"compare", "unlink"} => procs[p].seen \notin alive

\* So do the interrupted releases it recovers.
MarksDead(p) == procs[p].marks \cap alive = {}

\* A runtime it has spawned or joins has a name, and it does so for its own job.
TargetKnown(p) ==
    /\ procs[p].at \in {"record", "write"} => procs[p].target \in Runtime
    /\ procs[p].at \in {"spawn", "record"} => procs[p].job \in {"acquire", "prepare"}
    /\ procs[p].at = "write" => procs[p].job \in {"acquire", "connect"}

\* Nothing but the runtime being recorded is on record.
RecordingAlone(p) ==
    ~raced /\ procs[p].at = "record" => NothingRuns \/ pidFile = procs[p].target

\* The steps that follow an inspection of the leases which found no user.
Emptied(p) ==
    \/ procs[p].at \in {"spawn", "record", "signal"}
    \/ procs[p].at = "write" /\ procs[p].started

NoUsers(p) == ~raced /\ Emptied(p) => \A q \in alive \ {p} : leases[q].file # "lease"

\* Its lease was left by a write that failed after the rename.
LeftOver(p) ==
    /\ mayFail
    /\ \/ procs[p].job \in {"acquire", "connect"} /\ procs[p].at \in {"signal", "wait"}
       \/ procs[p].at \in Unlocking /\ procs[p].then = "done"
       \/ procs[p].at = "done"

\* When a process has a lease.
OwnLease(p) ==
    leases[p].file = "lease" =>
        \/ LeftOver(p)
        \/ /\ procs[p].job \in {"acquire", "connect", "release"}
           /\ procs[p].at \in {"ready", "holding"}
        \/ /\ procs[p].job \in {"acquire", "connect"}
           /\ procs[p].at \in Unlocking /\ procs[p].then = "ready"
        \/ /\ procs[p].job = "release"
           /\ \/ procs[p].at \in Locking \cup {"section"}
              \/ procs[p].at \in Unlocking /\ procs[p].then = "holding"

\* A process that has yet to look for a runtime started none.
NotStarted(p) ==
    \/ procs[p].at = "idle"
    \/ procs[p].job \in {"acquire", "connect"} /\ procs[p].at \in Locking \cup {"section"}
    => ~procs[p].started

\* Only a recovery without anything to recover takes the lock again, to stop.
StopsAgain(p) ==
    procs[p].at \in Unlocking /\ procs[p].then = "create" => procs[p].job = "stop"

\* A release that is about to stop the runtime found it started for a lease.
StopsUnretained(p) ==
    ~raced /\ procs[p].at = "signal" /\ procs[p].job = "release" => ~sidecar.persistent

Knows(p) ==
    /\ LockOwned(p)
    /\ SeenDead(p)
    /\ MarksDead(p)
    /\ TargetKnown(p)
    /\ RecordingAlone(p)
    /\ NoUsers(p)
    /\ OwnLease(p)
    /\ NotStarted(p)
    /\ StopsAgain(p)
    /\ StopsUnretained(p)

Inv == TypeOK /\ RuntimeRecorded /\ \A p \in alive : Knows(p)

-----------------------------------------------------------------------------
(* Types                                                                    *)

\* The marks of what is missing, and what is read of the files.
LEMMA Marks ==
    /\ None \notin Process /\ None \notin Runtime
    /\ NoLease \notin LeaseFile /\ NoSidecar \notin Sidecar
    /\ NoLease.file = "none" /\ NoSidecar.runtime = None
    /\ Fresh \in Proc
BY UsageAssumption
   DEF LeaseFile, NoLease, Sidecar, NoSidecar, Fresh, Proc, Step, Job

\* What is read of the pid file and the sidecar is a runtime that exists, or nothing.
LEMMA Readings ==
    ASSUME TypeOK
    PROVE  /\ Live \subseteq Runtime
           /\ AgentPid \in Live \cup {None}
           /\ ~NothingRuns => AgentPid \in Live /\ AgentPid = pidFile
           /\ Runs => sidecar \in Sidecar /\ sidecar.runtime = AgentPid
           /\ \A p \in Process : Blockers(p, {}) \subseteq Process
BY Marks DEF TypeOK, Live, AgentPid, NothingRuns, Runs, Unverifiable, Blockers

\* The files that a reconciliation removes are those of dead processes.
LEMMA Pruning ==
    ASSUME TypeOK, NEW gone \in Prunable
    PROVE  /\ gone \subseteq Process \ alive
           /\ Without(gone) \in [Process -> LeaseFile \cup {NoLease}]
           /\ \A q \in Process : Without(gone)[q] = leases[q]
                                 \/ (q \in gone /\ Without(gone)[q] = NoLease)
BY DEF TypeOK, Prunable, Gone, Without

\* The steps under the lock, those that take it and those that release it.
LEMMA Steps ==
    /\ {"idle", "ready", "holding", "done"} \subseteq Step
    /\ Locking \subseteq Step /\ Locked \subseteq Step /\ Unlocking \subseteq Step
    /\ {"create", "judge", "compare", "unlink", "recreate"} = Locking
    /\ {"section", "spawn", "record", "write", "decide", "signal", "wait", "clear"} = Locked
    /\ {"unlock", "remove"} = Unlocking
BY DEF Step, Locking, Locked, Unlocking

\* The state of a process after any of its moves.
LEMMA Moved ==
    ASSUME NEW c \in Proc, NEW at \in Step
    PROVE  /\ [c EXCEPT !.at = at] \in Proc
           /\ [c EXCEPT !.at = at, !.seen = None] \in Proc
           /\ \A then \in {"ready", "holding", "done", "create"} :
                /\ [c EXCEPT !.at = at, !.then = then, !.seen = None] \in Proc
                /\ [c EXCEPT !.at = at, !.then = then, !.started = TRUE] \in Proc
           /\ \A job \in Job, then \in {"ready", "holding", "done", "create"} :
                [c EXCEPT !.at = at, !.job = job, !.then = then] \in Proc
           /\ \A q \in Process : [c EXCEPT !.at = at, !.seen = q] \in Proc
           /\ \A r \in Runtime \cup {None} :
                /\ [c EXCEPT !.at = at, !.target = r] \in Proc
                /\ \A saw \in BOOLEAN, marks \in SUBSET Process :
                    [c EXCEPT !.at = at, !.marks = marks, !.saw = saw, !.target = r] \in Proc
BY DEF Proc

\* A process goes to a step, begins a job, or leaves the lock.
LEMMA Going ==
    ASSUME TypeOK, NEW p \in Process, NEW step \in Step, Goes(p, step)
    PROVE  /\ procs' \in [Process -> Proc]
           /\ procs'[p] = [procs[p] EXCEPT !.at = step]
           /\ \A q \in Process \ {p} : procs'[q] = procs[q]
BY DEF TypeOK, Goes, Proc

\* A process that begins a job keeps its type; no other one changes.
LEMMA Taking ==
    ASSUME TypeOK, NEW p \in Process, NEW job \in Job, Takes(p, job)
    PROVE  /\ procs' \in [Process -> Proc]
           /\ procs'[p] = [procs[p] EXCEPT !.at = "create", !.job = job, !.then = "done"]
           /\ \A q \in Process \ {p} : procs'[q] = procs[q]
<1>1. procs \in [Process -> Proc] /\ "create" \in Step
  BY Steps DEF TypeOK
<1>2. [procs[p] EXCEPT !.at = "create", !.job = job, !.then = "done"] \in Proc
  BY <1>1, Moved
<1> QED BY <1>1, <1>2 DEF Takes

\* Likewise one that lets go of the lock.
LEMMA Leaving ==
    ASSUME TypeOK, NEW p \in Process, NEW step \in {"ready", "holding", "done"},
           Leaves(p, step)
    PROVE  /\ procs' \in [Process -> Proc]
           /\ procs'[p].at = "unlock" /\ procs'[p].then = step
           /\ procs'[p].marks \subseteq procs[p].marks
           /\ step # "done" => procs'[p].job = procs[p].job
           /\ \A q \in Process \ {p} : procs'[q] = procs[q]
<1> DEFINE new == IF step = "done" THEN [Fresh EXCEPT !.at = "unlock"]
                  ELSE [procs[p] EXCEPT !.at = "unlock", !.then = step, !.seen = None]
<1>0. procs \in [Process -> Proc] /\ "unlock" \in Step
  BY Steps DEF TypeOK
<1>1. procs' = [procs EXCEPT ![p] = new]
  BY DEF Leaves
<1>2. new \in Proc
  <2>1. CASE step = "done"
    BY <2>1, <1>0, Marks, Moved
  <2>2. CASE step # "done"
    BY <2>2, <1>0, Moved
  <2> QED BY <2>1, <2>2
<1>3. /\ new.at = "unlock" /\ new.then = step
      /\ new.marks \subseteq procs[p].marks
      /\ step # "done" => new.job = procs[p].job
  BY <1>0 DEF Fresh, Proc
<1> HIDE DEF new
<1> QED BY <1>0, <1>1, <1>2, <1>3

\* A step of a process changes the state of that process alone.
Own(p) ==
    /\ procs' \in [Process -> Proc]
    /\ \A q \in Process \ {p} : procs'[q] = procs[q]

\* A new state of a process disturbs no other one.
LEMMA Becoming ==
    ASSUME TypeOK, NEW p \in Process, NEW new \in Proc, procs' = [procs EXCEPT ![p] = new]
    PROVE  Own(p) /\ procs'[p] = new
BY DEF TypeOK, Own

\* Nor does any of the moves above.
LEMMA OwnMoves ==
    ASSUME TypeOK, NEW p \in Process
    PROVE  /\ \A step \in Step : Goes(p, step) => Own(p)
           /\ \A job \in Job : Takes(p, job) => Own(p)
           /\ \A step \in {"ready", "holding", "done"} : Leaves(p, step) => Own(p)
           /\ Busy(p) => Own(p)
           /\ \A r \in Runtime \cup {None}, step \in Step :
                procs' = [procs EXCEPT ![p].at = step, ![p].target = r] => Own(p)
<1>0. procs \in [Process -> Proc]
  BY DEF TypeOK
<1>1. ASSUME NEW step \in Step, Goes(p, step)
      PROVE  Own(p)
  BY <1>1, Going DEF Own
<1>2. ASSUME NEW job \in Job, Takes(p, job)
      PROVE  Own(p)
  BY <1>2, Taking DEF Own
<1>3. ASSUME NEW step \in {"ready", "holding", "done"}, Leaves(p, step)
      PROVE  Own(p)
  BY <1>3, Leaving DEF Own
<1>4. ASSUME Busy(p)
      PROVE  Own(p)
  <2>1. PICK step \in {"create", Unlucky(p)} :
            procs' = [procs EXCEPT ![p].at = step, ![p].seen = None]
    BY <1>4 DEF Busy
  <2>2. step \in Step
    BY Steps DEF Unlucky
  <2>3. [procs[p] EXCEPT !.at = step, !.seen = None] \in Proc
    BY <1>0, <2>2, Moved
  <2> QED BY <1>0, <2>1, <2>3, Becoming
<1>5. ASSUME NEW r \in Runtime \cup {None}, NEW step \in Step,
             procs' = [procs EXCEPT ![p].at = step, ![p].target = r]
      PROVE  Own(p)
  <2>1. [procs[p] EXCEPT !.at = step, !.target = r] \in Proc
    BY <1>0, Moved
  <2> QED BY <1>0, <1>5, <2>1, Becoming
<1> QED BY <1>1, <1>2, <1>3, <1>4, <1>5

\* Nor does any step of a process.
LEMMA OwnSteps ==
    ASSUME TypeOK, NEW p \in Process, ProcessStep(p)
    PROVE  Own(p)
<1>0. procs \in [Process -> Proc] /\ procs[p] \in Proc
  BY DEF TypeOK
<1>1. CASE Begin(p)
  <2>1. PICK c \in Commands :
          Takes(p, [use |-> "acquire", connect |-> "connect", start |-> "prepare",
                    stop |-> "stop", recover |-> "recover"][c])
    BY <1>1 DEF Begin
  <2> QED BY <2>1, OwnMoves, UsageAssumption DEF Job
<1>2. CASE Create(p) \/ Recreate(p)
  BY <1>2, OwnMoves, Steps DEF Create, Recreate
<1>3. CASE Judge(p)
  <2>1. CASE Busy(p)
    BY <2>1, OwnMoves
  <2>2. CASE ~Busy(p)
    <3>1. procs' = [procs EXCEPT ![p].at = "compare", ![p].seen = lock] /\ lock \in Process
      BY <1>3, <2>2 DEF Judge, TypeOK
    <3>2. [procs[p] EXCEPT !.at = "compare", !.seen = lock] \in Proc
      BY <1>0, <3>1, Moved, Steps
    <3> QED BY <1>0, <3>1, <3>2, Becoming
  <2> QED BY <2>1, <2>2
<1>4. CASE Compare(p) \/ Unlink(p) \/ Unlock(p) \/ Remove(p)
  <2>1. procs[p].then \in Step
    BY <1>0, Steps DEF Proc, Locking
  <2> QED BY <1>4, <2>1, OwnMoves, Steps DEF Compare, Unlink, Unlock, Remove
<1>5. CASE Acquire(p) \/ Prepare(p) \/ Spawn(p)
  <2>1. AgentPid \in Runtime \cup {None}
    BY Readings
  <2> QED BY <1>5, <2>1, OwnMoves, Steps DEF Acquire, Joins, Starts, Prepare, Spawn
<1>6. CASE Record(p)
  <2>1. CASE UNCHANGED procs \/ Leaves(p, "done") \/ Goes(p, "signal")
    BY <1>0, <2>1, OwnMoves, Steps DEF Own
  <2>2. CASE ~(UNCHANGED procs \/ Leaves(p, "done") \/ Goes(p, "signal"))
    <3>1. PICK step \in Step, then \in {"ready", "holding", "done", "create"} :
            procs' = [procs EXCEPT ![p].at = step, ![p].then = then, ![p].started = TRUE]
      BY <1>6, <2>2, Steps DEF Record
    <3>2. [procs[p] EXCEPT !.at = step, !.then = then, !.started = TRUE] \in Proc
      BY <1>0, Moved
    <3> QED BY <1>0, <3>1, <3>2, Becoming
  <2> QED BY <2>1, <2>2
<1>7. CASE Write(p) \/ Quarantine(p)
  BY <1>7, OwnMoves, Steps DEF Write, GivesUp, Quarantine
<1>8. CASE Ready(p) \/ Release(p)
  <2>1. {"release", "finalize"} \subseteq Job
    BY DEF Job
  <2> QED BY <1>8, <2>1, OwnMoves, Steps DEF Ready, Release
<1>9. CASE Decide(p) \/ Stop(p) \/ Finalize(p)
  <2>1. AgentPid \in Runtime \cup {None}
    BY Readings
  <2> QED BY <1>9, <2>1, OwnMoves, Steps DEF Decide, Stop, Finalize, Stops
<1>10. CASE Recover(p)
  <2>1. CASE Leaves(p, "done")
    BY <2>1, OwnMoves
  <2>2. CASE procs' = [procs EXCEPT ![p].at = "unlock", ![p].job = "stop", ![p].then = "create"]
    <3>1. [procs[p] EXCEPT !.at = "unlock", !.job = "stop", !.then = "create"] \in Proc
      <4>1. "stop" \in Job /\ "unlock" \in Step
        BY Steps DEF Job
      <4> QED BY <1>0, <4>1, Moved
    <3> QED BY <1>0, <2>2, <3>1, Becoming
  <2>3. CASE \E q \in Interrupted :
               procs' = [procs EXCEPT ![p].at = "signal", ![p].marks = Interrupted,
                          ![p].saw = Runs,
                          ![p].target = IF Runs THEN AgentPid ELSE leases[q].runtime]
    <3>1. PICK q \in Interrupted :
               procs' = [procs EXCEPT ![p].at = "signal", ![p].marks = Interrupted,
                          ![p].saw = Runs,
                          ![p].target = IF Runs THEN AgentPid ELSE leases[q].runtime]
      BY <2>3
    <3> DEFINE r == IF Runs THEN AgentPid ELSE leases[q].runtime
    <3>2. r \in Runtime \cup {None} /\ Interrupted \in SUBSET Process /\ Runs \in BOOLEAN
      BY Readings DEF TypeOK, Interrupted, LeaseFile, NoLease, Runs
    <3>3. [procs[p] EXCEPT !.at = "signal", !.marks = Interrupted, !.saw = Runs, !.target = r]
          \in Proc
      BY <1>0, <3>2, Moved, Steps
    <3> HIDE DEF r
    <3> QED BY <1>0, <3>1, <3>3, Becoming, ZenonT(40) DEF r
  <2> QED BY <1>10, <2>1, <2>2, <2>3 DEF Recover
<1>11. CASE Signal(p) \/ Wait(p) \/ Clear(p)
  <2>1. AgentPid \in Runtime \cup {None}
    BY Readings
  <2>2. ASSUME NEW q, procs' = [procs EXCEPT ![p].marks = @ \ {q}]
        PROVE  Own(p)
    <3>1. [procs[p] EXCEPT !.marks = @ \ {q}] \in Proc
      BY <1>0 DEF Proc
    <3> QED BY <1>0, <2>2, <3>1, Becoming
  <2> QED BY <1>11, <2>1, <2>2, OwnMoves, Steps DEF Signal, Wait, Clear, After, Throws
<1>12. CASE Dies(p)
  <2>1. [Fresh EXCEPT !.at = "done"] \in Proc
    BY Marks, Moved, Steps
  <2> QED BY <1>0, <1>12, <2>1, Becoming DEF Dies, Own
<1> QED
  BY <1>1, <1>2, <1>3, <1>4, <1>5, <1>6, <1>7, <1>8, <1>9, <1>10, <1>11, <1>12
     DEF ProcessStep

\* Every step of a process keeps the types (its own, of what is read of the files).
LEMMA TypesKept ==
    ASSUME TypeOK, NEW p \in Process, TargetKnown(p), ProcessStep(p)
    PROVE  TypeOK'
<1>0. procs' \in [Process -> Proc]
  BY OwnSteps DEF Own
<1>1. lock' \in Process \cup {None} /\ raced' \in BOOLEAN
  BY DEF ProcessStep, TypeOK, vars, files, rest, Begin, Create, Judge, Compare, Unlink,
         Recreate, Unlock, Remove, Acquire, Prepare, Spawn, Record, Write, Ready,
         Release, Quarantine, Decide, Stop, Finalize, Recover, Signal, Wait, Clear, Dies
<1>2. alive' \subseteq Process /\ mayFail' \in BOOLEAN
  BY DEF ProcessStep, TypeOK, files, rest, Begin, Create, Judge, Compare, Unlink,
         Recreate, Unlock, Remove, Acquire, Prepare, Spawn, Record, Write, Ready,
         Release, Quarantine, Decide, Stop, Finalize, Recover, Signal, Wait, Clear, Dies
<1>3. /\ pidFile' \in Runtime \cup {None}
      /\ sidecar' \in Sidecar \cup {NoSidecar}
      /\ runtimes' \in [Runtime -> {"unborn", "running", "signalled", "gone"}]
  <2>1. CASE Prepare(p)
    BY <2>1, Readings DEF Prepare, TypeOK, rest, Sidecar
  <2>2. CASE Spawn(p) \/ Wait(p)
    BY <2>2 DEF Spawn, Wait, TypeOK, rest
  <2>3. CASE Record(p)
    <3>1. procs[p].target \in Runtime \cup {None}
      BY DEF TypeOK, Proc
    <3> DEFINE own == [runtime |-> procs[p].target, persistent |-> procs[p].job = "prepare"]
    <3>2. procs[p].target \in Live => own \in Sidecar
      BY DEF Live, Sidecar
    <3>3. pidFile' \in Runtime \cup {None} /\ sidecar' \in {sidecar, NoSidecar, own}
      BY <2>3, <3>1 DEF Record, TypeOK
    <3>4. sidecar' = own => procs[p].target \in Live \/ sidecar' \in {sidecar, NoSidecar}
      BY <2>3 DEF Record
    <3>5. runtimes' \in [Runtime -> {"unborn", "running", "signalled", "gone"}]
      BY <2>3 DEF Record, TypeOK, Live
    <3> HIDE DEF own
    <3> QED BY <3>2, <3>3, <3>4, <3>5 DEF TypeOK
  <2>4. CASE Signal(p)
    BY <2>4, Readings DEF Signal, TypeOK, rest
  <2>5. CASE ~(Prepare(p) \/ Spawn(p) \/ Record(p) \/ Signal(p) \/ Wait(p))
    BY <2>5
       DEF ProcessStep, TypeOK, files, rest, Begin, Create, Judge, Compare, Unlink,
           Recreate, Unlock, Remove, Acquire, Write, Ready,
           Release, Quarantine, Decide, Stop, Finalize, Recover, Clear, Dies
  <2> QED BY <2>1, <2>2, <2>3, <2>4, <2>5
<1>4. leases' \in [Process -> LeaseFile \cup {NoLease}]
  <2>0. leases \in [Process -> LeaseFile \cup {NoLease}]
    BY DEF TypeOK
  <2>1. ASSUME NEW gone \in Prunable
        PROVE  Without(gone) \in [Process -> LeaseFile \cup {NoLease}]
    BY Pruning
  <2>2. CASE Acquire(p) \/ Prepare(p) \/ Stop(p) \/ Finalize(p) \/ Recover(p)
    BY <2>0, <2>1, <2>2 DEF Acquire, Prepare, Stop, Finalize, Recover
  <2>3. CASE Write(p)
    BY <2>0, <2>3 DEF Write, At, TargetKnown, LeaseFile
  <2>4. CASE Quarantine(p)
    <3>1. CASE leases[p] = NoLease
      BY <2>0, <2>4, <3>1 DEF Quarantine
    <3>2. CASE leases[p] # NoLease
      <4>1. [leases[p] EXCEPT !.file = "releasing"] \in LeaseFile
        BY <2>0, <3>2 DEF LeaseFile
      <4> QED BY <2>0, <2>4, <3>2, <4>1 DEF Quarantine
    <3> QED BY <3>1, <3>2
  <2>5. CASE Decide(p) \/ Clear(p)
    <3>1. \A S : Without(S) \in [Process -> LeaseFile \cup {NoLease}]
      BY <2>0 DEF Without
    <3> QED BY <2>0, <2>5, <3>1 DEF Decide, Clear
  <2>6. CASE ~(\/ Acquire(p) \/ Prepare(p) \/ Stop(p) \/ Finalize(p) \/ Recover(p)
               \/ Write(p) \/ Quarantine(p) \/ Decide(p) \/ Clear(p))
    BY <2>0, <2>6
       DEF ProcessStep, files, rest, Begin, Create, Judge, Compare, Unlink, Recreate,
           Unlock, Remove, Spawn, Record, Ready, Release, Signal, Wait, Dies
  <2> QED BY <2>2, <2>3, <2>4, <2>5, <2>6
<1> QED BY <1>0, <1>1, <1>2, <1>3, <1>4 DEF TypeOK

-----------------------------------------------------------------------------
(* What a step of one process may do to the files                           *)

\* The processes that have not died only get fewer, what raced once has raced, and
\* what may fail may fail throughout.
LEMMA Ageing ==
    ASSUME TypeOK, NEW p \in Process, ProcessStep(p)
    PROVE  p \in alive /\ alive' \subseteq alive /\ (raced => raced') /\ mayFail' = mayFail
BY DEF ProcessStep, TypeOK, files, rest, At, Begin, Create, Judge, Compare, Unlink,
       Recreate, Unlock, Remove, Acquire, Prepare, Spawn, Record, Write, Ready,
       Release, Quarantine, Decide, Stop, Finalize, Recover, Signal, Wait, Clear, Dies

\* The lock is taken when it is free, and removed by its owner, or in a reclaim.
LEMMA LockMoves ==
    ASSUME TypeOK, NEW p \in Process, ProcessStep(p)
    PROVE  \/ lock' = lock
           \/ lock = None /\ lock' = p
           \/ /\ procs[p].at = "unlink" /\ lock' = None
              /\ ~raced' => lock \in {None, procs[p].seen}
           \/ /\ procs[p].at = "remove" /\ lock' = None
              /\ ~raced' => lock \in {None, p}
BY DEF ProcessStep, TypeOK, files, rest, At, Begin, Create, Judge, Compare, Unlink,
       Recreate, Unlock, Remove, Acquire, Prepare, Spawn, Record, Write, Ready,
       Release, Quarantine, Decide, Stop, Finalize, Recover, Signal, Wait, Clear, Dies

\* The files of the runtime, and the runtimes, change under the lock only.
LEMMA FilesMove ==
    ASSUME TypeOK, NEW p \in Process, ProcessStep(p), procs[p].at \notin Locked
    PROVE  UNCHANGED <<pidFile, sidecar, runtimes>>
BY Steps
   DEF ProcessStep, TypeOK, files, rest, At, Begin, Create, Judge, Compare, Unlink,
       Recreate, Unlock, Remove, Acquire, Prepare, Spawn, Record, Write, Ready,
       Release, Quarantine, Decide, Stop, Finalize, Recover, Signal, Wait, Clear, Dies

\* The lease files of others are removed when they are dead, and otherwise left;
\* a process writes its own.
LEMMA LeasesMove ==
    ASSUME TypeOK, NEW p \in Process, MarksDead(p), ProcessStep(p), NEW q \in Process
    PROVE  \/ leases'[q] = leases[q]
           \/ q \notin alive /\ leases'[q] = NoLease
           \/ q = p /\ leases'[p].file # "lease" /\ procs'[p] # procs[p]
           \/ /\ q = p /\ procs[p].at = "write"
              /\ Leaves(p, "ready") \/ (mayFail /\ GivesUp(p))
<1>0. /\ leases \in [Process -> LeaseFile \cup {NoLease}]
      /\ procs \in [Process -> Proc] /\ alive \subseteq Process
  BY DEF TypeOK
<1>1. ASSUME NEW gone \in Prunable
      PROVE  \/ Without(gone)[q] = leases[q]
             \/ q \notin alive /\ Without(gone)[q] = NoLease
  BY Pruning
<1>2. CASE Acquire(p) \/ Prepare(p) \/ Stop(p) \/ Finalize(p) \/ Recover(p)
  BY <1>1, <1>2 DEF Acquire, Prepare, Stop, Finalize, Recover
<1>3. CASE Write(p)
  BY <1>0, <1>3 DEF Write, At
<1>4. CASE Quarantine(p)
  <2>1. CASE UNCHANGED leases
    BY <2>1
  <2>2. CASE ~UNCHANGED leases
    <3>1. /\ procs[p].at = "section" /\ Goes(p, "decide")
          /\ leases' = [leases EXCEPT ![p].file = "releasing"]
      BY <1>4, <2>2 DEF Quarantine, At
    <3>2. procs'[p].at = "decide"
      <4>1. procs'[p] = [procs[p] EXCEPT !.at = "decide"]
        BY <3>1, Going, Steps
      <4> QED BY <1>0, <4>1 DEF Proc
    <3>3. leases'[p].file = "releasing" /\ (q # p => leases'[q] = leases[q])
      BY <1>0, <3>1 DEF LeaseFile, NoLease
    <3> QED BY <3>1, <3>2, <3>3
  <2> QED BY <2>1, <2>2
<1>5. CASE Decide(p)
  <2>1. procs[p].at = "decide"
    BY <1>5 DEF Decide, At
  <2>2. Leaves(p, "done") => procs'[p] # procs[p]
    BY <2>1, Leaving
  <2>3. ASSUME NEW gone \in Prunable
        PROVE  \/ Without(gone \cup {p})[q] = leases[q]
               \/ q \notin alive /\ Without(gone \cup {p})[q] = NoLease
               \/ q = p /\ Without(gone \cup {p})[q] = NoLease
    BY <1>0, Pruning DEF Without
  <2> QED BY <1>0, <1>1, <1>5, <2>2, <2>3, Marks DEF Decide
<1>6. CASE Clear(p)
  <2>1. CASE UNCHANGED leases
    BY <2>1
  <2>2. CASE ~UNCHANGED leases
    <3>1. PICK o \in IF procs[p].job = "release" THEN {p} ELSE procs[p].marks :
            /\ leases' = Without({o}) /\ procs[p].at = "clear"
            /\ procs[p].job = "release" => Leaves(p, "done")
      BY <1>6, <2>2 DEF Clear, At
    <3>2. procs[p].job = "release" => o = p /\ procs'[p] # procs[p]
      BY <3>1, Leaving
    <3>3. procs[p].job # "release" => o \notin alive
      BY <3>1 DEF MarksDead
    <3> QED BY <1>0, <3>1, <3>2, <3>3, Marks DEF Without
  <2> QED BY <2>1, <2>2
<1>7. CASE ~(\/ Acquire(p) \/ Prepare(p) \/ Stop(p) \/ Finalize(p) \/ Recover(p)
             \/ Write(p) \/ Quarantine(p) \/ Decide(p) \/ Clear(p))
  BY <1>7
     DEF ProcessStep, files, rest, Begin, Create, Judge, Compare, Unlink, Recreate,
         Unlock, Remove, Spawn, Record, Ready, Release, Signal, Wait, Dies
<1> QED BY <1>2, <1>3, <1>4, <1>5, <1>6, <1>7

\* Whatever one process does, what another one knows stays true.
LEMMA OthersKnow ==
    ASSUME Inv, NEW p \in Process, ProcessStep(p), NEW q \in alive', q # p
    PROVE  Knows(q)'
<1>1. /\ p \in alive /\ q \in alive /\ alive' \subseteq alive /\ (raced => raced')
      /\ mayFail' = mayFail /\ procs'[q] = procs[q] /\ q \in Process
  <2>1. p \in alive /\ alive' \subseteq alive /\ (raced => raced') /\ mayFail' = mayFail
    BY Ageing DEF Inv
  <2>2. alive \subseteq Process
    BY DEF Inv, TypeOK
  <2> QED BY <2>1, <2>2, OwnSteps DEF Own, Inv
<1>2. Knows(p) /\ Knows(q)
  BY <1>1 DEF Inv
<1>3. None \notin Process
  BY Marks
<1>4. LockOwned(q)'
  <2> SUFFICES ASSUME ~raced', procs[q].at \in Working
               PROVE  lock' = q
    BY <1>1 DEF LockOwned
  <2>1. lock = q
    BY <1>1, <1>2 DEF Knows, LockOwned
  <2>2. procs[p].at = "unlink" => procs[p].seen # q
    BY <1>1, <1>2 DEF Knows, SeenDead
  <2> QED BY <1>1, <1>3, <2>1, <2>2, LockMoves DEF Inv
<1>5. ASSUME ~raced', procs[q].at \in Locked
      PROVE  procs[p].at \notin Working /\ UNCHANGED <<pidFile, sidecar, runtimes>>
  <2>1. lock = q /\ (procs[p].at \in Working => lock = p)
    BY <1>1, <1>2, <1>5 DEF Knows, LockOwned, Working
  <2> QED BY <1>1, <2>1, FilesMove DEF Inv, Working
<1>6. SeenDead(q)' /\ MarksDead(q)' /\ TargetKnown(q)' /\ NotStarted(q)' /\ StopsAgain(q)'
  BY <1>1, <1>2 DEF Knows, SeenDead, MarksDead, TargetKnown, NotStarted, StopsAgain
<1>7. RecordingAlone(q)'
  <2>1. procs[q].at = "record" => procs[q].at \in Locked
    BY Steps
  <2> QED BY <1>1, <1>2, <1>5, <2>1 DEF Knows, RecordingAlone, NothingRuns, AgentPid, Live
<1>8. NoUsers(q)'
  <2> SUFFICES ASSUME ~raced', Emptied(q), NEW r \in alive' \ {q}
               PROVE  leases'[r].file # "lease"
    BY <1>1 DEF NoUsers, Emptied
  <2>1. procs[q].at \in Locked
    BY Steps DEF Emptied
  <2>2. procs[p].at # "write"
    BY <1>5, <2>1, Steps DEF Working
  <2>3. leases[r].file # "lease" /\ r \in alive /\ r \in Process
    BY <1>1, <1>2 DEF Knows, NoUsers, Inv, TypeOK
  <2> QED BY <1>2, <2>2, <2>3, LeasesMove DEF Inv, Knows
<1>9. OwnLease(q)'
  <2>1. leases'[q] = leases[q] \/ leases'[q].file # "lease"
    BY <1>1, <1>2, LeasesMove, Marks DEF Inv, Knows
  <2> QED BY <1>1, <1>2, <2>1 DEF Knows, OwnLease, LeftOver
<1>10. StopsUnretained(q)'
  <2>1. procs[q].at = "signal" => procs[q].at \in Locked
    BY Steps
  <2> QED BY <1>1, <1>2, <1>5, <2>1 DEF Knows, StopsUnretained
<1> QED
  BY <1>4, <1>6, <1>7, <1>8, <1>9, <1>10 DEF Knows

-----------------------------------------------------------------------------
(* What a process knows after its own steps                                 *)

\* What a process remembers when it only goes to another step,
LEMMA GoesTo ==
    ASSUME TypeOK, NEW p \in Process, NEW step \in Step, Goes(p, step)
    PROVE  LET c == procs[p] d == procs'[p] IN
           /\ d.at = step
           /\ d.job = c.job /\ d.then = c.then /\ d.seen = c.seen /\ d.target = c.target
           /\ d.started = c.started /\ d.marks = c.marks
<1>1. procs'[p] = [procs[p] EXCEPT !.at = step] /\ procs[p] \in Proc
  BY Going DEF TypeOK
<1> QED BY <1>1 DEF Proc

\* when it begins a job,
LEMMA TakesUp ==
    ASSUME TypeOK, NEW p \in Process, NEW job \in Job, Takes(p, job)
    PROVE  LET c == procs[p] d == procs'[p] IN
           /\ d.at = "create" /\ d.job = job /\ d.marks = c.marks /\ d.started = c.started
<1>1. /\ procs'[p] = [procs[p] EXCEPT !.at = "create", !.job = job, !.then = "done"]
      /\ procs[p] \in Proc
  BY Taking DEF TypeOK
<1> QED BY <1>1 DEF Proc

\* and when it did not get the lock.
LEMMA IsBusy ==
    ASSUME TypeOK, NEW p \in Process, Busy(p)
    PROVE  LET c == procs[p] d == procs'[p] IN
           /\ d.at \in {"create", Unlucky(p)}
           /\ d.job = c.job /\ d.started = c.started /\ d.marks = c.marks
<1>0. procs \in [Process -> Proc]
  BY DEF TypeOK
<1>1. PICK step \in {"create", Unlucky(p)} :
          procs' = [procs EXCEPT ![p].at = step, ![p].seen = None]
  BY DEF Busy
<1>2. procs'[p] = [procs[p] EXCEPT !.at = step, !.seen = None]
  BY <1>0, <1>1
<1> QED BY <1>0, <1>1, <1>2 DEF Proc

\* What it has to know where it neither removes a lock of others, nor starts nor
\* stops a runtime.
LEMMA Elsewhere ==
    ASSUME Inv, NEW p \in Process, ProcessStep(p), p \in alive',
           procs'[p].at \notin {"compare", "unlink", "spawn", "record", "write", "signal"},
           procs'[p].marks \subseteq procs[p].marks,
           procs'[p].at \in Working /\ ~raced'
               => lock' = p \/ (lock' = lock /\ procs[p].at \in Working),
           OwnLease(p)', NotStarted(p)', StopsAgain(p)'
    PROVE  Knows(p)'
<1>1. Knows(p) /\ p \in alive /\ alive' \subseteq alive /\ (raced => raced')
  BY Ageing DEF Inv
<1>2. LockOwned(p)' /\ MarksDead(p)'
  BY <1>1 DEF Knows, LockOwned, MarksDead
<1>3. SeenDead(p)' /\ TargetKnown(p)' /\ RecordingAlone(p)' /\ NoUsers(p)'
      /\ StopsUnretained(p)'
  BY DEF SeenDead, TargetKnown, RecordingAlone, NoUsers, Emptied, StopsUnretained
<1> QED BY <1>2, <1>3 DEF Knows

\* The steps that take and release the lock.
LEMMA LockSteps ==
    ASSUME Inv, NEW p \in Process, ProcessStep(p), p \in alive',
           Create(p) \/ Judge(p) \/ Compare(p) \/ Unlink(p) \/ Recreate(p)
           \/ Unlock(p) \/ Remove(p)
    PROVE  Knows(p)'
<1>0. /\ Knows(p) /\ TypeOK /\ procs[p] \in Proc /\ UNCHANGED <<leases, alive, mayFail>>
      /\ p \in alive /\ alive \subseteq Process
  BY DEF Inv, TypeOK, At, Create, Judge, Compare, Unlink, Recreate, Unlock, Remove,
         files, rest
<1>1. CASE Busy(p) /\ procs[p].at \in Locking
  <2>1. /\ procs'[p].at \in {"create", "holding", "done"}
        /\ procs'[p].at = "done" => procs[p].job # "release"
        /\ procs'[p].at = "holding" => procs[p].job = "release"
        /\ procs'[p].job = procs[p].job /\ procs'[p].started = procs[p].started
        /\ procs'[p].marks = procs[p].marks
    BY <1>0, <1>1, IsBusy DEF Unlucky
  <2>2. OwnLease(p)'
    BY <1>0, <1>1, <2>1, Steps DEF Knows, OwnLease, LeftOver, Locking, Unlocking
  <2>3. NotStarted(p)' /\ StopsAgain(p)'
    BY <1>0, <1>1, <2>1 DEF Knows, NotStarted, StopsAgain, Locking, Unlocking
  <2>4. procs'[p].at \notin Working
    BY <2>1 DEF Working, Locked, Unlocking
  <2> QED BY <2>1, <2>2, <2>3, <2>4, Elsewhere
<1>2. ASSUME NEW step \in Locking \cup {"section"}, Goes(p, step),
             procs[p].at \in Locking, step \notin {"compare", "unlink"},
             step = "section" => lock' = p
      PROVE  Knows(p)'
  <2>1. step \in Step
    BY Steps
  <2>2. /\ procs'[p].at = step /\ procs'[p].job = procs[p].job
        /\ procs'[p].started = procs[p].started /\ procs'[p].marks = procs[p].marks
    BY <1>0, <1>2, <2>1, GoesTo
  <2>3. OwnLease(p)' /\ NotStarted(p)' /\ StopsAgain(p)'
    BY <1>0, <1>2, <2>2 DEF Knows, OwnLease, LeftOver, NotStarted, StopsAgain, Locking, Unlocking
  <2>4. step \in Working => step = "section"
    BY <1>2 DEF Working, Locked, Unlocking, Locking
  <2> QED BY <1>2, <2>2, <2>3, <2>4, Elsewhere DEF Locking
<1>3. CASE Create(p) \/ Recreate(p)
  BY <1>1, <1>2, <1>3 DEF Create, Recreate, At, Locking
<1>4. CASE Judge(p)
  <2>1. CASE Busy(p)
    BY <1>1, <1>4, <2>1 DEF Judge, At, Locking
  <2>2. CASE ~Busy(p)
    <3>1. /\ procs' = [procs EXCEPT ![p].at = "compare", ![p].seen = lock]
          /\ procs[p].at = "judge" /\ lock \notin alive /\ raced' = raced
      BY <1>4, <2>2 DEF Judge, At, Stale, rest
    <3>2. procs'[p] = [procs[p] EXCEPT !.at = "compare", !.seen = lock]
      BY <1>0, <3>1 DEF TypeOK
    <3>3. /\ procs'[p].at = "compare" /\ procs'[p].seen = lock
          /\ procs'[p].job = procs[p].job /\ procs'[p].started = procs[p].started
          /\ procs'[p].marks = procs[p].marks
      BY <1>0, <3>2 DEF Proc
    <3>4. OwnLease(p)' /\ NotStarted(p)' /\ StopsAgain(p)'
      BY <1>0, <3>1, <3>3 DEF Knows, OwnLease, LeftOver, NotStarted, StopsAgain, Locking, Unlocking
    <3>6. MarksDead(p)' /\ SeenDead(p)'
      BY <1>0, <3>1, <3>3 DEF Knows, MarksDead, SeenDead
    <3>5. LockOwned(p)' /\ TargetKnown(p)' /\ RecordingAlone(p)' /\ NoUsers(p)'
          /\ StopsUnretained(p)'
      BY <3>3 DEF LockOwned, Working, Locked, Unlocking, TargetKnown, RecordingAlone,
                  NoUsers, Emptied, StopsUnretained
    <3> QED BY <3>4, <3>5, <3>6 DEF Knows
  <2> QED BY <2>1, <2>2
<1>5. CASE Compare(p)
  <2>1. CASE Busy(p)
    BY <1>1, <1>5, <2>1 DEF Compare, At, Locking
  <2>2. CASE ~Busy(p)
    <3>1. Goes(p, "unlink") /\ procs[p].at = "compare"
      BY <1>5, <2>2 DEF Compare, At
    <3>2. /\ procs'[p].at = "unlink" /\ procs'[p].seen = procs[p].seen
          /\ procs'[p].job = procs[p].job /\ procs'[p].started = procs[p].started
          /\ procs'[p].marks = procs[p].marks
      BY <1>0, <3>1, GoesTo, Steps
    <3>3. OwnLease(p)' /\ NotStarted(p)' /\ StopsAgain(p)' /\ MarksDead(p)' /\ SeenDead(p)'
      BY <1>0, <3>1, <3>2
         DEF Knows, OwnLease, LeftOver, NotStarted, StopsAgain, MarksDead, SeenDead,
             Locking, Unlocking
    <3>4. LockOwned(p)' /\ TargetKnown(p)' /\ RecordingAlone(p)' /\ NoUsers(p)'
          /\ StopsUnretained(p)'
      BY <3>2 DEF LockOwned, Working, Locked, Unlocking, TargetKnown, RecordingAlone,
                  NoUsers, Emptied, StopsUnretained
    <3> QED BY <3>3, <3>4 DEF Knows
  <2> QED BY <2>1, <2>2
<1>6. CASE Unlink(p)
  BY <1>1, <1>2, <1>6 DEF Unlink, At, Locking
<1>7. CASE Unlock(p) \/ Remove(p)
  <2>0. procs[p].then # "remove"
    BY <1>0 DEF Proc
  <2>1. PICK step \in {"remove", procs[p].then} :
          /\ Goes(p, step) /\ procs[p].at \in Unlocking
          /\ step = "remove" => lock' = lock
    <3>1. CASE Unlock(p)
      BY <3>1 DEF Unlock, At, Unlocking
    <3>2. CASE Remove(p)
      BY <2>0, <3>2 DEF Remove, At, Unlocking
    <3> QED BY <1>7, <3>1, <3>2
  <2>2. step \in {"remove", "ready", "holding", "done", "create"} /\ step \in Step
    BY <1>0, <2>1, Steps DEF Proc, Locking, Unlocking
  <2>3. /\ procs'[p].at = step /\ procs'[p].job = procs[p].job /\ procs'[p].then = procs[p].then
        /\ procs'[p].started = procs[p].started /\ procs'[p].marks = procs[p].marks
    BY <1>0, <2>1, <2>2, GoesTo
  <2>4. OwnLease(p)'
    BY <1>0, <2>1, <2>2, <2>3 DEF Knows, OwnLease, LeftOver, Locking, Unlocking
  <2>5. NotStarted(p)' /\ StopsAgain(p)'
    BY <1>0, <2>1, <2>2, <2>3 DEF Knows, NotStarted, StopsAgain, Locking, Unlocking
  <2>6. procs'[p].at \in Working => lock' = lock /\ procs[p].at \in Working
    BY <2>1, <2>2, <2>3 DEF Working, Locked, Unlocking
  <2> QED BY <2>2, <2>3, <2>4, <2>5, <2>6, Elsewhere
<1> QED BY <1>3, <1>4, <1>5, <1>6, <1>7

\* A job ends, or goes on with the lease it has.
LEMMA LeavesFor ==
    ASSUME Inv, NEW p \in Process, ProcessStep(p), p \in alive',
           NEW step \in {"ready", "holding", "done"}, Leaves(p, step),
           procs[p].at \in Locked, lock' = lock,
           leases'[p].file = "lease" =>
               \/ step = "done" /\ mayFail
               \/ step = "ready" /\ procs[p].job \in {"acquire", "connect"}
               \/ step = "holding" /\ procs[p].job = "release"
    PROVE  Knows(p)'
<1>1. /\ procs'[p].at = "unlock" /\ procs'[p].then = step
      /\ procs'[p].marks \subseteq procs[p].marks
      /\ step # "done" => procs'[p].job = procs[p].job
      /\ mayFail' = mayFail
  BY Leaving, Ageing DEF Inv
<1>2. OwnLease(p)' /\ NotStarted(p)' /\ StopsAgain(p)'
  BY <1>1 DEF OwnLease, LeftOver, NotStarted, StopsAgain, Locking, Unlocking
<1> QED BY <1>1, <1>2, Elsewhere DEF Working

\* A job goes on under the lock.
LEMMA GoesOn ==
    ASSUME Inv, NEW p \in Process, ProcessStep(p), p \in alive',
           procs[p].at \in Locked, lock' = lock,
           procs'[p].at \in {"decide", "wait", "clear"},
           procs'[p].marks \subseteq procs[p].marks,
           leases'[p].file = "lease" => LeftOver(p)'
    PROVE  Knows(p)'
<1>1. OwnLease(p)' /\ NotStarted(p)' /\ StopsAgain(p)'
  BY DEF OwnLease, NotStarted, StopsAgain, Locking, Unlocking
<1> QED BY <1>1, Elsewhere DEF Working

\* A job goes on under the lock, to start or stop a runtime that nobody uses.
LEMMA GoesOnAlone ==
    ASSUME Inv, NEW p \in Process, ProcessStep(p), p \in alive',
           procs[p].at \in Locked, lock' = lock,
           procs'[p].at \in {"spawn", "record", "write", "signal"},
           procs'[p].marks \cap alive = {},
           leases'[p].file = "lease" => LeftOver(p)',
           ~raced => \/ procs'[p].at = "write" /\ ~procs'[p].started
                     \/ \A q \in alive \ {p} : leases'[q].file # "lease",
           TargetKnown(p)', RecordingAlone(p)', StopsUnretained(p)'
    PROVE  Knows(p)'
<1>1. Knows(p) /\ p \in alive /\ alive' \subseteq alive /\ (raced => raced')
  BY Ageing DEF Inv
<1>2. LockOwned(p)' /\ MarksDead(p)' /\ SeenDead(p)'
  BY <1>1 DEF Knows, LockOwned, MarksDead, SeenDead, Working
<1>3. NoUsers(p)'
  BY <1>1 DEF NoUsers, Emptied
<1>4. OwnLease(p)' /\ NotStarted(p)' /\ StopsAgain(p)'
  BY DEF OwnLease, NotStarted, StopsAgain, Locking, Unlocking
<1> QED BY <1>2, <1>3, <1>4 DEF Knows

\* In the steps of a job under the lock a process has no lease, but one that a write
\* left; in the section only a release has.
LEMMA Unleased ==
    ASSUME Inv, NEW p \in alive,
           \/ procs[p].at \in Locked \ {"section"}
           \/ procs[p].at = "section" /\ procs[p].job # "release"
           \/ procs[p].at = "idle"
    PROVE  \/ leases[p].file # "lease"
           \/ /\ mayFail /\ procs[p].at \in {"signal", "wait"}
              /\ procs[p].job \in {"acquire", "connect"}
BY DEF Inv, Knows, OwnLease, LeftOver, Locked, Locking, Unlocking

\* A process without a lease has none after its step, unless it writes one.
LEMMA EmptyHanded ==
    ASSUME Inv, NEW p \in Process, p \in alive, ProcessStep(p),
           leases[p].file # "lease", procs[p].at # "write"
    PROVE  leases'[p].file # "lease"
<1>1. MarksDead(p)
  BY DEF Inv, Knows
<1> QED BY <1>1, LeasesMove, Marks DEF Inv

\* Without blockers nobody else has a lease.
LEMMA NobodyElse ==
    ASSUME TypeOK, NEW p \in Process, NEW gone \in Prunable, leases' = Without(gone)
    PROVE  /\ Blockers(p, gone) = {} => \A q \in alive \ {p} : leases'[q].file # "lease"
           /\ Blockers(p, gone) \subseteq Interrupted
                => \A q \in alive \ {p} : leases'[q].file # "lease"
<1>1. gone \subseteq Process \ alive /\ alive \subseteq Process
  BY Pruning DEF TypeOK
<1>2. \A q \in alive : leases'[q] = leases[q]
  BY <1>1 DEF Without
<1>3. \A q \in alive \ {p} : q \notin Blockers(p, gone) => leases[q].file = "none"
  BY <1>1 DEF Blockers
<1> QED BY <1>2, <1>3 DEF Interrupted, Invalid

\* The first steps under the lock: what was inspected is what is known next.
LEMMA SectionSteps ==
    ASSUME Inv, NEW p \in Process, ProcessStep(p), p \in alive',
           Acquire(p) \/ Prepare(p) \/ Stop(p) \/ Finalize(p) \/ Recover(p)
    PROVE  Knows(p)'
<1>0. /\ Knows(p) /\ TypeOK /\ procs \in [Process -> Proc] /\ p \in alive
      /\ procs[p].at = "section" /\ procs[p].job # "release"
      /\ procs[p].at \in Locked /\ UNCHANGED <<lock, pidFile, runtimes, rest>>
  BY Steps DEF Inv, TypeOK, At, Acquire, Prepare, Stop, Finalize, Recover
<1>1. leases[p].file # "lease" /\ leases'[p].file # "lease"
  BY <1>0, Unleased, EmptyHanded
<1>2. Leaves(p, "done") \/ Leaves(p, "ready") => Knows(p)'
  BY <1>0, <1>1, LeavesFor
<1>3. ASSUME Starts(p), procs[p].job \in {"acquire", "prepare"},
             NEW gone \in Prunable, leases' = Without(gone), Blockers(p, gone) = {}
      PROVE  Knows(p)'
  <2>1. /\ procs'[p].at = "spawn" /\ procs'[p].job = procs[p].job
        /\ procs'[p].marks = procs[p].marks
    BY <1>0, <1>3, GoesTo, Steps DEF Starts
  <2>2. TargetKnown(p)' /\ RecordingAlone(p)' /\ StopsUnretained(p)'
    BY <1>3, <2>1 DEF TargetKnown, RecordingAlone, StopsUnretained
  <2>3. \A q \in alive \ {p} : leases'[q].file # "lease"
    BY <1>0, <1>3, NobodyElse
  <2>4. procs'[p].marks \cap alive = {}
    BY <1>0, <2>1 DEF Knows, MarksDead
  <2> QED BY <1>0, <1>1, <2>1, <2>2, <2>3, <2>4, GoesOnAlone
<1>4. ASSUME Joins(p), Runs, procs[p].job \in {"acquire", "connect"}
      PROVE  Knows(p)'
  <2>1. AgentPid \in Runtime
    BY <1>0, <1>4, Readings DEF Runs
  <2>2. procs'[p] = [procs[p] EXCEPT !.at = "write", !.target = AgentPid]
    BY <1>0, <1>4 DEF Joins
  <2>3. /\ procs'[p].at = "write" /\ procs'[p].target = AgentPid
        /\ procs'[p].job = procs[p].job /\ procs'[p].started = procs[p].started
        /\ procs'[p].marks = procs[p].marks
    BY <1>0, <2>2 DEF Proc
  <2>4. ~procs'[p].started
    BY <1>0, <1>4, <2>3 DEF Knows, NotStarted
  <2>5. TargetKnown(p)' /\ RecordingAlone(p)' /\ StopsUnretained(p)'
    BY <1>4, <2>1, <2>3 DEF TargetKnown, RecordingAlone, StopsUnretained
  <2>6. procs'[p].marks \cap alive = {}
    BY <1>0, <2>3 DEF Knows, MarksDead
  <2> QED BY <1>0, <1>1, <2>3, <2>4, <2>5, <2>6, GoesOnAlone
<1>5. ASSUME NEW gone \in Prunable, leases' = Without(gone),
             Blockers(p, gone) = {}, Stops(p, AgentPid)
      PROVE  Knows(p)'
  <2>1. procs'[p] = [procs[p] EXCEPT !.at = "signal", !.target = AgentPid]
    BY <1>0, <1>5 DEF Stops
  <2>2. /\ procs'[p].at = "signal" /\ procs'[p].job = procs[p].job
        /\ procs'[p].marks = procs[p].marks
    BY <1>0, <2>1 DEF Proc
  <2>3. TargetKnown(p)' /\ RecordingAlone(p)' /\ StopsUnretained(p)'
    BY <1>0, <2>2 DEF TargetKnown, RecordingAlone, StopsUnretained
  <2>4. \A q \in alive \ {p} : leases'[q].file # "lease"
    BY <1>0, <1>5, NobodyElse
  <2>5. procs'[p].marks \cap alive = {}
    BY <1>0, <2>2 DEF Knows, MarksDead
  <2> QED BY <1>0, <1>1, <2>2, <2>3, <2>4, <2>5, GoesOnAlone
<1>6. CASE Acquire(p)
  BY <1>2, <1>3, <1>4, <1>6 DEF Acquire
<1>7. CASE Prepare(p)
  BY <1>2, <1>3, <1>7 DEF Prepare
<1>8. CASE Stop(p) \/ Finalize(p)
  BY <1>2, <1>5, <1>8 DEF Stop, Finalize
<1>9. CASE Recover(p)
  <2>1. CASE Leaves(p, "done")
    BY <1>2, <2>1
  <2>2. CASE procs' = [procs EXCEPT ![p].at = "unlock", ![p].job = "stop", ![p].then = "create"]
    <3>1. procs'[p] = [procs[p] EXCEPT !.at = "unlock", !.job = "stop", !.then = "create"]
      BY <1>0, <2>2
    <3>2. /\ procs'[p].at = "unlock" /\ procs'[p].job = "stop"
          /\ procs'[p].marks = procs[p].marks
      BY <1>0, <3>1 DEF Proc
    <3>3. OwnLease(p)' /\ NotStarted(p)' /\ StopsAgain(p)'
      BY <1>1, <3>2 DEF OwnLease, NotStarted, StopsAgain, Locking, Unlocking
    <3> QED BY <1>0, <3>2, <3>3, Elsewhere DEF Working
  <2>3. ASSUME NEW gone \in Prunable, leases' = Without(gone), Recoverable(p, gone),
               NEW q \in Interrupted,
               procs' = [procs EXCEPT ![p].at = "signal", ![p].marks = Interrupted,
                             ![p].saw = Runs,
                             ![p].target = IF Runs THEN AgentPid ELSE leases[q].runtime]
        PROVE  Knows(p)'
    <3> DEFINE r == IF Runs THEN AgentPid ELSE leases[q].runtime
    <3>1. procs'[p] = [procs[p] EXCEPT !.at = "signal", !.marks = Interrupted,
                                       !.saw = Runs, !.target = r]
      BY <1>0, <2>3
    <3> HIDE DEF r
    <3>2. /\ procs'[p].at = "signal" /\ procs'[p].job = procs[p].job
          /\ procs'[p].marks = Interrupted
      BY <1>0, <3>1 DEF Proc
    <3>3. TargetKnown(p)' /\ RecordingAlone(p)' /\ StopsUnretained(p)'
      BY <1>0, <3>2 DEF TargetKnown, RecordingAlone, StopsUnretained
    <3>4. \A o \in alive \ {p} : leases'[o].file # "lease"
      BY <1>0, <2>3, NobodyElse DEF Recoverable
    <3>5. procs'[p].marks \cap alive = {}
      BY <2>3, <3>2 DEF Recoverable, Gone
    <3> QED BY <1>0, <1>1, <3>2, <3>3, <3>4, <3>5, GoesOnAlone
  <2> QED BY <1>9, <2>1, <2>2, <2>3 DEF Recover
<1> QED BY <1>6, <1>7, <1>8, <1>9

\* A start, up to the lease it was made for.
LEMMA StartSteps ==
    ASSUME Inv, NEW p \in Process, ProcessStep(p), p \in alive',
           Spawn(p) \/ Record(p) \/ Write(p)
    PROVE  Knows(p)'
<1>0. /\ Knows(p) /\ TypeOK /\ procs \in [Process -> Proc] /\ p \in alive
      /\ procs[p].at \in {"spawn", "record", "write"} /\ procs[p].at \in Locked
      /\ UNCHANGED <<lock, rest>>
  BY Steps DEF Inv, TypeOK, At, Spawn, Record, Write
<1>1. leases[p].file # "lease" /\ (procs[p].at # "write" => leases'[p].file # "lease")
  BY <1>0, Unleased, EmptyHanded, Steps DEF Locked
<1>2. procs[p].marks \cap alive = {}
  BY <1>0 DEF Knows, MarksDead
<1>3. ~raced /\ Emptied(p) => \A q \in alive \ {p} : leases[q].file # "lease"
  BY <1>0 DEF Knows, NoUsers
<1>4. CASE Spawn(p)
  <2>1. CASE Leaves(p, "done")
    BY <1>0, <1>1, <1>4, <2>1, LeavesFor DEF Spawn, At
  <2>2. CASE ~Leaves(p, "done")
    <3>1. PICK r \in Runtime :
            /\ procs' = [procs EXCEPT ![p].at = "record", ![p].target = r]
            /\ runtimes' = [runtimes EXCEPT ![r] = "running"]
            /\ NothingRuns /\ UNCHANGED <<pidFile, leases>> /\ procs[p].at = "spawn"
      BY <1>4, <2>2 DEF Spawn, At
    <3>2. procs'[p] = [procs[p] EXCEPT !.at = "record", !.target = r]
      BY <1>0, <3>1
    <3>3. /\ procs'[p].at = "record" /\ procs'[p].target = r
          /\ procs'[p].job = procs[p].job /\ procs'[p].marks = procs[p].marks
      BY <1>0, <3>2 DEF Proc
    <3>4. NothingRuns' \/ pidFile' = r
      BY <3>1 DEF NothingRuns, AgentPid, Live, TypeOK, Inv
    <3>5. TargetKnown(p)'
      BY <1>0, <3>1, <3>3 DEF Knows, TargetKnown
    <3>6. RecordingAlone(p)' /\ StopsUnretained(p)'
      BY <3>3, <3>4 DEF RecordingAlone, StopsUnretained
    <3>7. ~raced => \A q \in alive \ {p} : leases'[q].file # "lease"
      BY <1>3, <3>1 DEF Emptied
    <3> QED BY <1>0, <1>1, <1>2, <3>1, <3>3, <3>5, <3>6, <3>7, GoesOnAlone
  <2> QED BY <2>1, <2>2
<1>5. CASE Record(p)
  <2>0. procs[p].at = "record" /\ UNCHANGED leases /\ procs[p].job \in {"acquire", "prepare"}
        /\ procs[p].target \in Runtime
    BY <1>0, <1>5 DEF Record, At, Knows, TargetKnown
  <2>1. ~raced => \A q \in alive \ {p} : leases'[q].file # "lease"
    BY <1>3, <2>0 DEF Emptied
  <2>2. CASE Leaves(p, "done")
    BY <1>0, <1>1, <2>0, <2>2, LeavesFor
  <2>3. CASE pidFile' = procs[p].target /\ UNCHANGED procs
    <3>1. TargetKnown(p)' /\ RecordingAlone(p)' /\ StopsUnretained(p)'
      BY <1>0, <2>0, <2>3 DEF Knows, TargetKnown, RecordingAlone, StopsUnretained
    <3> QED BY <1>0, <1>1, <1>2, <2>0, <2>1, <2>3, <3>1, GoesOnAlone
  <2>6. CASE Goes(p, "signal") /\ procs[p].job = "prepare"
    <3>1. /\ procs'[p].at = "signal" /\ procs'[p].job = procs[p].job
          /\ procs'[p].marks = procs[p].marks
      BY <1>0, <2>6, GoesTo, Steps
    <3>2. TargetKnown(p)' /\ RecordingAlone(p)' /\ StopsUnretained(p)'
      BY <2>6, <3>1 DEF TargetKnown, RecordingAlone, StopsUnretained
    <3> QED BY <1>0, <1>1, <1>2, <2>0, <2>1, <3>1, <3>2, GoesOnAlone
  <2>4. ASSUME procs[p].job = "prepare",
               procs' = [procs EXCEPT ![p].at = "unlock", ![p].then = "ready",
                                      ![p].started = TRUE]
        PROVE  Knows(p)'
    <3>1. procs'[p] = [procs[p] EXCEPT !.at = "unlock", !.then = "ready", !.started = TRUE]
      BY <1>0, <2>4
    <3>2. /\ procs'[p].at = "unlock" /\ procs'[p].then = "ready"
          /\ procs'[p].marks = procs[p].marks
      BY <1>0, <3>1 DEF Proc
    <3>3. OwnLease(p)' /\ NotStarted(p)' /\ StopsAgain(p)'
      BY <1>1, <2>0, <3>2 DEF OwnLease, NotStarted, StopsAgain, Locking, Unlocking
    <3> QED BY <1>0, <3>2, <3>3, Elsewhere DEF Working
  <2>5. ASSUME procs[p].job # "prepare",
               procs' = [procs EXCEPT ![p].at = "write", ![p].then = "done",
                                      ![p].started = TRUE]
        PROVE  Knows(p)'
    <3>1. procs'[p] = [procs[p] EXCEPT !.at = "write", !.then = "done", !.started = TRUE]
      BY <1>0, <2>5
    <3>2. /\ procs'[p].at = "write" /\ procs'[p].target = procs[p].target
          /\ procs'[p].job = procs[p].job /\ procs'[p].marks = procs[p].marks
      BY <1>0, <3>1 DEF Proc
    <3>3. TargetKnown(p)' /\ RecordingAlone(p)' /\ StopsUnretained(p)'
      BY <2>0, <2>5, <3>2 DEF TargetKnown, RecordingAlone, StopsUnretained
    <3> QED BY <1>0, <1>1, <1>2, <2>0, <2>1, <3>2, <3>3, GoesOnAlone
  <2> QED BY <1>5, <2>2, <2>3, <2>4, <2>5, <2>6 DEF Record
<1>6. CASE Write(p)
  <2>0. procs[p].at = "write" /\ procs[p].job \in {"acquire", "connect"}
    BY <1>0, <1>6 DEF Write, At, Knows, TargetKnown
  <2>1. CASE Leaves(p, "ready")
    BY <1>0, <2>0, <2>1, LeavesFor
  <2>2. CASE Leaves(p, "done") /\ mayFail
    BY <1>0, <2>2, LeavesFor
  <2>3. CASE Goes(p, "signal") /\ procs[p].started /\ mayFail
    <3>1. /\ procs'[p].at = "signal" /\ procs'[p].job = procs[p].job
          /\ procs'[p].marks = procs[p].marks
      BY <1>0, <2>3, GoesTo, Steps
    <3>2. TargetKnown(p)' /\ RecordingAlone(p)' /\ StopsUnretained(p)'
      BY <2>0, <3>1 DEF TargetKnown, RecordingAlone, StopsUnretained
    <3>3. ~raced => \A q \in alive \ {p} : leases'[q].file # "lease"
      <4>1. \A q \in alive \ {p} : q \in Process /\ leases'[q] = leases[q]
        BY <1>0, <1>6 DEF Write, TypeOK
      <4> QED BY <1>3, <2>0, <2>3, <4>1 DEF Emptied
    <3>4. LeftOver(p)'
      BY <1>0, <2>0, <2>3, <3>1 DEF LeftOver, rest
    <3> QED BY <1>0, <1>2, <2>3, <3>1, <3>2, <3>3, <3>4, GoesOnAlone
  <2> QED BY <1>6, <2>1, <2>2, <2>3 DEF Write, GivesUp
<1> QED BY <1>4, <1>5, <1>6

\* A release and a stop.
LEMMA StopSteps ==
    ASSUME Inv, NEW p \in Process, ProcessStep(p), p \in alive',
           Quarantine(p) \/ Decide(p) \/ Signal(p) \/ Wait(p) \/ Clear(p)
    PROVE  Knows(p)'
<1>0. /\ Knows(p) /\ TypeOK /\ procs \in [Process -> Proc] /\ p \in alive
      /\ procs[p].at \in {"section", "decide", "signal", "wait", "clear"}
      /\ procs[p].at \in Locked /\ UNCHANGED <<lock, rest>>
  BY Steps DEF Inv, TypeOK, At, Quarantine, Decide, Signal, Wait, Clear
<1>1. procs[p].at # "section" =>
        \/ leases[p].file # "lease" /\ leases'[p].file # "lease"
        \/ /\ mayFail /\ procs[p].at \in {"signal", "wait"}
           /\ procs[p].job \in {"acquire", "connect"}
  BY <1>0, Unleased, EmptyHanded
<1>2. procs[p].marks \cap alive = {}
  BY <1>0 DEF Knows, MarksDead
<1>3. ASSUME procs[p].at # "section",
             \/ Leaves(p, "done")
             \/ /\ Leaves(p, "holding")
                /\ procs[p].job = "release" \/ leases'[p].file # "lease"
      PROVE  Knows(p)'
  BY <1>0, <1>1, <1>3, LeavesFor
<1>4. ASSUME procs[p].at # "section", Goes(p, "clear"),
             procs[p].job \in {"recover", "release"}
      PROVE  Knows(p)'
  <2>1. procs'[p].at = "clear" /\ procs'[p].marks = procs[p].marks
    BY <1>0, <1>4, GoesTo, Steps
  <2> QED BY <1>0, <1>1, <1>4, <2>1, GoesOn
<1>5. CASE Quarantine(p)
  <2>1. CASE leases[p] = NoLease
    BY <1>0, <1>5, <2>1, LeavesFor, Marks DEF Quarantine
  <2>2. CASE leases[p] # NoLease
    <3>1. Goes(p, "decide") /\ leases' = [leases EXCEPT ![p].file = "releasing"]
      BY <1>5, <2>2 DEF Quarantine
    <3>2. procs'[p].at = "decide" /\ procs'[p].marks = procs[p].marks
      BY <1>0, <3>1, GoesTo, Steps
    <3>3. leases'[p].file # "lease"
      BY <1>0, <2>2, <3>1 DEF TypeOK, LeaseFile
    <3> QED BY <1>0, <3>2, <3>3, GoesOn
  <2> QED BY <2>1, <2>2
<1>6. CASE Decide(p)
  <2>0. procs[p].at = "decide" /\ UNCHANGED sidecar
    BY <1>6 DEF Decide, At
  <2>1. CASE Leaves(p, "done") \/ Leaves(p, "holding")
    BY <1>1, <1>3, <2>0, <2>1
  <2>2. CASE ~(Leaves(p, "done") \/ Leaves(p, "holding"))
    <3>1. PICK gone \in Prunable :
            /\ leases' = Without(gone) /\ ~Retained /\ Blockers(p, gone) = {}
            /\ procs' = [procs EXCEPT ![p].at = "signal", ![p].target = AgentPid]
      BY <1>6, <2>2 DEF Decide, OtherUsage
    <3>2. procs'[p] = [procs[p] EXCEPT !.at = "signal", !.target = AgentPid]
      BY <1>0, <3>1
    <3>3. procs'[p].at = "signal" /\ procs'[p].marks = procs[p].marks
      BY <1>0, <3>2 DEF Proc
    <3>4. TargetKnown(p)' /\ RecordingAlone(p)' /\ StopsUnretained(p)'
      BY <2>0, <3>1, <3>3 DEF TargetKnown, RecordingAlone, StopsUnretained, Retained
    <3>5. \A q \in alive \ {p} : leases'[q].file # "lease"
      BY <1>0, <3>1, NobodyElse
    <3> QED BY <1>0, <1>1, <1>2, <2>0, <3>3, <3>4, <3>5, GoesOnAlone
  <2> QED BY <2>1, <2>2
<1>7. CASE Signal(p)
  <2>0. procs[p].at = "signal"
    BY <1>7 DEF Signal, At
  <2>1. CASE Leaves(p, "done") \/ (Leaves(p, "holding") /\ procs[p].job = "release")
    BY <1>3, <2>0, <2>1
  <2>2. CASE Goes(p, "clear") /\ procs[p].job \in {"recover", "release"}
    BY <1>4, <2>0, <2>2
  <2>3. CASE procs' = [procs EXCEPT ![p].at = "wait", ![p].target = AgentPid]
    <3>1. procs'[p] = [procs[p] EXCEPT !.at = "wait", !.target = AgentPid]
      BY <1>0, <2>3
    <3>2. /\ procs'[p].at = "wait" /\ procs'[p].marks = procs[p].marks
          /\ procs'[p].job = procs[p].job
      BY <1>0, <3>1 DEF Proc
    <3>3. leases'[p].file = "lease" => LeftOver(p)'
      BY <1>0, <1>1, <2>0, <3>2 DEF LeftOver, rest
    <3> QED BY <1>0, <2>0, <3>2, <3>3, GoesOn
  <2> QED BY <1>7, <2>1, <2>2, <2>3 DEF Signal, After, Throws
<1>8. CASE Wait(p)
  <2>0. procs[p].at # "section"
    BY <1>8 DEF Wait, At
  <2> QED BY <1>3, <1>4, <1>8, <2>0 DEF Wait, After, Throws
<1>9. CASE Clear(p)
  <2>0. procs[p].at = "clear"
    BY <1>9 DEF Clear, At
  <2>1. ASSUME NEW q, procs' = [procs EXCEPT ![p].marks = @ \ {q}]
        PROVE  Knows(p)'
    <3>1. procs'[p] = [procs[p] EXCEPT !.marks = @ \ {q}]
      BY <1>0, <2>1
    <3>2. procs'[p].at = "clear" /\ procs'[p].marks \subseteq procs[p].marks
      BY <1>0, <2>0, <3>1 DEF Proc
    <3> QED BY <1>0, <1>1, <2>0, <3>2, GoesOn
  <2> QED BY <1>3, <1>9, <2>0, <2>1 DEF Clear, Throws
<1> QED BY <1>0, <1>5, <1>6, <1>7, <1>8, <1>9

\* A process begins a command, is done with its start, or gives its lease back.
LEMMA TurnSteps ==
    ASSUME Inv, NEW p \in Process, ProcessStep(p), p \in alive',
           Begin(p) \/ Ready(p) \/ Release(p)
    PROVE  Knows(p)'
<1>0. /\ Knows(p) /\ TypeOK /\ procs \in [Process -> Proc] /\ p \in alive
      /\ procs[p].at \in {"idle", "ready", "holding"} /\ UNCHANGED <<leases, lock>>
  BY DEF Inv, TypeOK, At, Begin, Ready, Release, files
<1>1. procs[p].at = "idle" => leases[p].file # "lease" /\ ~procs[p].started
  BY <1>0 DEF Knows, OwnLease, LeftOver, NotStarted, Locking, Unlocking
<1>2. ASSUME NEW job \in Job, Takes(p, job),
             job = "release" \/ leases[p].file # "lease",
             job \in {"acquire", "connect"} => ~procs[p].started
      PROVE  Knows(p)'
  <2>1. /\ procs'[p].at = "create" /\ procs'[p].job = job /\ procs'[p].marks = procs[p].marks
        /\ procs'[p].started = procs[p].started
    BY <1>0, <1>2, TakesUp
  <2>2. OwnLease(p)' /\ NotStarted(p)' /\ StopsAgain(p)'
    BY <1>0, <1>2, <2>1 DEF OwnLease, NotStarted, StopsAgain, Locking, Unlocking
  <2>3. procs'[p].at \notin Working
    BY <2>1 DEF Working, Locked, Unlocking
  <2> QED BY <2>1, <2>2, <2>3, Elsewhere
<1>3. CASE Begin(p)
  <2>1. PICK job \in {"acquire", "connect", "prepare", "stop", "recover"} :
            Takes(p, job) /\ procs[p].at = "idle"
    BY <1>3, UsageAssumption DEF Begin, At
  <2>2. job \in Job
    BY DEF Job
  <2> QED BY <1>1, <1>2, <2>1, <2>2
<1>4. CASE Release(p)
  BY <1>2, <1>4 DEF Release, Job
<1>5. CASE Ready(p)
  <2>0. procs[p].at = "ready"
    BY <1>5 DEF Ready, At
  <2>1. CASE procs[p].job = "prepare"
    <3>1. leases[p].file # "lease"
      BY <1>0, <2>0, <2>1 DEF Knows, OwnLease, LeftOver, Locking, Unlocking
    <3>2. CASE Takes(p, "finalize")
      BY <1>2, <3>1, <3>2 DEF Job
    <3>3. CASE Goes(p, "done")
      <4>1. procs'[p].at = "done" /\ procs'[p].marks = procs[p].marks
        BY <1>0, <3>3, GoesTo, Steps
      <4>2. OwnLease(p)' /\ NotStarted(p)' /\ StopsAgain(p)'
        BY <1>0, <3>1, <4>1 DEF OwnLease, NotStarted, StopsAgain, Locking, Unlocking
      <4>3. procs'[p].at \notin Working
        BY <4>1 DEF Working, Locked, Unlocking
      <4> QED BY <4>1, <4>2, <4>3, Elsewhere
    <3> QED BY <1>5, <2>1, <3>2, <3>3 DEF Ready
  <2>2. CASE procs[p].job # "prepare"
    <3>1. CASE Takes(p, "release")
      BY <1>2, <3>1 DEF Job
    <3>2. CASE Goes(p, "holding")
      <4>1. /\ procs'[p].at = "holding" /\ procs'[p].marks = procs[p].marks
            /\ procs'[p].job = procs[p].job
        BY <1>0, <3>2, GoesTo, Steps
      <4>2. OwnLease(p)' /\ NotStarted(p)' /\ StopsAgain(p)'
        BY <1>0, <2>0, <4>1
           DEF Knows, OwnLease, LeftOver, NotStarted, StopsAgain, Locking, Unlocking
      <4>3. procs'[p].at \notin Working
        BY <4>1 DEF Working, Locked, Unlocking
      <4> QED BY <4>1, <4>2, <4>3, Elsewhere
    <3> QED BY <1>5, <2>2, <3>1, <3>2 DEF Ready
  <2> QED BY <2>1, <2>2
<1> QED BY <1>3, <1>4, <1>5

-----------------------------------------------------------------------------
(* The invariant                                                            *)

\* A runtime stays on record, or to be recorded, until it ends or is told to.
LEMMA Recorded ==
    ASSUME Inv, NEW p \in Process, ProcessStep(p)
    PROVE  RuntimeRecorded'
<1>0. /\ TypeOK /\ p \in alive /\ Knows(p) /\ Own(p) /\ (raced => raced')
      /\ procs \in [Process -> Proc]
  BY Ageing, OwnSteps DEF Inv, TypeOK
<1>1. SUFFICES ASSUME NEW r \in Runtime, runtimes'[r] = "running", ~raced'
               PROVE  \/ pidFile' = r
                      \/ \E q \in Process : procs'[q].at = "record" /\ procs'[q].target = r
  BY DEF RuntimeRecorded
<1>2. ~raced
  BY <1>0, <1>1
<1>3. ASSUME NEW q \in Process, procs[q].at = "record", procs[q].target = r,
             q # p \/ procs'[p] = procs[p]
      PROVE  procs'[q].at = "record" /\ procs'[q].target = r
  BY <1>0, <1>3 DEF Own
<1>4. CASE Spawn(p)
  <2>1. procs[p].at = "spawn" /\ UNCHANGED pidFile
    BY <1>4 DEF Spawn, At
  <2>2. CASE runtimes[r] = "running"
    BY <1>0, <1>2, <1>3, <2>1, <2>2 DEF Inv, RuntimeRecorded
  <2>3. CASE runtimes[r] # "running"
    <3>1. procs' = [procs EXCEPT ![p].at = "record", ![p].target = r]
      BY <1>0, <1>1, <1>4, <2>3 DEF Spawn, TypeOK
    <3>2. procs'[p] = [procs[p] EXCEPT !.at = "record", !.target = r]
      BY <1>0, <3>1
    <3>3. procs'[p].at = "record" /\ procs'[p].target = r
      <4>1. procs[p] \in Proc
        BY <1>0
      <4> QED BY <3>2, <4>1 DEF Proc
    <3> QED BY <3>3
  <2> QED BY <2>2, <2>3
<1>5. ASSUME runtimes[r] = "running", pidFile' = pidFile, procs[p].at # "record"
      PROVE  \/ pidFile' = r
             \/ \E q \in Process : procs'[q].at = "record" /\ procs'[q].target = r
  BY <1>2, <1>3, <1>5 DEF Inv, RuntimeRecorded
<1>6. ASSUME runtimes[r] = "running", NothingRuns
      PROVE  pidFile # r
  BY <1>6, Marks DEF NothingRuns, AgentPid, Live
<1>7. CASE Record(p)
  <2>0. procs[p].at = "record" /\ RecordingAlone(p)
    BY <1>0, <1>7 DEF Record, At, Knows
  <2>1. runtimes[r] = "running"
    BY <1>0, <1>1, <1>7 DEF Record, TypeOK, Live
  <2>2. CASE procs[p].target = r
    BY <1>0, <1>1, <1>7, <2>1, <2>2 DEF Record, TypeOK, Live, Own
  <2>3. CASE procs[p].target # r
    <3>1. pidFile # r
      BY <1>2, <1>6, <2>0, <2>1, <2>3 DEF RecordingAlone
    <3> QED BY <1>2, <1>3, <2>1, <2>3, <3>1 DEF Inv, RuntimeRecorded
  <2> QED BY <2>2, <2>3
<1>8. CASE Signal(p)
  <2>0. procs[p].at = "signal"
    BY <1>8 DEF Signal, At
  <2>1. runtimes[r] = "running"
    BY <1>0, <1>1, <1>8 DEF Signal, TypeOK
  <2>2. CASE UNCHANGED pidFile
    BY <1>5, <2>0, <2>1, <2>2
  <2>3. CASE ~UNCHANGED pidFile
    <3>1. NothingRuns
      BY <1>8, <2>3 DEF Signal
    <3> QED BY <1>2, <1>3, <1>6, <2>0, <2>1, <3>1 DEF Inv, RuntimeRecorded
  <2> QED BY <2>2, <2>3
<1>9. CASE Wait(p)
  <2>0. procs[p].at = "wait" /\ UNCHANGED runtimes
    BY <1>9 DEF Wait, At
  <2>1. pidFile' # pidFile => pidFile # r
    BY <1>1, <1>9, <2>0 DEF Wait, Live
  <2> QED BY <1>1, <1>2, <1>3, <2>0, <2>1 DEF Inv, RuntimeRecorded
<1>10. CASE Dies(p)
  <2>0. procs[p].at = "record" => procs'[p] = procs[p]
    BY <1>10 DEF Dies
  <2>1. UNCHANGED <<pidFile, runtimes>>
    BY <1>10 DEF Dies, files
  <2> QED BY <1>1, <1>2, <1>3, <2>0, <2>1 DEF Inv, RuntimeRecorded
<1>11. CASE ~(Spawn(p) \/ Record(p) \/ Signal(p) \/ Wait(p) \/ Dies(p))
  <2>1. UNCHANGED <<pidFile, runtimes>> /\ procs[p].at # "record"
    BY <1>11
       DEF ProcessStep, At, files, rest, Begin, Create, Judge, Compare, Unlink, Recreate,
           Unlock, Remove, Acquire, Prepare, Write, Ready, Release, Quarantine, Decide,
           Stop, Finalize, Recover, Clear
  <2> QED BY <1>1, <1>5, <2>1
<1> QED BY <1>4, <1>7, <1>8, <1>9, <1>10, <1>11

\* The end of a runtime disturbs nothing that is known.
LEMMA Exiting ==
    ASSUME Inv, NEW r \in Runtime, Exits(r)
    PROVE  Inv'
<1>1. UNCHANGED <<lock, pidFile, sidecar, leases, procs, alive, mayFail, raced>>
  BY DEF Exits, rest
<1>2. runtimes' = [runtimes EXCEPT ![r] = "gone"] /\ TypeOK
  BY DEF Exits, Inv
<1>3. TypeOK'
  BY <1>1, <1>2 DEF TypeOK
<1>4. RuntimeRecorded'
  BY <1>1, <1>2 DEF Inv, RuntimeRecorded, TypeOK
<1>5. NothingRuns => NothingRuns'
  BY <1>1, <1>2 DEF NothingRuns, AgentPid, Live, TypeOK
<1>6. ASSUME NEW p \in alive
      PROVE  Knows(p)'
  BY <1>1, <1>5
     DEF Inv, Knows, LockOwned, SeenDead, MarksDead, TargetKnown, RecordingAlone, NoUsers,
         Emptied, OwnLease, LeftOver, NotStarted, StopsAgain, StopsUnretained
<1> QED BY <1>1, <1>3, <1>4, <1>6 DEF Inv

\* A step of a process: what it knows, what others know, what is on record.
LEMMA Stepping ==
    ASSUME Inv, NEW p \in Process, ProcessStep(p)
    PROVE  Inv'
<1>1. TypeOK'
  BY TypesKept, Ageing DEF Inv, Knows
<1>2. ASSUME NEW q \in alive'
      PROVE  Knows(q)'
  <2>1. CASE q = p
    <3>1. ~Dies(p)
      BY <2>1 DEF Dies
    <3> QED BY <2>1, <3>1, LockSteps, SectionSteps, StartSteps, StopSteps, TurnSteps
            DEF ProcessStep
  <2>2. CASE q # p
    BY <2>2, OthersKnow
  <2> QED BY <2>1, <2>2
<1> QED BY <1>1, <1>2, Recorded DEF Inv

\* At first nobody knows anything.
LEMMA Beginning == Init => Inv
<1> SUFFICES ASSUME Init
             PROVE  Inv
  OBVIOUS
<1>1. TypeOK
  BY Marks DEF Init, TypeOK
<1>2. RuntimeRecorded
  BY DEF Init, RuntimeRecorded
<1>3. ASSUME NEW p \in alive
      PROVE  Knows(p)
  <2>1. procs[p] = Fresh /\ leases[p] = NoLease
    BY <1>3 DEF Init
  <2> QED BY <2>1, Marks
          DEF Fresh, Knows, LockOwned, SeenDead, MarksDead, TargetKnown, RecordingAlone,
              NoUsers, Emptied, OwnLease, LeftOver, NotStarted, StopsAgain, StopsUnretained, Working,
              Locked, Unlocking
<1> QED BY <1>1, <1>2, <1>3 DEF Inv

\* What every process knows at each step of its job stays true (agent-usage-lease.ts,
\* process-manager.ts): the invariant the results below rest on.
THEOREM Invariance == Spec => []Inv
<1>1. Inv /\ [Next]_vars => Inv'
  <2> SUFFICES ASSUME Inv, [Next]_vars
               PROVE  Inv'
    OBVIOUS
  <2>1. ASSUME NEW p \in Process, ProcessStep(p)
        PROVE  Inv'
    BY <2>1, Stepping
  <2>2. ASSUME NEW r \in Runtime, Exits(r)
        PROVE  Inv'
    BY <2>2, Exiting
  <2>3. CASE UNCHANGED vars
    BY <2>3
       DEF vars, Inv, TypeOK, RuntimeRecorded, Knows, LockOwned, SeenDead, MarksDead,
           TargetKnown, RecordingAlone, NothingRuns, AgentPid, Live, NoUsers, Emptied,
           OwnLease, LeftOver, NotStarted, StopsAgain, StopsUnretained
  <2> QED BY <2>1, <2>2, <2>3 DEF Next
<1> QED BY <1>1, Beginning, PTL DEF Spec

-----------------------------------------------------------------------------
(* The theorems                                                             *)

\* The lifecycle lock excludes, whoever dies with it and whoever reclaims it, and
\* no runtime is left running off the record but by a death between its spawn and
\* the write of its pid file; until a reclaim removes a lock other than the one it
\* read.
THEOREM LockExcludes == Spec => []UsageConsistent
<1>1. Inv => UsageConsistent
  <2> SUFFICES ASSUME Inv
               PROVE  UsageConsistent
    OBVIOUS
  <2>1. ASSUME NEW p \in Process, NEW q \in Process, InSection(p), InSection(q), ~raced
        PROVE  p = q
    <3>1. LockOwned(p) /\ LockOwned(q)
      BY <2>1 DEF Inv, Knows, InSection
    <3> QED BY <2>1, <3>1 DEF LockOwned, InSection, Working
  <2> QED BY <2>1 DEF Inv, UsageConsistent, LockExclusive
<1> QED BY <1>1, Invariance, PTL

\* The lease file of a live process is removed by itself alone, whatever other
\* processes reconcile and recover, with or without the lock.
THEOREM LeasesKept == Spec => LeaseKept
<1>1. Inv /\ [Next]_vars =>
        \/ \A p \in alive : leases[p] # NoLease /\ leases'[p] = NoLease => procs'[p] # procs[p]
        \/ UNCHANGED vars
  <2> SUFFICES ASSUME Inv, Next, NEW p \in alive, leases[p] # NoLease, leases'[p] = NoLease
               PROVE  procs'[p] # procs[p]
    BY DEF vars
  <2>1. p \in Process /\ leases'[p] # leases[p]
    BY DEF Inv, TypeOK
  <2>2. PICK q \in Process : ProcessStep(q)
    BY <2>1 DEF Next, Exits
  <2>3. MarksDead(q)
    BY <2>2, Ageing DEF Inv, Knows
  <2>4. procs[p].at = "write" /\ (Leaves(p, "ready") \/ GivesUp(p)) => procs'[p] # procs[p]
    BY <2>1, Leaving, GoesTo, Steps DEF Inv, GivesUp
  <2> QED BY <2>1, <2>2, <2>3, <2>4, LeasesMove DEF Inv
<1> QED BY <1>1, Invariance, PTL DEF Spec, LeaseKept

\* No process stops a runtime that another one has a lease of, and a release
\* stops none that was started to stay.
THEOREM UsersSpared == Spec => SparesUsers
<1> DEFINE Spared ==
      \A p \in Process :
        procs[p].at = "signal" /\ procs'[p].at = "wait" /\ ~raced
        => /\ ~\E q \in Process \ {p} : Uses(q, procs'[p].target)
           /\ procs[p].job = "release" => ~sidecar.persistent
<1>1. Inv /\ [Next]_vars => Spared \/ UNCHANGED vars
  <2> SUFFICES ASSUME Inv, Next, NEW p \in Process,
                      procs[p].at = "signal", procs'[p].at = "wait", ~raced
               PROVE  /\ ~\E q \in Process \ {p} : Uses(q, procs'[p].target)
                      /\ procs[p].job = "release" => ~sidecar.persistent
    BY DEF vars
  <2>1. PICK q \in Process : ProcessStep(q)
    BY DEF Next, Exits
  <2>2. p = q
    BY <2>1, OwnSteps DEF Inv, Own
  <2>3. Knows(p)
    BY <2>1, <2>2, Ageing DEF Inv
  <2> QED BY <2>3 DEF Knows, NoUsers, StopsUnretained, Emptied, Uses
<1> QED BY <1>1, Invariance, PTL DEF Spec, SparesUsers

-----------------------------------------------------------------------------
(* Where nothing dies or fails                                              *)

Calm == alive = Process /\ ~mayFail /\ ~raced

NoneRuns == \A r \in Runtime : runtimes[r] # "running"

Beside(p) == \A q \in Process \ {p} : leases[q].file = "none"

\* What a process has made sure of at each step of its job: nobody else has a file
\* of the agent where it starts or stops a runtime, what it stops is the runtime of
\* its lease, and it gives up its lease when nothing runs.
Careful(p) ==
    LET c == procs[p] IN
    /\ leases[p].file = "releasing" => c.job = "release" /\ c.at # "idle"
    /\ c.at \in {"signal", "wait", "clear"} => c.job # "recover"
    /\ c.at \in {"spawn", "record", "signal", "wait"} => Beside(p)
    /\ c.at = "write" => c.target = pidFile /\ (c.started => Beside(p))
    /\ c.at \in {"signal", "wait"} /\ c.job = "release"
        => leases[p].file # "none" /\ leases[p].runtime = c.target
    /\ c.at = "wait" => /\ c.target \in Runtime /\ pidFile = c.target
                        /\ runtimes[c.target] # "running"
    /\ c.at = "clear" => NoneRuns /\ c.job = "release"

\* Leases are of the runtime on record, but for one whose runtime has stopped.
Shares(p) ==
    leases[p].file # "none" => leases[p].runtime = pidFile \/ procs[p].at = "clear"

\* A runtime started for a lease has one, or will.
Wanted ==
    \A r \in Runtime : runtimes[r] = "running" /\ ~sidecar.persistent =>
        \E p \in Process :
            \/ leases[p].runtime = r
            \/ procs[p].at \in {"record", "write"} /\ procs[p].target = r

Tidy == Calm => Wanted /\ \A p \in Process : Careful(p) /\ Shares(p)

\* A behaviour in which nothing has died, failed or raced was so from the start;
\* a process leaves the leases of others alone, and they their own state.
LEMMA CalmBefore ==
    ASSUME Inv, NEW p \in Process, ProcessStep(p), Calm'
    PROVE  /\ Calm /\ TypeOK /\ Own(p) /\ ~Dies(p)
           /\ \A q \in Process : Knows(q)
           /\ \A q \in Process \ {p} : leases'[q] = leases[q] /\ procs'[q] = procs[q]
<1>1. mayFail' = mayFail
  BY DEF ProcessStep, files, rest, Begin, Create, Judge, Compare, Unlink, Recreate, Unlock,
         Remove, Acquire, Prepare, Spawn, Record, Write, Ready, Release, Quarantine,
         Decide, Stop, Finalize, Recover, Signal, Wait, Clear, Dies
<1>2. TypeOK /\ alive \subseteq Process
  BY DEF Inv, TypeOK
<1>3. Calm /\ alive' = alive
  BY <1>1, <1>2, Ageing DEF Calm
<1>4. \A q \in Process : Knows(q)
  BY <1>3 DEF Inv, Calm
<1>5. ~Dies(p)
  BY <1>3 DEF Dies
<1>6. ASSUME NEW q \in Process \ {p}
      PROVE  leases'[q] = leases[q]
  BY <1>2, <1>3, <1>4, LeasesMove DEF Knows, Calm
<1> QED BY <1>2, <1>3, <1>4, <1>5, <1>6, OwnSteps DEF Own

\* A reconciliation finds nothing to remove.
LEMMA CalmPruning ==
    ASSUME TypeOK, Calm, NEW gone \in Prunable
    PROVE  gone = {} /\ Without(gone) = leases
<1>1. gone = {}
  BY Pruning DEF Calm
<1> QED BY <1>1 DEF Without, TypeOK

\* Without the lock a process changes no file of the agent.
LEMMA LeasesStay ==
    ASSUME TypeOK, NEW p \in Process, ProcessStep(p), procs[p].at \notin Locked
    PROVE  UNCHANGED leases
BY Steps
   DEF ProcessStep, TypeOK, files, rest, At, Begin, Create, Judge, Compare, Unlink,
       Recreate, Unlock, Remove, Acquire, Prepare, Spawn, Record, Write, Ready,
       Release, Quarantine, Decide, Stop, Finalize, Recover, Signal, Wait, Clear, Dies

\* Under the lock, the runtime that runs is the one on record, or the one that is
\* being recorded.
LEMMA OneRuns ==
    ASSUME Inv, Calm, NEW p \in Process, procs[p].at \in Locked,
           NEW r \in Runtime, runtimes[r] = "running"
    PROVE  \/ pidFile = r /\ AgentPid = r
           \/ procs[p].at = "record" /\ procs[p].target = r
<1>1. ASSUME NEW q \in Process, procs[q].at = "record"
      PROVE  q = p
  <2>1. LockOwned(p) /\ LockOwned(q)
    BY DEF Inv, Calm, Knows
  <2> QED BY <1>1, <2>1, Steps DEF Calm, LockOwned, Working
<1>2. pidFile = r => AgentPid = r
  BY DEF AgentPid, Live
<1> QED BY <1>1, <1>2 DEF Inv, Calm, RuntimeRecorded

\* What a process has made sure of stays so while others take their steps.
LEMMA OthersCareful ==
    ASSUME Inv, NEW p \in Process, ProcessStep(p), Calm', Tidy, NEW q \in Process \ {p}
    PROVE  Careful(q)' /\ Shares(q)'
<1>0. /\ TypeOK /\ Careful(q) /\ Shares(q) /\ Careful(p) /\ Knows(p) /\ Knows(q)
      /\ leases'[q] = leases[q] /\ procs'[q] = procs[q] /\ Calm
  BY CalmBefore DEF Tidy
<1>1. ASSUME procs[q].at \in Locked
      PROVE  UNCHANGED <<pidFile, runtimes, leases>>
  <2>1. procs[p].at \notin Locked
    BY <1>0, <1>1 DEF Knows, LockOwned, Working, Calm
  <2> QED BY <1>0, <2>1, FilesMove, LeasesStay
<1>2. Careful(q)'
  <2>1. procs[q].at \notin Locked
        => procs[q].at \notin {"spawn", "record", "write", "signal", "wait", "clear"}
    BY Steps
  <2>2. CASE procs[q].at \in Locked
    BY <1>0, <1>1, <2>2 DEF Careful, Beside, NoneRuns
  <2>3. CASE procs[q].at \notin Locked
    BY <1>0, <2>1, <2>3 DEF Careful
  <2> QED BY <2>2, <2>3
<1>3. Shares(q)'
  <2>1. pidFile' # pidFile => procs[p].at \in {"record", "signal", "wait"}
    BY DEF ProcessStep, files, rest, At, Begin, Create, Judge, Compare, Unlink, Recreate,
           Unlock, Remove, Acquire, Prepare, Spawn, Record, Write, Ready, Release,
           Quarantine, Decide, Stop, Finalize, Recover, Signal, Wait, Clear, Dies
  <2>2. pidFile' # pidFile => leases[q].file = "none"
    BY <1>0, <2>1 DEF Careful, Beside
  <2> QED BY <1>0, <2>2 DEF Shares
<1> QED BY <1>2, <1>3

\* What a process sees to by a step of its own.
Fits(p) == Careful(p)' /\ Shares(p)' /\ Wanted'

\* What is known of a process and of the files before its step.
LEMMA Before ==
    ASSUME Inv, NEW p \in Process, ProcessStep(p), Calm', Tidy
    PROVE  /\ TypeOK /\ Calm /\ Knows(p) /\ Careful(p) /\ Shares(p) /\ Wanted
           /\ ~mayFail /\ ~raced /\ p \in alive
           /\ procs \in [Process -> Proc] /\ procs[p] \in Proc
           /\ leases \in [Process -> LeaseFile \cup {NoLease}]
           /\ leases[p].file = "none" => leases[p] = NoLease
           /\ leases[p].file # "none" => leases[p].runtime \in Runtime
           /\ \A r \in Runtime : leases[p].file = "none" => leases[p].runtime # r
           /\ procs[p].at \in Locked \ {"section"} => leases[p].file # "lease"
           /\ procs[p].job # "release" /\ procs[p].at \in Locked => leases[p].file = "none"
           /\ CannotVerify = Unverifiable
<1>1. /\ TypeOK /\ Calm /\ Knows(p) /\ Careful(p) /\ Shares(p) /\ Wanted
      /\ ~mayFail /\ ~raced /\ p \in alive
  BY CalmBefore DEF Tidy, Calm
<1>2. /\ procs \in [Process -> Proc] /\ procs[p] \in Proc
      /\ leases \in [Process -> LeaseFile \cup {NoLease}]
  BY <1>1 DEF TypeOK
<1>3. leases[p] \in LeaseFile \cup {NoLease}
  BY <1>2
<1>4. leases[p].file \in {"lease", "releasing", "none"}
  BY <1>3 DEF LeaseFile, NoLease
<1>5. leases[p].file = "none" <=> leases[p] = NoLease
  BY <1>3, Marks DEF LeaseFile
<1>6. leases[p].file # "none" => leases[p].runtime \in Runtime
  BY <1>3, <1>5 DEF LeaseFile
<1>7. NoLease.runtime \notin Runtime
  BY Marks DEF NoLease
<1>8. procs[p].at \in Locked \ {"section"} => leases[p].file # "lease"
  BY <1>1, Unleased
<1>9. procs[p].job # "release" /\ procs[p].at \in Locked => leases[p].file # "lease"
  BY <1>1, Unleased
<1>10. procs[p].job # "release" => leases[p].file # "releasing"
  BY <1>1 DEF Careful
<1>11. CannotVerify = Unverifiable
  BY <1>1 DEF CannotVerify, Unverifiable
<1> QED BY <1>1, <1>2, <1>4, <1>5, <1>6, <1>7, <1>8, <1>9, <1>10, <1>11

\* It goes on elsewhere and leaves the files as they are.
LEMMA GoesAway ==
    ASSUME Inv, NEW p \in Process, ProcessStep(p), Calm', Tidy,
           procs[p].at \notin {"record", "write", "clear"},
           procs'[p].at \notin Locked \ {"section", "decide"}, procs'[p].at # "idle",
           leases' = leases, pidFile' = pidFile, runtimes' = runtimes,
           sidecar' = sidecar \/ sidecar'.persistent,
           leases[p].file = "releasing" => procs'[p].job = "release"
    PROVE  Fits(p)
<1>1. procs'[p].at \notin {"spawn", "record", "signal", "wait", "write", "clear"}
  BY Steps
<1>2. Careful(p)'
  BY <1>1 DEF Careful
<1>3. Shares(p)'
  BY Before DEF Shares
<1>4. Wanted'
  <2> SUFFICES ASSUME NEW r \in Runtime, runtimes[r] = "running", ~sidecar'.persistent
               PROVE  \E q \in Process :
                        \/ leases[q].runtime = r
                        \/ procs'[q].at \in {"record", "write"} /\ procs'[q].target = r
    BY DEF Wanted
  <2>1. PICK q \in Process :
            \/ leases[q].runtime = r
            \/ procs[q].at \in {"record", "write"} /\ procs[q].target = r
    BY Before DEF Wanted
  <2>2. q # p => procs'[q] = procs[q]
    BY CalmBefore
  <2> QED BY <2>1, <2>2
<1> QED BY <1>2, <1>3, <1>4 DEF Fits

\* The steps that take and release the lock, and those between two jobs.
LEMMA OutsideFits ==
    ASSUME Inv, NEW p \in Process, ProcessStep(p), Calm', Tidy,
           procs[p].at \notin Locked
    PROVE  Fits(p)
<1>0. /\ TypeOK /\ procs[p] \in Proc /\ Careful(p) /\ ~Dies(p)
      /\ UNCHANGED <<pidFile, sidecar, runtimes, leases>>
      /\ procs[p].at \notin {"record", "write", "clear"}
  BY Before, CalmBefore, FilesMove, LeasesStay, Steps
<1>1. leases[p].file = "releasing" => procs[p].job = "release" /\ procs[p].at # "idle"
  BY <1>0 DEF Careful
<1>2. ASSUME procs'[p].at \in {"ready", "holding", "done", "section"} \cup Locking \cup Unlocking,
             procs'[p].job = procs[p].job
      PROVE  Fits(p)
  <2>1. procs'[p].at \notin Locked \ {"section", "decide"} /\ procs'[p].at # "idle"
    BY <1>2 DEF Locked, Locking, Unlocking
  <2> QED BY <1>0, <1>1, <1>2, <2>1, GoesAway
<1>3. ASSUME NEW step \in {"ready", "holding", "done", "section"} \cup Locking \cup Unlocking,
             Goes(p, step)
      PROVE  Fits(p)
  <2>1. step \in Step
    BY Steps
  <2> QED BY <1>0, <1>2, <1>3, <2>1, GoesTo
<1>4. ASSUME Busy(p)
      PROVE  Fits(p)
  BY <1>0, <1>2, <1>4, IsBusy DEF Unlucky, Locking
<1>5. ASSUME NEW job \in Job, Takes(p, job),
             job = "release" \/ leases[p].file # "releasing"
      PROVE  Fits(p)
  <2>1. procs'[p].at = "create" /\ procs'[p].job = job
    BY <1>0, <1>5, TakesUp
  <2>2. procs'[p].at \notin Locked \ {"section", "decide"} /\ procs'[p].at # "idle"
    BY <2>1 DEF Locked
  <2> QED BY <1>0, <1>5, <2>1, <2>2, GoesAway
<1>6. CASE Create(p) \/ Recreate(p) \/ Compare(p) \/ Unlink(p)
  BY <1>3, <1>4, <1>6 DEF Create, Recreate, Compare, Unlink, Locking
<1>7. CASE Judge(p)
  <2>1. CASE Busy(p)
    BY <1>4, <2>1
  <2>2. CASE ~Busy(p)
    <3>1. procs' = [procs EXCEPT ![p].at = "compare", ![p].seen = lock]
      BY <1>7, <2>2 DEF Judge
    <3>2. procs'[p] = [procs[p] EXCEPT !.at = "compare", !.seen = lock]
      BY <1>0, <3>1 DEF TypeOK
    <3>3. procs'[p].at = "compare" /\ procs'[p].job = procs[p].job
      BY <1>0, <3>2 DEF Proc
    <3> QED BY <1>2, <3>3 DEF Locking
  <2> QED BY <2>1, <2>2
<1>8. CASE Unlock(p) \/ Remove(p)
  <2>1. procs[p].then \in {"ready", "holding", "done", "create"}
    BY <1>0 DEF Proc
  <2> QED BY <1>3, <1>8, <2>1 DEF Unlock, Remove, Locking, Unlocking
<1>9. CASE Begin(p)
  <2>1. PICK job \in {"acquire", "connect", "prepare", "stop", "recover"} :
            Takes(p, job) /\ procs[p].at = "idle"
    BY <1>9, UsageAssumption DEF Begin, At
  <2>2. job \in Job
    BY DEF Job
  <2> QED BY <1>1, <1>5, <2>1, <2>2
<1>10. CASE Ready(p) \/ Release(p)
  <2>1. {"release", "finalize"} \subseteq Job
    BY DEF Job
  <2> QED BY <1>1, <1>3, <1>5, <1>10, <2>1 DEF Ready, Release
<1>11. ASSUME At(p, "section") \/ At(p, "spawn") \/ At(p, "record") \/ At(p, "write")
              \/ At(p, "decide") \/ At(p, "signal") \/ At(p, "wait") \/ At(p, "clear")
       PROVE  FALSE
  BY <1>11, Steps DEF At
<1>12. ~(\/ Acquire(p) \/ Prepare(p) \/ Spawn(p) \/ Record(p) \/ Write(p) \/ Quarantine(p)
         \/ Decide(p) \/ Stop(p) \/ Finalize(p) \/ Recover(p) \/ Signal(p) \/ Wait(p)
         \/ Clear(p))
  BY <1>11 DEF Acquire, Prepare, Spawn, Record, Write, Quarantine, Decide, Stop, Finalize,
               Recover, Signal, Wait, Clear
<1> QED BY <1>0, <1>6, <1>7, <1>8, <1>9, <1>10, <1>12 DEF ProcessStep

\* It lets go of the lock and leaves the files as they are.
LEMMA LeavesAlone ==
    ASSUME Inv, NEW p \in Process, ProcessStep(p), Calm', Tidy,
           NEW step \in {"ready", "holding", "done"}, Leaves(p, step),
           procs[p].at \notin {"record", "write", "clear"},
           leases' = leases, pidFile' = pidFile, runtimes' = runtimes,
           sidecar' = sidecar \/ sidecar'.persistent,
           step = "done" => leases[p].file # "releasing"
    PROVE  Fits(p)
<1>1. TypeOK /\ Careful(p)
  BY Before
<1>2. procs'[p].at = "unlock" /\ (step # "done" => procs'[p].job = procs[p].job)
  BY <1>1, Leaving
<1>3. leases[p].file = "releasing" => procs'[p].job = "release"
  BY <1>1, <1>2 DEF Careful
<1>4. procs'[p].at \notin Locked \ {"section", "decide"} /\ procs'[p].at # "idle"
  BY <1>2 DEF Locked
<1> QED BY <1>3, <1>4, GoesAway

\* It goes on under the lock to start, join or stop a runtime, and leaves the
\* files as they are: nobody who wanted the runtime of a lease is forgotten.
LEMMA WantedStill ==
    ASSUME Inv, NEW p \in Process, ProcessStep(p), Calm', Tidy,
           procs[p].at \notin {"record", "write"},
           leases' = leases, runtimes' = runtimes, sidecar' = sidecar
    PROVE  Wanted'
<1> SUFFICES ASSUME NEW r \in Runtime, runtimes[r] = "running", ~sidecar.persistent
             PROVE  \E q \in Process :
                      \/ leases[q].runtime = r
                      \/ procs'[q].at \in {"record", "write"} /\ procs'[q].target = r
  BY DEF Wanted
<1>1. PICK q \in Process :
          \/ leases[q].runtime = r
          \/ procs[q].at \in {"record", "write"} /\ procs[q].target = r
  BY Before DEF Wanted
<1>2. q # p => procs'[q] = procs[q]
  BY CalmBefore
<1> QED BY <1>1, <1>2

\* Where nothing blocks it, nobody else has a file.
LEMMA Unblocked ==
    ASSUME TypeOK, NEW p \in Process, Blockers(p, {}) = {}
    PROVE  Beside(p)
BY DEF Blockers, Beside

\* The first steps under the lock.
LEMMA SectionFits ==
    ASSUME Inv, NEW p \in Process, ProcessStep(p), Calm', Tidy,
           Acquire(p) \/ Prepare(p) \/ Stop(p) \/ Finalize(p) \/ Recover(p)
    PROVE  Fits(p)
<1>0. /\ TypeOK /\ Calm /\ Knows(p) /\ Careful(p) /\ Shares(p) /\ procs \in [Process -> Proc]
      /\ procs[p].at = "section" /\ procs[p].job # "release" /\ leases[p].file = "none"
      /\ UNCHANGED <<lock, pidFile, runtimes, rest>>
  <2>1. /\ procs[p].at = "section" /\ procs[p].job # "release"
        /\ UNCHANGED <<lock, pidFile, runtimes, rest>>
    BY DEF At, Acquire, Prepare, Stop, Finalize, Recover
  <2> QED BY <2>1, Before, Steps
<1>1. leases' = leases
  BY <1>0, CalmPruning DEF Acquire, Prepare, Stop, Finalize, Recover
<1>2. ASSUME Leaves(p, "done") \/ Leaves(p, "ready"), sidecar' = sidecar \/ sidecar'.persistent
      PROVE  Fits(p)
  BY <1>0, <1>1, <1>2, LeavesAlone
<1>3. Shares(p)'
  BY <1>0, <1>1 DEF Shares
<1>4. ASSUME sidecar' = sidecar
      PROVE  Wanted'
  BY <1>0, <1>1, <1>4, WantedStill
<1>5. ASSUME Starts(p), NEW gone \in Prunable, Blockers(p, gone) = {}, sidecar' = sidecar
      PROVE  Fits(p)
  <2>1. procs'[p].at = "spawn" /\ procs'[p].job = procs[p].job
    BY <1>0, <1>5, GoesTo, Steps DEF Starts
  <2>2. Beside(p)
    BY <1>0, <1>5, CalmPruning, Unblocked
  <2>3. Careful(p)'
    BY <1>0, <1>1, <2>1, <2>2 DEF Careful, Beside
  <2> QED BY <1>3, <1>4, <1>5, <2>3 DEF Fits
<1>6. ASSUME Joins(p), Runs, procs[p].job \in {"acquire", "connect"}, sidecar' = sidecar
      PROVE  Fits(p)
  <2>1. AgentPid = pidFile
    BY <1>0, <1>6, Readings DEF Runs
  <2>2. procs'[p] = [procs[p] EXCEPT !.at = "write", !.target = AgentPid]
    BY <1>0, <1>6 DEF Joins
  <2>3. /\ procs'[p].at = "write" /\ procs'[p].target = AgentPid
        /\ procs'[p].started = procs[p].started
    BY <1>0, <2>2 DEF Proc
  <2>4. ~procs'[p].started
    BY <1>0, <1>6, <2>3 DEF Knows, NotStarted
  <2>5. Careful(p)'
    BY <1>0, <1>1, <2>1, <2>3, <2>4 DEF Careful
  <2> QED BY <1>3, <1>4, <1>6, <2>5 DEF Fits
<1>7. ASSUME Stops(p, AgentPid), NEW gone \in Prunable, Blockers(p, gone) = {},
             procs[p].job \in {"stop", "finalize"}, sidecar' = sidecar
      PROVE  Fits(p)
  <2>1. procs'[p] = [procs[p] EXCEPT !.at = "signal", !.target = AgentPid]
    BY <1>0, <1>7 DEF Stops
  <2>2. procs'[p].at = "signal" /\ procs'[p].job = procs[p].job
    BY <1>0, <2>1 DEF Proc
  <2>3. Beside(p)
    BY <1>0, <1>7, CalmPruning, Unblocked
  <2>4. Careful(p)'
    BY <1>0, <1>1, <1>7, <2>2, <2>3 DEF Careful, Beside
  <2> QED BY <1>3, <1>4, <1>7, <2>4 DEF Fits
<1>8. CASE Acquire(p)
  BY <1>2, <1>5, <1>6, <1>8 DEF Acquire
<1>9. CASE Prepare(p)
  <2>1. CASE UNCHANGED sidecar
    BY <1>2, <1>5, <1>9, <2>1 DEF Prepare
  <2>2. CASE ~UNCHANGED sidecar
    <3>1. /\ Runs /\ sidecar' = [sidecar EXCEPT !.persistent = TRUE]
          /\ Leaves(p, "ready")
      BY <1>9, <2>2 DEF Prepare
    <3>2. sidecar'.persistent
      BY <1>0, <3>1, Readings DEF Sidecar
    <3> QED BY <1>2, <3>1, <3>2
  <2> QED BY <2>1, <2>2
<1>10. CASE Stop(p) \/ Finalize(p)
  BY <1>2, <1>7, <1>10 DEF Stop, Finalize
<1>11. CASE Recover(p)
  <2>0. sidecar' = sidecar
    BY <1>11 DEF Recover
  <2>1. CASE Leaves(p, "done")
    BY <1>2, <2>0, <2>1
  <2>2. CASE procs' = [procs EXCEPT ![p].at = "unlock", ![p].job = "stop", ![p].then = "create"]
    <3>1. procs'[p] = [procs[p] EXCEPT !.at = "unlock", !.job = "stop", !.then = "create"]
      BY <1>0, <2>2
    <3>2. procs'[p].at = "unlock"
      BY <1>0, <3>1 DEF Proc
    <3>3. procs'[p].at \notin Locked \ {"section", "decide"} /\ procs'[p].at # "idle"
      BY <3>2 DEF Locked
    <3> QED BY <1>0, <1>1, <2>0, <3>3, GoesAway
  <2>3. ASSUME Interrupted # {}, NEW gone \in Prunable, Recoverable(p, gone)
        PROVE  FALSE
    BY <1>0, <2>3 DEF Recoverable, Gone, Interrupted, Calm
  <2> QED BY <1>11, <2>1, <2>2, <2>3 DEF Recover
<1> QED BY <1>8, <1>9, <1>10, <1>11

\* A start, up to the lease it was made for.
LEMMA StartFits ==
    ASSUME Inv, NEW p \in Process, ProcessStep(p), Calm', Tidy,
           Spawn(p) \/ Record(p) \/ Write(p)
    PROVE  Fits(p)
<1>0. /\ TypeOK /\ Calm /\ Knows(p) /\ Careful(p) /\ Shares(p) /\ Wanted
      /\ procs \in [Process -> Proc] /\ procs[p] \in Proc
      /\ ~mayFail /\ ~raced
      /\ procs[p].at \in {"spawn", "record", "write"} /\ procs[p].at \in Locked
      /\ procs[p].job \in {"acquire", "connect", "prepare"}
      /\ leases[p].file = "none" /\ leases[p] = NoLease
      /\ \A r \in Runtime : leases[p].runtime # r
  <2>1. procs[p].at \in {"spawn", "record", "write"}
    BY DEF At, Spawn, Record, Write
  <2>2. procs[p].job \in {"acquire", "connect", "prepare"}
    BY <2>1, Before DEF Knows, TargetKnown
  <2> QED BY <2>1, <2>2, Before, Steps
<1>1. ASSUME NEW r \in Runtime, runtimes[r] = "running"
      PROVE  \/ pidFile = r /\ AgentPid = r
             \/ procs[p].at = "record" /\ procs[p].target = r
  BY <1>0, <1>1, OneRuns
<1>2. CASE Spawn(p)
  <2>0. procs[p].at = "spawn" /\ UNCHANGED <<pidFile, sidecar, leases>>
    BY <1>2 DEF Spawn, At
  <2>1. CASE Leaves(p, "done") /\ UNCHANGED runtimes
    BY <1>0, <2>0, <2>1, LeavesAlone
  <2>2. CASE ~(Leaves(p, "done") /\ UNCHANGED runtimes)
    <3>1. PICK r \in Runtime :
            /\ procs' = [procs EXCEPT ![p].at = "record", ![p].target = r]
            /\ runtimes' = [runtimes EXCEPT ![r] = "running"]
            /\ NothingRuns
      BY <1>2, <2>2 DEF Spawn
    <3>2. procs'[p] = [procs[p] EXCEPT !.at = "record", !.target = r]
      BY <1>0, <3>1
    <3>3. procs'[p].at = "record" /\ procs'[p].target = r
      BY <1>0, <3>2 DEF Proc
    <3>4. Careful(p)'
      BY <1>0, <2>0, <3>3 DEF Careful, Beside
    <3>5. Shares(p)'
      BY <1>0, <2>0 DEF Shares
    <3>6. ASSUME NEW o \in Runtime, runtimes'[o] = "running"
          PROVE  o = r
      <4>1. runtimes[o] # "running"
        BY <1>1, <2>0, <3>1, Marks DEF NothingRuns
      <4> QED BY <1>0, <3>1, <3>6, <4>1 DEF TypeOK
    <3>7. Wanted'
      BY <3>3, <3>6 DEF Wanted
    <3> QED BY <3>4, <3>5, <3>7 DEF Fits
  <2> QED BY <2>1, <2>2
<1>3. CASE Record(p)
  <2>0. /\ procs[p].at = "record" /\ UNCHANGED leases
        /\ procs[p].target \in Runtime /\ RecordingAlone(p)
    BY <1>0, <1>3 DEF Record, At, Knows, TargetKnown
  <2>1. Shares(p)'
    BY <1>0, <2>0 DEF Shares
  <2>2. ASSUME pidFile' = procs[p].target, UNCHANGED <<sidecar, runtimes, procs>>
        PROVE  Fits(p)
    BY <1>0, <2>0, <2>1, <2>2 DEF Fits, Careful, Beside, Wanted
  <2>3. ASSUME NEW r \in Runtime, runtimes[r] = "running"
        PROVE  r = procs[p].target
    BY <1>0, <1>1, <2>0, <2>3, Marks DEF RecordingAlone, NothingRuns
  <2>4. ASSUME pidFile = procs[p].target, UNCHANGED <<pidFile, runtimes>>,
               procs[p].job # "prepare",
               procs' = [procs EXCEPT ![p].at = "write", ![p].then = "done",
                                      ![p].started = TRUE]
        PROVE  Fits(p)
    <3>1. procs'[p] = [procs[p] EXCEPT !.at = "write", !.then = "done", !.started = TRUE]
      BY <1>0, <2>4
    <3>2. procs'[p].at = "write" /\ procs'[p].target = procs[p].target
      BY <1>0, <3>1 DEF Proc
    <3>3. Careful(p)'
      BY <1>0, <2>0, <2>4, <3>2 DEF Careful, Beside
    <3>4. Wanted'
      BY <2>3, <2>4, <3>2 DEF Wanted
    <3> QED BY <2>1, <3>3, <3>4 DEF Fits
  <2>5. ASSUME UNCHANGED <<pidFile, runtimes>>,
               sidecar' = [runtime |-> procs[p].target, persistent |-> TRUE],
               procs' = [procs EXCEPT ![p].at = "unlock", ![p].then = "ready",
                                      ![p].started = TRUE]
        PROVE  Fits(p)
    <3>1. procs'[p] = [procs[p] EXCEPT !.at = "unlock", !.then = "ready", !.started = TRUE]
      BY <1>0, <2>5
    <3>2. procs'[p].at = "unlock"
      BY <1>0, <3>1 DEF Proc
    <3>3. Careful(p)'
      BY <1>0, <2>0, <3>2 DEF Careful
    <3>4. Wanted'
      BY <2>5 DEF Wanted
    <3> QED BY <2>1, <3>3, <3>4 DEF Fits
  <2>6. ASSUME procs[p].target \notin Live, UNCHANGED runtimes, Leaves(p, "done")
        PROVE  Fits(p)
    <3>1. procs'[p].at = "unlock"
      BY <1>0, <2>6, Leaving
    <3>2. Careful(p)'
      BY <1>0, <2>0, <3>1 DEF Careful
    <3>3. NoneRuns'
      BY <2>3, <2>6 DEF NoneRuns, Live
    <3>4. Wanted'
      BY <3>3 DEF Wanted, NoneRuns
    <3> QED BY <2>1, <3>2, <3>4 DEF Fits
  <2>7. procs[p].job = "prepare" \/ procs[p].job # "prepare"
    OBVIOUS
  <2> QED BY <1>0, <1>3, <2>2, <2>4, <2>5, <2>6, <2>7 DEF Record
<1>4. CASE Write(p)
  <2>1. /\ procs[p].at = "write" /\ UNCHANGED <<pidFile, sidecar, runtimes>>
        /\ leases' = [leases EXCEPT ![p] = [file |-> "lease", runtime |-> procs[p].target]]
        /\ Leaves(p, "ready")
    BY <1>0, <1>4 DEF Write, At
  <2>2. procs'[p].at = "unlock" /\ leases'[p] = [file |-> "lease", runtime |-> procs[p].target]
    BY <1>0, <2>1, Leaving DEF TypeOK
  <2>3. Careful(p)'
    BY <2>2 DEF Careful
  <2>4. Shares(p)'
    BY <1>0, <2>1, <2>2 DEF Careful, Shares
  <2>5. Wanted'
    <3> SUFFICES ASSUME NEW r \in Runtime, runtimes[r] = "running", ~sidecar.persistent
                 PROVE  \E q \in Process : leases'[q].runtime = r
      BY <1>1, <2>1, <2>2 DEF Wanted
    <3>1. r = procs[p].target
      BY <1>0, <1>1, <2>1 DEF Careful
    <3> QED BY <2>2, <3>1
  <2> QED BY <2>3, <2>4, <2>5 DEF Fits
<1> QED BY <1>2, <1>3, <1>4

\* A release and a stop.
LEMMA StopFits ==
    ASSUME Inv, NEW p \in Process, ProcessStep(p), Calm', Tidy,
           Quarantine(p) \/ Decide(p) \/ Signal(p) \/ Wait(p) \/ Clear(p)
    PROVE  Fits(p)
<1>0. /\ TypeOK /\ Calm /\ Knows(p) /\ Careful(p) /\ Shares(p) /\ Wanted
      /\ procs \in [Process -> Proc] /\ procs[p] \in Proc
      /\ leases \in [Process -> LeaseFile \cup {NoLease}]
      /\ ~mayFail /\ ~raced /\ CannotVerify = Unverifiable
      /\ procs[p].at \in {"section", "decide", "signal", "wait", "clear"}
      /\ procs[p].at \in Locked
      /\ procs[p].at # "section" => leases[p].file # "lease"
      /\ leases[p].file = "none" => leases[p] = NoLease
      /\ leases[p].file # "none" => leases[p].runtime \in Runtime
      /\ procs[p].job # "release" => leases[p].file = "none"
      /\ \A r \in Runtime : leases[p].file = "none" => leases[p].runtime # r
  <2>1. procs[p].at \in {"section", "decide", "signal", "wait", "clear"}
    BY DEF At, Quarantine, Decide, Signal, Wait, Clear
  <2> QED BY <2>1, Before, Steps
<1>1. ASSUME NEW r \in Runtime, runtimes[r] = "running"
      PROVE  pidFile = r /\ AgentPid = r
  BY <1>0, <1>1, OneRuns
<1>2. NothingRuns => NoneRuns
  BY <1>1, Marks DEF NothingRuns, NoneRuns
<1>3. leases[p].file \in {"lease", "releasing", "none"}
  BY <1>0 DEF LeaseFile, NoLease
<1>4. CASE Quarantine(p)
  <2>0. procs[p].at = "section" /\ procs[p].job = "release"
        /\ UNCHANGED <<pidFile, sidecar, runtimes>>
    BY <1>4 DEF Quarantine, At
  <2>1. CASE leases[p] = NoLease
    <3>1. leases[p].file # "releasing"
      BY <2>1, Marks
    <3> QED BY <1>0, <1>4, <2>0, <2>1, <3>1, LeavesAlone DEF Quarantine
  <2>2. CASE leases[p] # NoLease
    <3>1. Goes(p, "decide") /\ leases' = [leases EXCEPT ![p].file = "releasing"]
      BY <1>4, <2>2 DEF Quarantine
    <3>2. procs'[p].at = "decide" /\ procs'[p].job = "release"
      BY <1>0, <2>0, <3>1, GoesTo, Steps
    <3>3. leases'[p].runtime = leases[p].runtime /\ leases[p].file # "none"
      BY <1>0, <2>2, <3>1 DEF LeaseFile
    <3>4. Careful(p)'
      BY <3>2 DEF Careful
    <3>5. Shares(p)'
      BY <1>0, <2>0, <3>2, <3>3 DEF Shares
    <3>6. Wanted'
      <4> SUFFICES ASSUME NEW r \in Runtime, runtimes[r] = "running", ~sidecar.persistent
                   PROVE  \E q \in Process :
                            \/ leases'[q].runtime = r
                            \/ procs'[q].at \in {"record", "write"} /\ procs'[q].target = r
        BY <2>0 DEF Wanted
      <4>1. PICK q \in Process :
                \/ leases[q].runtime = r
                \/ procs[q].at \in {"record", "write"} /\ procs[q].target = r
        BY <1>0 DEF Wanted
      <4>2. q # p => leases'[q] = leases[q] /\ procs'[q] = procs[q]
        BY CalmBefore
      <4> QED BY <2>0, <3>3, <4>1, <4>2
    <3> QED BY <3>4, <3>5, <3>6 DEF Fits
  <2> QED BY <2>1, <2>2
<1>5. CASE Decide(p)
  <2>0. procs[p].at = "decide" /\ UNCHANGED <<pidFile, sidecar, runtimes>>
    BY <1>5 DEF Decide, At
  <2>1. ASSUME Leaves(p, "done"), leases'[p] = NoLease,
               \/ NoneRuns \/ sidecar.persistent \/ AgentPid # leases[p].runtime
               \/ Blockers(p, {}) # {}
        PROVE  Fits(p)
    <3>1. procs'[p].at = "unlock" /\ leases'[p].file = "none"
      BY <1>0, <2>1, Leaving, Marks
    <3>2. Careful(p)' /\ Shares(p)'
      BY <3>1 DEF Careful, Shares
    <3>3. Wanted'
      <4> SUFFICES ASSUME NEW r \in Runtime, runtimes[r] = "running", ~sidecar.persistent
                   PROVE  \E q \in Process :
                            \/ leases'[q].runtime = r
                            \/ procs'[q].at \in {"record", "write"} /\ procs'[q].target = r
        BY <2>0 DEF Wanted
      <4>1. pidFile = r /\ AgentPid = r
        BY <1>1
      <4>2. \E q \in Process \ {p} :
                \/ leases[q].runtime = r
                \/ procs[q].at \in {"record", "write"} /\ procs[q].target = r
        <5>1. CASE Blockers(p, {}) = {}
          <6>1. leases[p].runtime # r
            BY <2>1, <4>1, <5>1 DEF NoneRuns
          <6> QED BY <1>0, <2>0, <6>1 DEF Wanted
        <5>2. CASE Blockers(p, {}) # {}
          <6>1. PICK q \in Process \ {p} : leases[q].file # "none"
            BY <5>2 DEF Blockers
          <6>2. procs[q].at # "clear"
            <7>1. LockOwned(p) /\ LockOwned(q)
              BY <1>0, CalmBefore DEF Knows
            <7> QED BY <1>0, <6>1, <7>1, Steps DEF LockOwned, Working
          <6>3. Shares(q)
            BY <1>0 DEF Tidy
          <6> QED BY <4>1, <6>1, <6>2, <6>3 DEF Shares
        <5> QED BY <5>1, <5>2
      <4> QED BY <4>2, CalmBefore
    <3> QED BY <3>2, <3>3 DEF Fits
  <2>2. CASE CannotVerify /\ Leaves(p, "holding") /\ UNCHANGED leases
    BY <1>0, <2>0, <2>2, LeavesAlone
  <2>3. CASE /\ NothingRuns \/ (Runs /\ AgentPid # leases[p].runtime)
             /\ leases' = [leases EXCEPT ![p] = NoLease]
             /\ Leaves(p, "done")
    BY <1>0, <1>2, <2>1, <2>3
  <2>4. ASSUME NEW gone \in Prunable,
               Runs /\ AgentPid = leases[p].runtime,
               Retained \/ OtherUsage(p, gone),
               leases' = Without(gone \cup {p}), Leaves(p, "done")
        PROVE  Fits(p)
    <3>1. gone = {} /\ leases'[p] = NoLease
      BY <1>0, <2>4, CalmPruning DEF Without
    <3> QED BY <2>1, <2>4, <3>1 DEF Retained, OtherUsage
  <2>5. ASSUME NEW gone \in Prunable,
               Runs /\ AgentPid = leases[p].runtime,
               ~(Retained \/ OtherUsage(p, gone)),
               leases' = Without(gone),
               procs' = [procs EXCEPT ![p].at = "signal", ![p].target = AgentPid]
        PROVE  Fits(p)
    <3>1. gone = {} /\ leases' = leases
      BY <1>0, <2>5, CalmPruning
    <3>2. Beside(p)
      BY <1>0, <2>5, <3>1, Unblocked DEF OtherUsage
    <3>3. procs'[p] = [procs[p] EXCEPT !.at = "signal", !.target = AgentPid]
      BY <1>0, <2>5
    <3>4. /\ procs'[p].at = "signal" /\ procs'[p].target = AgentPid
          /\ procs'[p].job = procs[p].job
      BY <1>0, <3>3 DEF Proc
    <3>5. AgentPid \in Runtime /\ AgentPid = pidFile
      BY <1>0, <2>5, Readings DEF Runs
    <3>6. leases[p].file # "none" /\ procs[p].job = "release"
      BY <1>0, <2>5, <3>5
    <3>7. Careful(p)'
      BY <2>5, <3>1, <3>2, <3>4, <3>6 DEF Careful, Beside
    <3>8. Shares(p)'
      BY <2>0, <2>5, <3>1, <3>5 DEF Shares
    <3>9. Wanted'
      BY <2>0, <3>1, WantedStill
    <3> QED BY <3>7, <3>8, <3>9 DEF Fits
  <2> QED BY <1>5, <2>2, <2>3, <2>4, <2>5 DEF Decide
<1>6. ASSUME After(p, FALSE) \/ After(p, TRUE), NoneRuns', leases' = leases,
             procs[p].at \in {"signal", "wait"}
      PROVE  Fits(p)
  <2>0. procs[p].job # "recover"
    BY <1>0, <1>6 DEF Careful
  <2>1. Wanted'
    BY <1>6 DEF Wanted, NoneRuns
  <2>2. CASE procs[p].job = "release"
    <3>1. procs'[p].at = "clear" /\ procs'[p].job = "release"
      BY <1>0, <1>6, <2>2, GoesTo, Steps DEF After
    <3>2. Careful(p)' /\ Shares(p)'
      BY <1>6, <3>1 DEF Careful, Shares
    <3> QED BY <2>1, <3>2 DEF Fits
  <2>3. CASE procs[p].job # "release"
    <3>1. Leaves(p, "done")
      BY <1>6, <2>0, <2>3 DEF After
    <3>2. procs'[p].at = "unlock"
      BY <1>0, <3>1, Leaving
    <3>3. Careful(p)' /\ Shares(p)'
      BY <1>0, <1>6, <2>3, <3>2 DEF Careful, Shares
    <3> QED BY <2>1, <3>3 DEF Fits
  <2> QED BY <2>2, <2>3
<1>7. CASE Signal(p)
  <2>0. procs[p].at = "signal" /\ UNCHANGED leases /\ procs[p].job # "recover"
    BY <1>0, <1>7 DEF Signal, At, Careful
  <2>1. CASE NothingRuns /\ After(p, FALSE) /\ UNCHANGED runtimes
    <3>1. NoneRuns'
      BY <1>2, <2>1 DEF NoneRuns
    <3> QED BY <1>6, <2>0, <2>1, <3>1
  <2>2. CASE Throws(p) /\ UNCHANGED <<pidFile, sidecar, runtimes>>
    BY <1>0, <1>3, <2>0, <2>2, LeavesAlone DEF Throws
  <2>3. procs[p].job = "release" => procs[p].target = leases[p].runtime
                                    /\ leases[p].runtime \in Runtime
    BY <1>0, <2>0 DEF Careful
  <2>4. CASE Runs /\ ~Expected(p) /\ After(p, FALSE) /\ UNCHANGED <<pidFile, sidecar, runtimes>>
    <3>1. procs[p].job # "release"
      <4>1. AgentPid = pidFile
        BY <1>0, <2>4, Readings DEF Runs
      <4> QED BY <1>0, <2>0, <2>3, <2>4, <4>1 DEF Careful, Shares, Expected
    <3>2. Leaves(p, "done")
      BY <2>0, <2>4, <3>1 DEF After
    <3> QED BY <1>0, <2>0, <2>4, <3>1, <3>2, Marks, LeavesAlone
  <2>5. CASE /\ Runs /\ Expected(p)
             /\ runtimes' = [runtimes EXCEPT ![AgentPid] = "signalled"]
             /\ procs' = [procs EXCEPT ![p].at = "wait", ![p].target = AgentPid]
             /\ UNCHANGED <<pidFile, sidecar>>
    <3>1. AgentPid \in Runtime /\ AgentPid = pidFile
      BY <1>0, <2>5, Readings DEF Runs
    <3>2. procs'[p] = [procs[p] EXCEPT !.at = "wait", !.target = AgentPid]
      BY <1>0, <2>5
    <3>3. /\ procs'[p].at = "wait" /\ procs'[p].target = AgentPid
          /\ procs'[p].job = procs[p].job
      BY <1>0, <3>2 DEF Proc
    <3>4. NoneRuns' /\ runtimes'[AgentPid] # "running"
      BY <1>0, <1>1, <2>5, <3>1 DEF NoneRuns, TypeOK
    <3>5. procs[p].job = "release" => leases[p].file # "none" /\ leases[p].runtime = AgentPid
      BY <1>0, <2>0, <2>3, <2>5, Marks DEF Careful, Expected
    <3>6. Careful(p)'
      BY <1>0, <2>0, <2>5, <3>1, <3>3, <3>4, <3>5 DEF Careful, Beside
    <3>7. Shares(p)'
      BY <1>0, <2>0, <2>5, <3>1, <3>5 DEF Shares
    <3>8. Wanted'
      BY <3>4 DEF Wanted, NoneRuns
    <3> QED BY <3>6, <3>7, <3>8 DEF Fits
  <2> QED BY <1>7, <2>1, <2>2, <2>4, <2>5 DEF Signal
<1>8. CASE Wait(p)
  <2>0. procs[p].at = "wait" /\ UNCHANGED <<leases, runtimes>> /\ After(p, TRUE)
    BY <1>0, <1>8 DEF Wait, At
  <2>1. NoneRuns'
    BY <1>0, <1>1, <2>0 DEF NoneRuns, Careful
  <2> QED BY <1>6, <2>0, <2>1
<1>9. CASE Clear(p)
  <2>0. /\ procs[p].at = "clear" /\ procs[p].job = "release" /\ NoneRuns
        /\ UNCHANGED <<pidFile, sidecar, runtimes>>
    BY <1>0, <1>9 DEF Clear, At, Careful
  <2>1. /\ Leaves(p, "done")
        /\ leases' = IF Invalid(p) THEN Without({p}) ELSE leases
    BY <1>0, <1>9, <2>0 DEF Clear
  <2>2. procs'[p].at = "unlock" /\ leases'[p].file = "none"
    BY <1>0, <1>3, <2>0, <2>1, Leaving, Marks DEF Invalid, Without
  <2>3. Careful(p)' /\ Shares(p)'
    BY <2>2 DEF Careful, Shares
  <2>4. Wanted'
    BY <2>0 DEF Wanted, NoneRuns
  <2> QED BY <2>3, <2>4 DEF Fits
<1> QED BY <1>4, <1>5, <1>7, <1>8, <1>9

\* Every step of a process leaves the agent tidy.
LEMMA TidyStep ==
    ASSUME Inv, Tidy, NEW p \in Process, ProcessStep(p)
    PROVE  Tidy'
<1> SUFFICES ASSUME Calm'
             PROVE  (Wanted /\ \A q \in Process : Careful(q) /\ Shares(q))'
  BY DEF Tidy
<1>1. Fits(p)
  <2>1. CASE procs[p].at \notin Locked
    BY <2>1, OutsideFits
  <2>2. CASE procs[p].at \in Locked
    <3>1. ~(\/ Begin(p) \/ Create(p) \/ Judge(p) \/ Compare(p) \/ Unlink(p) \/ Recreate(p)
            \/ Unlock(p) \/ Remove(p) \/ Ready(p) \/ Release(p))
      BY <2>2 DEF At, Begin, Create, Judge, Compare, Unlink, Recreate, Unlock, Remove, Ready,
                  Release, Locked
    <3>2. ~Dies(p)
      BY CalmBefore
    <3> QED BY <3>1, <3>2, SectionFits, StartFits, StopFits DEF ProcessStep
  <2> QED BY <2>1, <2>2
<1>2. \A q \in Process \ {p} : Careful(q)' /\ Shares(q)'
  BY OthersCareful
<1> QED BY <1>1, <1>2 DEF Fits

\* So does the end of a runtime.
LEMMA TidyExit ==
    ASSUME TypeOK, Tidy, NEW r \in Runtime, Exits(r)
    PROVE  Tidy'
<1>1. UNCHANGED <<lock, pidFile, sidecar, leases, procs, alive, mayFail, raced>>
  BY DEF Exits, rest
<1>2. \A o \in Runtime : runtimes'[o] = "running" => runtimes[o] = "running"
  BY DEF Exits, TypeOK
<1>3. Calm' => Calm
  BY <1>1 DEF Calm
<1>4. Wanted => Wanted'
  BY <1>1, <1>2 DEF Wanted
<1>5. NoneRuns => NoneRuns'
  BY <1>2 DEF NoneRuns
<1>6. ASSUME NEW p \in Process, Careful(p), Shares(p)
      PROVE  Careful(p)' /\ Shares(p)'
  <2>1. procs[p].at = "wait" => runtimes'[procs[p].target] # "running"
    BY <1>2, <1>6 DEF Careful
  <2>2. Careful(p)'
    BY <1>1, <1>5, <1>6, <2>1 DEF Careful, Beside
  <2>3. Shares(p)'
    BY <1>1, <1>6 DEF Shares
  <2> QED BY <2>2, <2>3
<1> QED BY <1>3, <1>4, <1>6 DEF Tidy

\* A runtime that was started for a lease stops with the last one: where nothing
\* died or failed, none is left running without a lease once nobody works on the
\* agent, however many processes took, joined and gave up their leases meanwhile.
THEOREM LastOut == Spec => []LastOutStops
<1>1. Init => Tidy
  <2> SUFFICES ASSUME Init
               PROVE  Tidy
    OBVIOUS
  <2>1. ASSUME NEW p \in Process
        PROVE  Careful(p) /\ Shares(p)
    <3>1. procs[p] = Fresh /\ leases[p] = NoLease
      BY DEF Init
    <3> QED BY <3>1, Marks DEF Fresh, Careful, Shares
  <2>2. Wanted
    BY DEF Init, Wanted
  <2> QED BY <2>1, <2>2 DEF Tidy
<1>2. Inv /\ Tidy /\ [Next]_vars => Tidy'
  <2> SUFFICES ASSUME Inv, Tidy, [Next]_vars
               PROVE  Tidy'
    OBVIOUS
  <2>1. ASSUME NEW p \in Process, ProcessStep(p)
        PROVE  Tidy'
    BY <2>1, TidyStep
  <2>2. ASSUME NEW r \in Runtime, Exits(r)
        PROVE  Tidy'
    BY <2>2, TidyExit DEF Inv
  <2>3. CASE UNCHANGED vars
    BY <2>3 DEF vars, Tidy, Calm, Wanted, Careful, Shares, Beside, NoneRuns
  <2> QED BY <2>1, <2>2, <2>3 DEF Next
<1>3. Inv /\ Tidy => LastOutStops
  <2> SUFFICES ASSUME Tidy, Calm, ~\E p \in Process : InSection(p),
                      NEW r \in Runtime, runtimes[r] = "running", ~sidecar.persistent
               PROVE  \E p \in Process : leases[p].runtime = r
    BY DEF LastOutStops, Calm
  <2>1. PICK p \in Process :
            \/ leases[p].runtime = r
            \/ procs[p].at \in {"record", "write"} /\ procs[p].target = r
    BY DEF Tidy, Wanted
  <2> QED BY <2>1, Steps DEF InSection, Calm
<1> QED BY <1>1, <1>2, <1>3, Invariance, PTL DEF Spec

=============================================================================
