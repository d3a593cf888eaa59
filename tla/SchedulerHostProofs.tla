------------------------- MODULE SchedulerHostProofs -------------------------
(* Theorems about SchedulerHost: what the daemon, the executors, the inline  *)
(* runs and the cancel commands do to the ledger are steps of the ledger,   *)
(* and the processes they start keep apart.                                 *)
EXTENDS SchedulerHost, ScheduleLedgerProofs

-----------------------------------------------------------------------------
(* The inductive invariant                                                  *)

\* The phases in which an executor acts for the claim it was launched for, and
\* those of them from its turn on.
Working == {"preflight", "refused", "turn", "settle", "write"}
Late    == {"turn", "settle", "write"}

\* The process was launched.
Used(e) == procs[e].phase # "unused"

Running(i) == invocations[i].status = "running"

\* The token is good for the run of this row: HoldsToken, of a row.
Holds(row, t) == row.status \in ActiveStatuses /\ row.ownershipToken = t

\* The process, or one it started, is there.
Left(p) == p.phase \in LivePhases \/ p.kids # "none"

\* The process does not act for its claim any more and left nothing in its group.
Freed(p) == p.phase \notin Working /\ p.kids # "group"

\* One process, by itself: nothing is in a record that was never used, nothing
\* was started before the turn or survives a clean settling, and a process that
\* has only to exit holds no token.
ProcFine(p) ==
    /\ p.phase = "unused" => p = UnusedProc
    /\ p.phase # "unused" => p.inv \in Invocation /\ p.attempt > 0
    /\ p.phase \in {"starting", "preflight", "refused", "write"} => p.kids = "none"
    /\ p.phase \in Late => p.ran
    /\ p.phase \in {"leaving", "gone"} => p.token = NoToken

\* A process was launched for an attempt its run has made, with a token that was
\* given out; while that token is good, the attempt is the present one.
Launched(e) ==
    LET p   == procs[e]
        row == invocations[p.inv]
    IN  Used(e) =>
        /\ row.status # "unused"
        /\ p.attempt <= row.attempt
        /\ p.token <= issued
        /\ Holds(row, p.token) =>
             /\ p.attempt = row.attempt
             /\ p.phase = "starting" => row.status = "claimed"

Processes == \A e \in Executor : ProcFine(procs[e]) /\ Launched(e)

\* No attempt is launched twice.
Unique ==
    \A e, f \in Executor :
        /\ Used(e) /\ Used(f) /\ procs[e].inv = procs[f].inv
        /\ procs[e].attempt = procs[f].attempt
        => e = f

\* A run that is running names the process of its present attempt.
Named ==
    \A i \in Invocation : Running(i) =>
        LET e == invocations[i].executor IN
        /\ e \in Executor /\ Used(e) /\ procs[e].inv = i
        /\ procs[e].attempt = invocations[i].attempt

\* A process that works, or left another in its group, is the executor of a run
\* that is running; one that works holds its token.
Owned ==
    \A e \in Executor :
        LET row == invocations[procs[e].inv] IN
        /\ ~Freed(procs[e]) => row.status = "running" /\ row.executor = e
        /\ procs[e].phase \in Working => row.ownershipToken = procs[e].token

\* From its turn on, an executor is alone with its run.
Alone ==
    \A e \in Executor : procs[e].phase \in Late =>
        \A f \in Executor \ {e} : procs[f].inv = procs[e].inv => ~Left(procs[f])

\* A host's record is of a process launched for its run; while the token of the
\* record is good, the attempt is the present one.
Recorded ==
    \A i \in Invocation : entries[i].state # "none" =>
        LET e == entries[i].proc IN
        /\ Used(e) /\ procs[e].inv = i
        /\ procs[e].attempt = entries[i].attempt
        /\ entries[i].token <= issued
        /\ Holds(invocations[i], entries[i].token) =>
             invocations[i].attempt = entries[i].attempt

\* A run still to be launched has made the attempt no process was launched for.
Pending ==
    \A i \in launching :
        /\ invocations[i].status # "unused" /\ invocations[i].attempt > 0
        /\ \A e \in Executor :
              Used(e) /\ procs[e].inv = i =>
                 procs[e].attempt # invocations[i].attempt

\* claimDue goes on to visit a running row only if its executor is dead.
TodoDead ==
    claim.open => \A i \in claim.todo :
        Running(i) => ExecutorDead(invocations[i].executor)

\* A cancel command kills a process that was launched.
Aimed == cancel.phase = "killing" => cancel.proc \in Executor /\ Used(cancel.proc)

\* No run has more attempts than the budget.
Budgeted == \A i \in Invocation : invocations[i].maxAttempts <= RetryBudget

\* The hosts hold finitely many runs: their number can be compared with the
\* limit of the scheduler.
FewEntries == IsFiniteSet({i \in Invocation : entries[i].state # "none"})

HostInv ==
    /\ HostTypeOK /\ Processes /\ Unique /\ Named /\ Owned /\ Alone /\ Recorded
    /\ Pending /\ TodoDead /\ Aimed /\ Budgeted /\ FewEntries

\* With what is known of the ledger.
Good == Inv /\ SingleActiveRun /\ HostInv

-----------------------------------------------------------------------------
(* What may become of a process                                             *)

\* What a step that does not launch the process may do to it: it stays what it
\* was launched for, goes on with its work or ends it, and keeps its token or
\* forgets it; nothing of it comes back that was gone.
Winds(p, q) ==
    /\ q \in Proc /\ ProcFine(q)
    /\ q.inv = p.inv /\ q.attempt = p.attempt
    /\ q.phase = "unused" <=> p.phase = "unused"
    /\ q.phase \in Working => p.phase \in Working /\ q.token = p.token
    /\ q.phase = "starting" => p.phase = "starting" /\ q.token = p.token
    /\ q.token \in {p.token, NoToken}
    /\ q.kids = "group" => p.kids = "group" \/ p.phase \in Working
    /\ Left(q) => Left(p)

\* The phases, one by one.
LEMMA Phases ==
    /\ Late \subseteq Working /\ Working \subseteq LivePhases
    /\ "starting" \in LivePhases /\ "leaving" \in LivePhases
    /\ "unused" \notin LivePhases /\ "gone" \notin LivePhases
    /\ \A x \in {"starting", "leaving", "gone", "unused"} : x \notin Working
    /\ \A x \in {"preflight", "refused"} : x \in Working /\ x \notin Late
BY DEF Late, Working, LivePhases

\* A process nothing happens to.
LEMMA SameWinds ==
    ASSUME NEW p \in Proc, ProcFine(p)
    PROVE  Winds(p, p)
BY DEF Winds

\* A process that ends, with or without what it started.
LEMMA GoneWinds ==
    ASSUME NEW p \in Proc, ProcFine(p), p.phase # "unused",
           NEW k \in {"none", "group", "own"}, k \in {"none", p.kids}
    PROVE  /\ Winds(p, Gone(p, k))
           /\ Gone(p, k).phase = "gone" /\ Gone(p, k).kids = k
<1> DEFINE q == Gone(p, k)
<1>1. UnusedProc \in Proc
  BY DEF UnusedProc, Proc, NoToken
<1>2. q \in Proc
  BY <1>1 DEF Gone, Proc
<1>3. /\ q.phase = "gone" /\ q.inv = p.inv /\ q.token = NoToken
      /\ q.attempt = p.attempt /\ q.kids = k
  BY DEF Gone, UnusedProc
<1> HIDE DEF q
<1>4. ProcFine(q)
  BY <1>3 DEF ProcFine, Late
<1>5. Left(q) => Left(p)
  BY <1>3 DEF Left, LivePhases
<1>6. Winds(p, q)
  BY <1>2, <1>3, <1>4, <1>5 DEF Winds, Working
<1> QED BY <1>3, <1>6 DEF q

\* SIGKILL to the group of a process leaves it free.
LEMMA KilledWinds ==
    ASSUME NEW p \in Proc, ProcFine(p), p.phase # "unused"
    PROVE  Winds(p, GroupKilled(p)) /\ Freed(GroupKilled(p))
<1> DEFINE k == IF p.kids = "group" THEN "none" ELSE p.kids
<1>1. k \in {"none", "group", "own"} /\ k \in {"none", p.kids} /\ k # "group"
  BY DEF Proc
<1> HIDE DEF k
<1>2. Winds(p, Gone(p, k)) /\ Gone(p, k).phase = "gone" /\ Gone(p, k).kids = k
  BY <1>1, GoneWinds
<1>3. Freed(Gone(p, k))
  BY <1>1, <1>2 DEF Freed, Working
<1> QED BY <1>2, <1>3 DEF GroupKilled, k

\* A process that has only to exit.
LEMMA LeavingWinds ==
    ASSUME NEW p \in Proc, ProcFine(p), p.phase \in LivePhases
    PROVE  /\ Winds(p, Leaving(p))
           /\ Leaving(p).phase = "leaving" /\ Leaving(p).kids = p.kids
<1> DEFINE q == Leaving(p)
<1>1. q \in Proc
  BY DEF Leaving, Proc, LivePhases, NoToken
<1>2. /\ q.phase = "leaving" /\ q.inv = p.inv /\ q.token = NoToken
      /\ q.attempt = p.attempt /\ q.kids = p.kids
  BY DEF Leaving, Proc
<1> HIDE DEF q
<1>3. p.phase # "unused"
  BY DEF LivePhases
<1>4. ProcFine(q)
  BY <1>2, <1>3 DEF ProcFine, Late
<1>5. Winds(p, q)
  BY <1>1, <1>2, <1>3, <1>4 DEF Winds, Working, Left
<1> QED BY <1>2, <1>5 DEF q

\* A process that was told to stop.
LEMMA SignalledWinds ==
    ASSUME NEW p \in Proc, ProcFine(p), p.phase # "unused"
    PROVE  /\ Winds(p, [p EXCEPT !.stop = TRUE])
           /\ [p EXCEPT !.stop = TRUE].phase = p.phase
<1> DEFINE q == [p EXCEPT !.stop = TRUE]
<1>1. q \in Proc
  BY DEF Proc
<1>2. /\ q.phase = p.phase /\ q.inv = p.inv /\ q.token = p.token
      /\ q.attempt = p.attempt /\ q.kids = p.kids /\ q.ran = p.ran
  BY DEF Proc
<1> HIDE DEF q
<1>3. ProcFine(q)
  BY <1>2 DEF ProcFine
<1>4. Winds(p, q)
  BY <1>1, <1>2, <1>3 DEF Winds, Left
<1> QED BY <1>2, <1>4 DEF q

\* A process whose tools are gone.
LEMMA RidWinds ==
    ASSUME NEW p \in Proc, ProcFine(p), p.phase # "unused"
    PROVE  LET q == [p EXCEPT !.kids = "none"]
           IN  /\ Winds(p, q) /\ q.phase = p.phase /\ q.kids = "none"
               /\ q.token = p.token /\ q.ran = p.ran
<1> DEFINE q == [p EXCEPT !.kids = "none"]
<1>1. q \in Proc
  BY DEF Proc
<1>2. /\ q.phase = p.phase /\ q.inv = p.inv /\ q.token = p.token
      /\ q.attempt = p.attempt /\ q.kids = "none" /\ q.ran = p.ran
  BY DEF Proc
<1> HIDE DEF q
<1>3. ProcFine(q)
  BY <1>2 DEF ProcFine
<1>4. Winds(p, q)
  BY <1>1, <1>2, <1>3 DEF Winds, Left
<1> QED BY <1>2, <1>4 DEF q

-----------------------------------------------------------------------------
(* Steps that neither claim, nor launch, nor begin a run                    *)

\* What such a step may do to a row of the ledger: it keeps its attempt and, if
\* it leaves the run claimed or running, its status, token and executor.
Calm(row, new) ==
    /\ new.attempt = row.attempt
    /\ new.maxAttempts = row.maxAttempts \/ new.maxAttempts <= RetryBudget
    /\ new.status = "unused" => row.status = "unused"
    /\ new.status \in ActiveStatuses =>
         /\ new.status = row.status
         /\ new.ownershipToken = row.ownershipToken
         /\ new.executor = row.executor

\* It records no result.
Silent(row, new) == new.status \in ResultStatuses => row.status \in ResultStatuses

\* The rows, and the processes of the runs that stop running.
RowsRest ==
    /\ \A i \in Invocation : Calm(invocations[i], invocations'[i])
    /\ issued' = issued
    /\ \A i \in Invocation : Running(i) /\ invocations'[i].status # "running" =>
         Freed(procs'[invocations[i].executor])

\* The processes; one that comes to its turn is alone with its run.
ProcsRest ==
    /\ procs' \in [Executor -> Proc]
    /\ \A e \in Executor : Winds(procs[e], procs'[e])
    /\ \A e \in Executor : procs'[e].phase \in Late =>
         \/ procs[e].phase \in Late
         \/ \A f \in Executor \ {e} :
               procs[f].inv = procs[e].inv => ~Left(procs'[f])

\* A host's record that is still there is of the same process.
EntryRests(n, m) ==
    m.state # "none" => /\ n.state # "none"
                        /\ m.proc = n.proc /\ m.attempt = n.attempt
                        /\ m.token = n.token

HostsRest ==
    /\ scenario' \in Scenarios
    /\ daemon' \in {"down", "up", "stopping"}
    /\ crashes' \in 0..scenario'.crashes
    /\ launching' \subseteq launching
    /\ entries' \in [Invocation -> Entry \cup {NoEntry}]
    /\ \A i \in Invocation : EntryRests(entries[i], entries'[i])

\* The transaction of claimDue, and a cancel command.
CommandsRest ==
    /\ claim'.open => /\ claim.open /\ claim'.todo \subseteq claim.todo
                      /\ procs' = procs
    /\ cancel' \in CancelState
    /\ cancels' \in 0..scenario'.cancels
    /\ cancel'.phase = "killing" => cancel'.proc \in Executor /\ Used(cancel'.proc)

Rests == RowsRest /\ ProcsRest /\ HostsRest /\ CommandsRest

\* Columns of the rows and tokens of a good state.
LEMMA RowFacts ==
    ASSUME Good, NEW i \in Invocation
    PROVE  /\ invocations[i] \in InvocationRow
           /\ RowFine(invocations[i])
           /\ invocations[i].ownershipToken <= issued
           /\ Active(i) => invocations[i].ownershipToken # NoToken
BY DEF Good, Inv, TypeOK, Books, Rows, Tokens, RowFine, Active

\* Fields of the processes of a good state.
LEMMA ProcFacts ==
    ASSUME Good, NEW e \in Executor
    PROVE  /\ procs[e] \in Proc /\ ProcFine(procs[e]) /\ Launched(e)
           /\ procs[e].token \in Nat /\ procs[e].attempt \in Nat
           /\ Used(e) => procs[e].inv \in Invocation
           /\ ~Freed(procs[e]) => Used(e)
<1>1. procs[e] \in Proc /\ ProcFine(procs[e]) /\ Launched(e)
  BY DEF Good, HostInv, HostTypeOK, Processes
<1>2. procs[e].token \in Nat /\ procs[e].attempt \in Nat
  BY <1>1 DEF Proc
<1>3. Used(e) => procs[e].inv \in Invocation
  BY <1>1 DEF ProcFine, Used
<1>4. ~Freed(procs[e]) => Used(e)
  BY <1>1 DEF ProcFine, Used, Freed, UnusedProc, Working
<1> QED BY <1>1, <1>2, <1>3, <1>4

\* A token that is good after such a step was good before it, for a run of the
\* same status and attempt.
LEMMA TokensRest ==
    ASSUME Good, RowsRest, NEW i \in Invocation, NEW t, Holds(invocations'[i], t)
    PROVE  /\ Holds(invocations[i], t)
           /\ invocations'[i].status = invocations[i].status
           /\ invocations'[i].attempt = invocations[i].attempt
           /\ invocations'[i].executor = invocations[i].executor
BY DEF RowsRest, Calm, Holds, Active

\* The processes are still what they were launched for.
LEMMA ProcessesRest ==
    ASSUME Good, Inv', RowsRest, ProcsRest
    PROVE  Processes' /\ Unique'
<1>1. ASSUME NEW e \in Executor
      PROVE  /\ ProcFine(procs'[e])
             /\ procs'[e].inv = procs[e].inv
             /\ procs'[e].attempt = procs[e].attempt
             /\ Used(e)' <=> Used(e)
             /\ procs'[e].token \in {procs[e].token, NoToken}
             /\ procs'[e].phase = "starting" => procs[e].phase = "starting"
  BY DEF ProcsRest, Winds, Used
<1>2. Unique'
  BY <1>1 DEF Good, HostInv, Unique
<1>3. ASSUME NEW e \in Executor, Used(e)
      PROVE  LET p   == procs'[e]
                 row == invocations'[p.inv]
             IN  /\ row.status # "unused"
                 /\ p.attempt <= row.attempt
                 /\ p.token <= issued'
                 /\ Holds(row, p.token) =>
                      /\ p.attempt = row.attempt
                      /\ p.phase = "starting" => row.status = "claimed"
  <2> DEFINE i == procs[e].inv
  <2>1. i \in Invocation
    BY <1>3, ProcFacts
  <2>2. /\ invocations[i].status # "unused"
        /\ procs[e].attempt <= invocations[i].attempt
        /\ procs[e].token <= issued
        /\ Holds(invocations[i], procs[e].token) =>
             /\ procs[e].attempt = invocations[i].attempt
             /\ procs[e].phase = "starting" => invocations[i].status = "claimed"
    BY <1>3, ProcFacts DEF Launched
  <2>3. /\ invocations'[i].attempt = invocations[i].attempt
        /\ invocations'[i].status # "unused"
        /\ issued' = issued
    BY <2>1, <2>2 DEF RowsRest, Calm
  <2>4. 0 <= issued
    BY DEF Good, Inv, TypeOK
  <2>5. procs'[e].token <= issued'
    BY <1>1, <2>2, <2>3, <2>4 DEF NoToken
  <2>6. ASSUME Holds(invocations'[i], procs'[e].token)
        PROVE  /\ procs'[e].token = procs[e].token
               /\ Holds(invocations[i], procs[e].token)
               /\ invocations'[i].status = invocations[i].status
    <3>1. invocations'[i].ownershipToken # NoToken
      BY <2>1, <2>6 DEF Inv, Books, Rows, RowFine, Holds, Active
    <3>2. procs'[e].token = procs[e].token
      BY <1>1, <2>6, <3>1 DEF Holds
    <3> QED BY <2>1, <2>6, <3>2, TokensRest DEF Holds, Active
  <2> HIDE DEF i
  <2>7. procs'[e].inv = i /\ procs'[e].attempt = procs[e].attempt
    BY <1>1 DEF i
  <2> QED BY <1>1, <2>2, <2>3, <2>5, <2>6, <2>7
<1>4. \A e \in Executor : Launched(e)'
  BY <1>1, <1>3 DEF Launched
<1> QED BY <1>1, <1>2, <1>4 DEF Processes

\* The runs that are running still name their processes, and are still theirs.
LEMMA OwnersRest ==
    ASSUME Good, RowsRest, ProcsRest
    PROVE  Named' /\ Owned' /\ Alone'
<1>1. ASSUME NEW e \in Executor
      PROVE  /\ procs'[e].inv = procs[e].inv
             /\ procs'[e].attempt = procs[e].attempt
             /\ Used(e)' <=> Used(e)
             /\ procs'[e].phase \in Working =>
                  procs[e].phase \in Working /\ procs'[e].token = procs[e].token
             /\ ~Freed(procs'[e]) => ~Freed(procs[e])
             /\ Left(procs'[e]) => Left(procs[e])
  BY DEF ProcsRest, Winds, Used, Freed
<1>2. ASSUME NEW i \in Invocation, invocations'[i].status = "running"
      PROVE  /\ Running(i)
             /\ invocations'[i].executor = invocations[i].executor
             /\ invocations'[i].ownershipToken = invocations[i].ownershipToken
             /\ invocations'[i].attempt = invocations[i].attempt
  BY <1>2 DEF RowsRest, Calm, Running, ActiveStatuses
<1>3. Named'
  <2> SUFFICES ASSUME NEW i \in Invocation, Running(i)'
               PROVE  LET e == invocations'[i].executor IN
                      /\ e \in Executor /\ procs'[e].phase # "unused"
                      /\ procs'[e].inv = i
                      /\ procs'[e].attempt = invocations'[i].attempt
    BY DEF Named, Used
  <2> DEFINE e == invocations[i].executor
  <2>1. Running(i) /\ invocations'[i].executor = e
        /\ invocations'[i].attempt = invocations[i].attempt
    BY <1>2 DEF Running
  <2>2. /\ e \in Executor /\ Used(e) /\ procs[e].inv = i
        /\ procs[e].attempt = invocations[i].attempt
    BY <2>1 DEF Good, HostInv, Named
  <2> QED BY <1>1, <2>1, <2>2 DEF Used
<1>4. Owned'
  <2> SUFFICES ASSUME NEW e \in Executor, ~Freed(procs'[e])
               PROVE  LET row == invocations'[procs[e].inv]
                      IN  /\ row.status = "running" /\ row.executor = e
                          /\ procs'[e].phase \in Working =>
                               row.ownershipToken = procs'[e].token
    BY <1>1 DEF Owned, Freed
  <2> DEFINE i == procs[e].inv
  <2>1. ~Freed(procs[e])
    BY <1>1
  <2>2. i \in Invocation
    BY <2>1, ProcFacts
  <2>3. /\ Running(i) /\ invocations[i].executor = e
        /\ procs[e].phase \in Working => invocations[i].ownershipToken = procs[e].token
    BY <2>1 DEF Good, HostInv, Owned, Running
  <2>4. invocations'[i].status = "running"
    BY <2>2, <2>3 DEF RowsRest
  <2> QED BY <1>1, <1>2, <2>2, <2>3, <2>4
<1>5. Alone'
  <2> SUFFICES ASSUME NEW e \in Executor, procs'[e].phase \in Late,
                      NEW f \in Executor \ {e}, procs'[f].inv = procs'[e].inv
               PROVE  ~Left(procs'[f])
    BY DEF Alone
  <2>1. procs[f].inv = procs[e].inv
    BY <1>1
  <2>2. CASE procs[e].phase \in Late
    BY <1>1, <2>1, <2>2 DEF Good, HostInv, Alone
  <2>3. CASE procs[e].phase \notin Late
    BY <2>1, <2>3 DEF ProcsRest
  <2> QED BY <2>2, <2>3
<1> QED BY <1>3, <1>4, <1>5

\* The hosts' records and the runs still to be launched.
LEMMA RecordsRest ==
    ASSUME Good, RowsRest, ProcsRest, HostsRest
    PROVE  Recorded' /\ Pending' /\ FewEntries'
<1>1. ASSUME NEW e \in Executor
      PROVE  /\ procs'[e].inv = procs[e].inv
             /\ procs'[e].attempt = procs[e].attempt
             /\ Used(e)' <=> Used(e)
  BY DEF ProcsRest, Winds, Used
<1>2. \A i \in Invocation : invocations'[i].attempt = invocations[i].attempt
  BY DEF RowsRest, Calm
<1>3. Recorded'
  <2> SUFFICES ASSUME NEW i \in Invocation, entries'[i].state # "none"
               PROVE  LET e == entries'[i].proc IN
                      /\ procs'[e].phase # "unused" /\ procs'[e].inv = i
                      /\ procs'[e].attempt = entries'[i].attempt
                      /\ entries'[i].token <= issued'
                      /\ Holds(invocations'[i], entries'[i].token) =>
                           invocations'[i].attempt = entries'[i].attempt
    BY DEF Recorded, Used
  <2> DEFINE e == entries[i].proc
  <2>1. /\ entries[i].state # "none" /\ entries'[i].proc = e
        /\ entries'[i].attempt = entries[i].attempt
        /\ entries'[i].token = entries[i].token
    BY DEF HostsRest, EntryRests
  <2>2. /\ Used(e) /\ procs[e].inv = i
        /\ procs[e].attempt = entries[i].attempt
        /\ entries[i].token <= issued
        /\ Holds(invocations[i], entries[i].token) =>
             invocations[i].attempt = entries[i].attempt
    BY <2>1 DEF Good, HostInv, Recorded
  <2>3. e \in Executor
    BY <2>1 DEF Good, HostInv, HostTypeOK, Entry, NoEntry
  <2>4. ASSUME Holds(invocations'[i], entries'[i].token)
        PROVE  Holds(invocations[i], entries[i].token)
    <3>1. invocations'[i].status \in ActiveStatuses
          /\ invocations'[i].ownershipToken = entries[i].token
      BY <2>1, <2>4 DEF Holds, Active
    <3> QED BY <3>1 DEF RowsRest, Calm, Holds, Active
  <2> HIDE DEF e
  <2> QED BY <1>1, <1>2, <2>1, <2>2, <2>3, <2>4 DEF RowsRest, Used
<1>4. Pending'
  <2> SUFFICES ASSUME NEW i \in launching'
               PROVE  /\ invocations'[i].status # "unused"
                      /\ invocations'[i].attempt > 0
                      /\ \A e \in Executor :
                            Used(e)' /\ procs'[e].inv = i =>
                               procs'[e].attempt # invocations'[i].attempt
    BY DEF Pending
  <2>1. i \in launching /\ i \in Invocation
    BY DEF HostsRest, Good, HostInv, HostTypeOK
  <2>2. /\ invocations[i].status # "unused" /\ invocations[i].attempt > 0
        /\ \A e \in Executor : Used(e) /\ procs[e].inv = i =>
              procs[e].attempt # invocations[i].attempt
    BY <2>1 DEF Good, HostInv, Pending
  <2>3. invocations'[i].status # "unused"
    BY <2>1, <2>2 DEF RowsRest, Calm
  <2> QED BY <1>1, <1>2, <2>1, <2>2, <2>3
<1>5. FewEntries'
  <2>1. {i \in Invocation : entries'[i].state # "none"}
          \subseteq {i \in Invocation : entries[i].state # "none"}
    BY DEF HostsRest, EntryRests
  <2> QED BY <2>1, FS_Subset DEF Good, HostInv, FewEntries
<1> QED BY <1>3, <1>4, <1>5

\* A step that neither claims, nor launches, nor begins a run keeps the
\* invariant.
LEMMA RestKeeps ==
    ASSUME Good, Inv', Rests
    PROVE  HostInv'
<1>1. Processes' /\ Unique' /\ Named' /\ Owned' /\ Alone'
      /\ Recorded' /\ Pending' /\ FewEntries'
  BY ProcessesRest, OwnersRest, RecordsRest DEF Rests
<1>2. HostTypeOK'
  <2>1. launching' \subseteq Invocation
    BY DEF Good, HostInv, HostTypeOK, Rests, HostsRest
  <2> QED BY <2>1 DEF HostTypeOK, Rests, ProcsRest, HostsRest, CommandsRest
<1>3. TodoDead'
  <2> SUFFICES ASSUME claim'.open, NEW i \in claim'.todo,
                      invocations'[i].status = "running"
               PROVE  LET e == invocations'[i].executor
                      IN  procs'[e].phase \notin LivePhases
                            /\ procs'[e].kids # "group"
    BY DEF TodoDead, Running, ExecutorDead, RootAlive
  <2>1. claim.open /\ i \in claim.todo /\ procs' = procs
    BY DEF Rests, CommandsRest
  <2>2. i \in Invocation
    BY <2>1 DEF Good, Inv, SnapshotFresh, LiveRows
  <2>3. Running(i) /\ invocations'[i].executor = invocations[i].executor
    BY <2>2 DEF Rests, RowsRest, Calm, Running, ActiveStatuses
  <2>4. ExecutorDead(invocations[i].executor)
    BY <2>1, <2>3 DEF Good, HostInv, TodoDead
  <2> QED BY <2>1, <2>3, <2>4 DEF ExecutorDead, RootAlive
<1>4. Aimed'
  BY DEF Aimed, Rests, CommandsRest, ProcsRest, Winds, Used
<1>5. Budgeted'
  BY DEF Budgeted, Rests, RowsRest, Calm, Good, HostInv
<1> QED BY <1>1, <1>2, <1>3, <1>4, <1>5 DEF HostInv

-----------------------------------------------------------------------------
(* Claiming, launching and beginning a run                                  *)

\* A step claims run i: for its next attempt, under a token nobody has seen; if
\* the run was running, its executor is dead.
Claims(i) ==
    /\ \A j \in Invocation \ {i} : invocations'[j] = invocations[j]
    /\ invocations'[i].status = "claimed"
    /\ invocations'[i].attempt = invocations[i].attempt + 1
    /\ invocations'[i].ownershipToken = issued + 1
    /\ invocations'[i].maxAttempts <= RetryBudget
    /\ issued' = issued + 1
    /\ Running(i) => ExecutorDead(invocations[i].executor)

\* After the step run i has an attempt for which no process was launched, and
\* those launched for earlier ones are free and hold no good token.
Ready(i) ==
    /\ \A j \in Invocation \ {i} : invocations'[j] = invocations[j]
    /\ invocations'[i].status \notin {"unused", "running"}
    /\ invocations'[i].attempt \in Nat /\ invocations'[i].attempt > 0
    /\ invocations'[i].maxAttempts <= RetryBudget
    /\ issued' \in Nat /\ issued' >= issued
    /\ \A f \in Executor : Used(f) /\ procs[f].inv = i =>
         /\ Freed(procs[f])
         /\ procs[f].attempt < invocations'[i].attempt
         /\ ~Holds(invocations'[i], procs[f].token)

\* The executor of a claimed run, if it had one, is free.
LEMMA ClaimReady ==
    ASSUME Good, NEW i \in Invocation, Claims(i)
    PROVE  Ready(i)
<1>1. issued \in Nat /\ invocations[i].attempt \in Nat
  BY RowFacts DEF Good, Inv, TypeOK, InvocationRow
<1>2. ASSUME NEW f \in Executor, Used(f), procs[f].inv = i
      PROVE  /\ Freed(procs[f])
             /\ procs[f].attempt < invocations'[i].attempt
             /\ ~Holds(invocations'[i], procs[f].token)
  <2>1. /\ procs[f].attempt <= invocations[i].attempt
        /\ procs[f].token <= issued
        /\ procs[f].attempt \in Nat /\ procs[f].token \in Nat
    BY <1>2, ProcFacts DEF Launched
  <2>2. Freed(procs[f])
    <3>1. ~Freed(procs[f]) => Running(i) /\ invocations[i].executor = f
      BY <1>2 DEF Good, HostInv, Owned, Running
    <3>2. ExecutorDead(f) => Freed(procs[f])
      BY Phases DEF ExecutorDead, RootAlive, Freed
    <3> QED BY <3>1, <3>2 DEF Claims
  <2> QED BY <1>1, <2>1, <2>2 DEF Claims, Holds
<1> QED BY <1>1, <1>2 DEF Claims, Ready

\* A run the daemon still has to launch is ready as it stands.
LEMMA PendingReady ==
    ASSUME Good, NEW i \in launching, UNCHANGED <<invocations, issued>>
    PROVE  Ready(i)
<1>1. /\ i \in Invocation /\ invocations[i].status # "unused"
      /\ invocations[i].attempt > 0 /\ invocations[i].attempt \in Nat
      /\ \A f \in Executor : Used(f) /\ procs[f].inv = i =>
            procs[f].attempt # invocations[i].attempt
  BY RowFacts DEF Good, HostInv, HostTypeOK, Pending, InvocationRow
<1>2. ~Running(i)
  BY <1>1 DEF Good, HostInv, Named
<1>3. ASSUME NEW f \in Executor, Used(f), procs[f].inv = i
      PROVE  /\ Freed(procs[f])
             /\ procs[f].attempt < invocations[i].attempt
             /\ ~Holds(invocations[i], procs[f].token)
  <2>1. Freed(procs[f])
    BY <1>2, <1>3 DEF Good, HostInv, Owned, Running
  <2>2. /\ procs[f].attempt <= invocations[i].attempt
        /\ procs[f].attempt # invocations[i].attempt
        /\ procs[f].attempt \in Nat
    BY <1>1, <1>3, ProcFacts DEF Launched
  <2>3. ~Holds(invocations[i], procs[f].token)
    BY <1>3, <2>2, ProcFacts DEF Launched
  <2> QED BY <1>1, <2>1, <2>2, <2>3
<1>4. invocations[i].maxAttempts <= RetryBudget
  BY <1>1 DEF Good, HostInv, Budgeted
<1>5. issued' \in Nat /\ issued' >= issued
  BY DEF Good, Inv, TypeOK
<1> QED BY <1>1, <1>2, <1>3, <1>4, <1>5 DEF Ready, Running

\* While a run becomes ready, the processes there are keep what they were
\* launched for, and those that work keep their runs.
LEMMA ReadyFacts ==
    ASSUME Good, NEW i \in Invocation, Ready(i)
    PROVE  /\ \A f \in Executor : Used(f) =>
                LET p   == procs[f]
                    row == invocations'[p.inv]
                IN  /\ row.status # "unused"
                    /\ p.attempt <= row.attempt
                    /\ p.token <= issued'
                    /\ Holds(row, p.token) =>
                         /\ p.attempt = row.attempt
                         /\ p.phase = "starting" => row.status = "claimed"
           /\ \A f \in Executor : ~Freed(procs[f]) =>
                /\ procs[f].inv # i /\ procs[f].inv \in Invocation
                /\ invocations'[procs[f].inv] = invocations[procs[f].inv]
           /\ \A j \in Invocation : Running(j)' =>
                j # i /\ Running(j) /\ invocations'[j] = invocations[j]
           /\ Budgeted'
<1>1. ASSUME NEW f \in Executor, Used(f)
      PROVE  LET p   == procs[f]
                 row == invocations'[p.inv]
             IN  /\ row.status # "unused"
                 /\ p.attempt <= row.attempt
                 /\ p.token <= issued'
                 /\ Holds(row, p.token) =>
                      /\ p.attempt = row.attempt
                      /\ p.phase = "starting" => row.status = "claimed"
  <2>1. /\ procs[f].inv \in Invocation /\ Launched(f)
        /\ procs[f].token \in Nat /\ procs[f].attempt \in Nat
    BY <1>1, ProcFacts
  <2>2. issued \in Nat /\ issued' \in Nat /\ issued' >= issued
    BY DEF Good, Inv, TypeOK, Ready
  <2>3. CASE procs[f].inv = i
    <3>1. /\ procs[f].attempt < invocations'[i].attempt
          /\ ~Holds(invocations'[i], procs[f].token)
          /\ invocations'[i].status # "unused" /\ invocations'[i].attempt \in Nat
      BY <1>1, <2>3 DEF Ready
    <3>2. procs[f].token <= issued
      BY <1>1, <2>1 DEF Launched
    <3>3. procs[f].attempt <= invocations'[i].attempt /\ procs[f].token <= issued'
      BY <2>1, <2>2, <3>1, <3>2
    <3> QED BY <2>3, <3>1, <3>3
  <2>4. CASE procs[f].inv # i
    <3>1. invocations'[procs[f].inv] = invocations[procs[f].inv]
      BY <2>1, <2>4 DEF Ready
    <3> QED BY <1>1, <2>1, <2>2, <3>1 DEF Launched
  <2> QED BY <2>3, <2>4
<1>2. ASSUME NEW f \in Executor, ~Freed(procs[f])
      PROVE  /\ procs[f].inv # i /\ procs[f].inv \in Invocation
             /\ invocations'[procs[f].inv] = invocations[procs[f].inv]
  BY <1>2, ProcFacts DEF Ready
<1>3. ASSUME NEW j \in Invocation, Running(j)'
      PROVE  j # i /\ Running(j) /\ invocations'[j] = invocations[j]
  BY <1>3 DEF Ready, Running
<1>4. Budgeted'
  BY DEF Budgeted, Ready, Good, HostInv
<1> QED BY <1>1, <1>2, <1>3, <1>4

\* A claim that launches nothing keeps the invariant.
LEMMA ClaimingKeeps ==
    ASSUME Good, Inv', NEW i \in Invocation, Claims(i),
           UNCHANGED <<scenario, daemon, crashes, entries, procs, cancel, cancels>>,
           launching' \subseteq launching \cup {i},
           claim'.open => claim.open /\ claim'.todo \subseteq claim.todo
    PROVE  HostInv'
<1>1. Ready(i)
  BY ClaimReady
<1>2. HostTypeOK'
  BY DEF Good, HostInv, HostTypeOK
<1>3. Processes' /\ Unique'
  <2>1. \A f \in Executor : Launched(f)'
    BY <1>1, ReadyFacts DEF Launched, Used
  <2> QED BY <2>1 DEF Good, HostInv, Processes, Unique, Used
<1>4. Named'
  BY <1>1, ReadyFacts DEF Good, HostInv, Named, Running, Used
<1>5. Owned'
  BY <1>1, ReadyFacts DEF Good, HostInv, Owned, Freed
<1>6. Alone'
  BY DEF Good, HostInv, Alone
<1>7. Recorded'
  <2> SUFFICES ASSUME NEW j \in Invocation, entries[j].state # "none"
               PROVE  LET e == entries[j].proc IN
                      /\ Used(e) /\ procs[e].inv = j
                      /\ procs[e].attempt = entries[j].attempt
                      /\ entries[j].token <= issued'
                      /\ Holds(invocations'[j], entries[j].token) =>
                           invocations'[j].attempt = entries[j].attempt
    BY DEF Recorded, Used
  <2>1. /\ Used(entries[j].proc) /\ procs[entries[j].proc].inv = j
        /\ procs[entries[j].proc].attempt = entries[j].attempt
        /\ entries[j].token <= issued
        /\ Holds(invocations[j], entries[j].token) =>
             invocations[j].attempt = entries[j].attempt
    BY DEF Good, HostInv, Recorded
  <2>2. entries[j].token \in Nat /\ issued \in Nat
    BY DEF Good, Inv, TypeOK, HostInv, HostTypeOK, Entry, NoEntry
  <2>3. entries[j].token <= issued' /\ entries[j].token # issued + 1
    BY <2>1, <2>2 DEF Claims
  <2>4. CASE j = i
    BY <2>1, <2>3, <2>4 DEF Claims, Holds
  <2>5. CASE j # i
    BY <2>1, <2>3, <2>5 DEF Claims
  <2> QED BY <2>4, <2>5
<1>8. Pending'
  <2> SUFFICES ASSUME NEW j \in launching'
               PROVE  /\ invocations'[j].status # "unused"
                      /\ invocations'[j].attempt > 0
                      /\ \A e \in Executor :
                            Used(e) /\ procs[e].inv = j =>
                               procs[e].attempt # invocations'[j].attempt
    BY DEF Pending, Used
  <2>1. CASE j = i
    <3>1. ASSUME NEW e \in Executor, Used(e), procs[e].inv = i
          PROVE  procs[e].attempt # invocations'[i].attempt
      <4>1. procs[e].attempt < invocations'[i].attempt /\ procs[e].attempt \in Nat
        BY <1>1, <3>1, ProcFacts DEF Ready
      <4> QED BY <4>1
    <3> QED BY <1>1, <2>1, <3>1 DEF Ready
  <2>2. CASE j # i
    <3>1. j \in launching /\ j \in Invocation
      BY <2>2 DEF Good, HostInv, HostTypeOK
    <3>2. invocations'[j] = invocations[j]
      BY <2>2, <3>1 DEF Claims
    <3> QED BY <3>1, <3>2 DEF Good, HostInv, Pending
  <2> QED BY <2>1, <2>2
<1>9. TodoDead'
  <2> SUFFICES ASSUME claim'.open, NEW j \in claim'.todo,
                      invocations'[j].status = "running"
               PROVE  ExecutorDead(invocations'[j].executor)
    BY DEF TodoDead, Running, ExecutorDead, RootAlive
  <2>1. claim.open /\ j \in claim.todo
    OBVIOUS
  <2>2. j \in Invocation
    BY <2>1 DEF Good, Inv, SnapshotFresh, LiveRows
  <2>3. Running(j) /\ invocations'[j] = invocations[j]
    BY <1>1, <2>2, ReadyFacts DEF Running
  <2> QED BY <2>1, <2>3 DEF Good, HostInv, TodoDead
<1>10. Aimed' /\ FewEntries' /\ Budgeted'
  BY <1>1, ReadyFacts DEF Good, HostInv, Aimed, FewEntries, Used
<1> QED BY <1>2, <1>3, <1>4, <1>5, <1>6, <1>7, <1>8, <1>9, <1>10 DEF HostInv

\* A process as Spawned makes it.
Starting(i, t, a) ==
    [UnusedProc EXCEPT !.phase = "starting", !.inv = i, !.token = t, !.attempt = a]

\* A process that was just launched.
LEMMA StartingParts ==
    ASSUME NEW i \in Invocation, NEW t \in Nat, NEW a \in Nat
    PROVE  LET p == Starting(i, t, a)
           IN  /\ p \in Proc
               /\ p.phase = "starting" /\ p.inv = i /\ p.token = t
               /\ p.attempt = a /\ p.kids = "none"
<1>1. UnusedProc \in Proc
  BY DEF UnusedProc, Proc, NoToken
<1> QED BY <1>1 DEF Starting, Proc, LivePhases, UnusedProc

\* The host's record of a process that was just launched.
LEMMA EntryForParts ==
    ASSUME NEW w \in Worker, NEW e \in Executor, NEW t \in Nat, NEW a \in Nat
    PROVE  LET n == EntryFor(w, e, t, a)
           IN  /\ n \in Entry
               /\ n.state = "running" /\ n.proc = e /\ n.token = t /\ n.attempt = a
BY DEF EntryFor, NoEntry, Entry

\* A launch of run i, whose attempt no process was launched for, keeps the
\* invariant: by the daemon after its claim, or by an inline run with it.
LEMMA LaunchKeeps ==
    ASSUME Good, Inv', NEW i \in Invocation, Ready(i),
           NEW w \in Worker, NEW e \in Executor, ~Used(e),
           procs' = Spawned(i, e, invocations'[i].ownershipToken,
                            invocations'[i].attempt),
           entries' = [entries EXCEPT ![i] =
                         EntryFor(w, e, invocations'[i].ownershipToken,
                                  invocations'[i].attempt)],
           launching' \subseteq launching \ {i},
           UNCHANGED <<scenario, daemon, crashes, cancel, cancels, claim>>, Idle
    PROVE  HostInv'
<1> DEFINE t == invocations'[i].ownershipToken
           a == invocations'[i].attempt
           p == Starting(i, t, a)
           n == EntryFor(w, e, t, a)
<1>1. t \in Nat /\ a \in Nat /\ a > 0 /\ t <= issued'
  BY DEF Inv, TypeOK, InvocationRow, Books, Tokens, Ready
<1>2. /\ p \in Proc
      /\ p.phase = "starting" /\ p.inv = i /\ p.token = t
      /\ p.attempt = a /\ p.kids = "none"
  BY <1>1, StartingParts
<1>3. /\ n \in Entry
      /\ n.state = "running" /\ n.proc = e /\ n.token = t /\ n.attempt = a
  BY <1>1, EntryForParts
<1>4. procs' = [procs EXCEPT ![e] = p] /\ entries' = [entries EXCEPT ![i] = n]
  BY DEF Spawned, Starting
<1>5. /\ procs \in [Executor -> Proc] /\ entries \in [Invocation -> Entry \cup {NoEntry}]
  BY DEF Good, HostInv, HostTypeOK
<1> HIDE DEF p, n
<1>6. /\ procs' \in [Executor -> Proc] /\ procs'[e] = p
      /\ \A f \in Executor \ {e} : procs'[f] = procs[f]
      /\ entries' \in [Invocation -> Entry \cup {NoEntry}] /\ entries'[i] = n
      /\ \A j \in Invocation \ {i} : entries'[j] = entries[j]
  BY <1>2, <1>3, <1>4, <1>5
<1>7. \A f \in Executor : Used(f) => f # e /\ procs'[f] = procs[f]
  BY <1>6
<1>8. /\ invocations'[i].status \notin {"unused", "running"}
      /\ \A j \in Invocation \ {i} : invocations'[j] = invocations[j]
      /\ \A f \in Executor : Used(f) /\ procs[f].inv = i =>
           /\ Freed(procs[f])
           /\ procs[f].attempt < a
           /\ ~Holds(invocations'[i], procs[f].token)
  BY DEF Ready
<1>9. /\ \A f \in Executor : Used(f) =>
           LET r   == procs[f]
               row == invocations'[r.inv]
           IN  /\ row.status # "unused"
               /\ r.attempt <= row.attempt
               /\ r.token <= issued'
               /\ Holds(row, r.token) =>
                    /\ r.attempt = row.attempt
                    /\ r.phase = "starting" => row.status = "claimed"
      /\ \A f \in Executor : ~Freed(procs[f]) =>
           /\ procs[f].inv # i /\ procs[f].inv \in Invocation
           /\ invocations'[procs[f].inv] = invocations[procs[f].inv]
      /\ \A j \in Invocation : Running(j)' =>
           j # i /\ Running(j) /\ invocations'[j] = invocations[j]
      /\ Budgeted'
  BY ReadyFacts
<1>10. \A f \in Executor : ~Freed(procs'[f]) => f # e /\ ~Freed(procs[f])
  BY <1>2, <1>6 DEF Freed, Working
<1>11. HostTypeOK'
  BY <1>6 DEF Good, HostInv, HostTypeOK
<1>12. Processes'
  <2>1. ProcFine(p)
    BY <1>1, <1>2 DEF ProcFine, Late
  <2>2. \A f \in Executor : ProcFine(procs'[f])
    BY <1>6, <2>1, ProcFacts
  <2>3. /\ invocations'[i].status # "unused"
        /\ a <= invocations'[i].attempt
        /\ Holds(invocations'[i], t) => invocations'[i].status = "claimed"
    BY <1>1, <1>8 DEF Holds, ActiveStatuses
  <2>4. Launched(e)'
    BY <1>1, <1>2, <1>6, <2>3 DEF Launched
  <2>5. ASSUME NEW f \in Executor \ {e}
        PROVE  Launched(f)'
    BY <1>6, <1>9, <2>5 DEF Launched, Used
  <2> QED BY <2>2, <2>4, <2>5 DEF Processes
<1>13. Unique'
  <2>1. ASSUME NEW f \in Executor, Used(f), procs[f].inv = i
        PROVE  procs[f].attempt # a
    <3>1. procs[f].attempt < a /\ procs[f].attempt \in Nat
      BY <1>8, <2>1, ProcFacts
    <3> QED BY <1>1, <3>1
  <2>2. ASSUME NEW f \in Executor, NEW g \in Executor,
               procs'[f].phase # "unused", procs'[g].phase # "unused",
               procs'[f].inv = procs'[g].inv, procs'[f].attempt = procs'[g].attempt
        PROVE  f = g
    <3>1. CASE f = e
      BY <1>2, <1>6, <2>1, <2>2, <3>1 DEF Used
    <3>2. CASE g = e
      BY <1>2, <1>6, <2>1, <2>2, <3>2 DEF Used
    <3>3. CASE f # e /\ g # e
      BY <1>6, <2>2, <3>3 DEF Good, HostInv, Unique, Used
    <3> QED BY <3>1, <3>2, <3>3
  <2> QED BY <2>2 DEF Unique, Used
<1>14. Named'
  <2> SUFFICES ASSUME NEW j \in Invocation, Running(j)'
               PROVE  LET f == invocations'[j].executor IN
                      /\ f \in Executor /\ procs'[f].phase # "unused"
                      /\ procs'[f].inv = j
                      /\ procs'[f].attempt = invocations'[j].attempt
    BY DEF Named, Used
  <2>1. Running(j) /\ invocations'[j] = invocations[j]
    BY <1>9
  <2> QED BY <1>7, <2>1 DEF Good, HostInv, Named, Used
<1>15. Owned'
  <2> SUFFICES ASSUME NEW f \in Executor, ~Freed(procs'[f])
               PROVE  LET row == invocations'[procs'[f].inv]
                      IN  /\ row.status = "running" /\ row.executor = f
                          /\ procs'[f].phase \in Working =>
                               row.ownershipToken = procs'[f].token
    BY DEF Owned, Freed
  <2>1. f # e /\ ~Freed(procs[f]) /\ procs'[f] = procs[f]
    BY <1>6, <1>10
  <2> QED BY <1>9, <2>1 DEF Good, HostInv, Owned
<1>16. Alone'
  <2> SUFFICES ASSUME NEW f \in Executor, procs'[f].phase \in Late,
                      NEW g \in Executor \ {f}, procs'[g].inv = procs'[f].inv
               PROVE  ~Left(procs'[g])
    BY DEF Alone
  <2>1. ~Freed(procs'[f])
    BY Phases DEF Freed
  <2>2. f # e /\ ~Freed(procs[f]) /\ procs'[f] = procs[f] /\ procs[f].inv # i
    BY <1>6, <1>9, <1>10, <2>1
  <2>3. g # e /\ procs'[g] = procs[g]
    BY <1>2, <1>6, <2>2
  <2> QED BY <2>2, <2>3 DEF Good, HostInv, Alone
<1>17. Recorded'
  <2> SUFFICES ASSUME NEW j \in Invocation, entries'[j].state # "none"
               PROVE  LET f == entries'[j].proc IN
                      /\ procs'[f].phase # "unused" /\ procs'[f].inv = j
                      /\ procs'[f].attempt = entries'[j].attempt
                      /\ entries'[j].token <= issued'
                      /\ Holds(invocations'[j], entries'[j].token) =>
                           invocations'[j].attempt = entries'[j].attempt
    BY DEF Recorded, Used
  <2>1. CASE j = i
    BY <1>1, <1>2, <1>3, <1>6, <2>1
  <2>2. CASE j # i
    <3>1. entries'[j] = entries[j] /\ invocations'[j] = invocations[j]
      BY <1>6, <1>8, <2>2
    <3>2. /\ Used(entries[j].proc) /\ procs[entries[j].proc].inv = j
          /\ procs[entries[j].proc].attempt = entries[j].attempt
          /\ entries[j].token <= issued
          /\ Holds(invocations[j], entries[j].token) =>
               invocations[j].attempt = entries[j].attempt
      BY <3>1 DEF Good, HostInv, Recorded
    <3>3. entries[j].token \in Nat /\ entries[j].proc \in Executor
      BY <1>5, <3>1 DEF Entry, NoEntry
    <3>4. entries[j].token <= issued'
      BY <3>2, <3>3 DEF Ready, Good, Inv, TypeOK
    <3> QED BY <1>7, <3>1, <3>2, <3>3, <3>4 DEF Used
  <2> QED BY <2>1, <2>2
<1>18. Pending'
  <2> SUFFICES ASSUME NEW j \in launching'
               PROVE  /\ invocations'[j].status # "unused"
                      /\ invocations'[j].attempt > 0
                      /\ \A f \in Executor :
                            procs'[f].phase # "unused" /\ procs'[f].inv = j =>
                               procs'[f].attempt # invocations'[j].attempt
    BY DEF Pending, Used
  <2>1. j \in launching /\ j # i /\ j \in Invocation
    BY DEF Good, HostInv, HostTypeOK
  <2>2. invocations'[j] = invocations[j]
    BY <1>8, <2>1
  <2> QED BY <1>2, <1>6, <2>1, <2>2 DEF Good, HostInv, Pending, Used
<1>19. TodoDead'
  BY DEF TodoDead, Idle
<1>20. Aimed'
  BY <1>7 DEF Good, HostInv, Aimed, Used
<1>21. FewEntries'
  <2>1. {j \in Invocation : entries'[j].state # "none"}
          \subseteq {j \in Invocation : entries[j].state # "none"} \cup {i}
    BY <1>6
  <2>2. IsFiniteSet({j \in Invocation : entries[j].state # "none"} \cup {i})
    BY FS_AddElement DEF Good, HostInv, FewEntries
  <2> QED BY <2>1, <2>2, FS_Subset DEF FewEntries
<1> QED BY <1>9, <1>11, <1>12, <1>13, <1>14, <1>15, <1>16, <1>17, <1>18, <1>19,
           <1>20, <1>21 DEF HostInv

\* A process with the phase it goes on to.
LEMMA PhaseParts ==
    ASSUME NEW p \in Proc, NEW x \in LivePhases
    PROVE  LET q == [p EXCEPT !.phase = x]
           IN  /\ q \in Proc /\ q.phase = x /\ q.inv = p.inv /\ q.token = p.token
               /\ q.attempt = p.attempt /\ q.kids = p.kids /\ q.ran = p.ran
BY DEF Proc

\* An executor that begins the run it was launched for keeps the invariant.
LEMMA BeginKeeps ==
    ASSUME Good, Inv', NEW e \in Executor, procs[e].phase = "starting",
           beginInvocation(procs[e].inv, procs[e].token, e),
           procs' = [procs EXCEPT ![e].phase = "preflight"],
           UNCHANGED <<scenario, daemon, crashes, launching,
                       entries, cancel, cancels>>
    PROVE  HostInv'
<1> DEFINE i == procs[e].inv
           p == procs[e]
           q == [p EXCEPT !.phase = "preflight"]
<1>1. /\ p \in Proc /\ ProcFine(p) /\ i \in Invocation
      /\ p.token \in Nat /\ p.attempt \in Nat /\ Used(e)
  BY ProcFacts DEF Used
<1>2. /\ q \in Proc /\ q.phase = "preflight" /\ q.inv = i /\ q.token = p.token
      /\ q.attempt = p.attempt /\ q.kids = p.kids
  BY <1>1, PhaseParts DEF LivePhases
<1>3. procs \in [Executor -> Proc] /\ procs' = [procs EXCEPT ![e] = q]
  BY DEF Good, HostInv, HostTypeOK
<1>4. /\ Idle /\ claim' = claim /\ issued' = issued
      /\ UNCHANGED <<scenario, daemon, crashes, launching, entries, cancel, cancels>>
  BY DEF beginInvocation
<1>5. /\ invocations[i].status = "claimed"
      /\ invocations[i].ownershipToken = p.token
      /\ invocations \in [Invocation -> InvocationRow]
      /\ invocations' = [invocations EXCEPT ![i] =
           [@ EXCEPT !.status = "running", !.leaseUntil = "future",
                     !.executor = e]]
  BY DEF beginInvocation, Good, Inv, TypeOK
<1>6. /\ invocations'[i].status = "running" /\ invocations'[i].executor = e
      /\ invocations'[i].ownershipToken = p.token
      /\ invocations'[i].attempt = invocations[i].attempt
      /\ invocations'[i].maxAttempts = invocations[i].maxAttempts
      /\ \A j \in Invocation \ {i} : invocations'[j] = invocations[j]
  BY <1>1, <1>5 DEF InvocationRow
<1>7. /\ procs' \in [Executor -> Proc] /\ procs'[e] = q
      /\ \A f \in Executor \ {e} : procs'[f] = procs[f]
  BY <1>2, <1>3
<1>8. p.attempt = invocations[i].attempt
  <2>1. Holds(invocations[i], p.token)
    BY <1>5 DEF Holds, ActiveStatuses
  <2> QED BY <1>1, <2>1, ProcFacts DEF Launched
<1>9. \A f \in Executor : /\ procs'[f].inv = procs[f].inv
                          /\ procs'[f].attempt = procs[f].attempt
                          /\ procs'[f].token = procs[f].token
                          /\ Used(f)' <=> Used(f)
                          /\ Left(procs'[f]) => Left(procs[f])
  <2>1. Left(q) => Left(p)
    BY <1>2 DEF Left, LivePhases
  <2> QED BY <1>2, <1>7, <2>1 DEF Used
<1> HIDE DEF q
\* No other process of the run works or has the token.
<1>10. \A f \in Executor : ~Freed(procs[f]) => f # e /\ procs[f].inv # i
  <2> SUFFICES ASSUME NEW f \in Executor, ~Freed(procs[f])
               PROVE  f # e /\ procs[f].inv # i
    OBVIOUS
  <2>1. invocations[procs[f].inv].status = "running"
    BY DEF Good, HostInv, Owned
  <2> QED BY <1>5, <2>1
<1>11. \A f \in Executor \ {e} : Used(f) /\ procs[f].inv = i =>
          ~Holds(invocations'[i], procs[f].token)
  <2> SUFFICES ASSUME NEW f \in Executor \ {e}, Used(f), procs[f].inv = i,
                      procs[f].token = p.token
               PROVE  FALSE
    BY <1>6 DEF Holds
  <2>1. Holds(invocations[i], procs[f].token)
    BY <1>5 DEF Holds, ActiveStatuses
  <2>2. procs[f].attempt = p.attempt
    BY <1>8, <2>1, ProcFacts DEF Launched
  <2> QED BY <1>1, <2>2 DEF Good, HostInv, Unique
<1>12. HostTypeOK'
  BY <1>4, <1>7 DEF Good, HostInv, HostTypeOK
<1>13. Processes'
  <2>1. ProcFine(q)
    BY <1>1, <1>2 DEF ProcFine, Late
  <2>2. \A f \in Executor : ProcFine(procs'[f])
    BY <1>7, <2>1, ProcFacts
  <2>3. Launched(e)'
    <3>1. p.token <= issued
      BY <1>1, ProcFacts DEF Launched
    <3> QED BY <1>2, <1>4, <1>6, <1>7, <1>8, <1>1, <3>1 DEF Launched
  <2>4. ASSUME NEW f \in Executor \ {e}
        PROVE  Launched(f)'
    <3>1. SUFFICES ASSUME Used(f)
                   PROVE  LET r   == procs[f]
                              row == invocations'[r.inv]
                          IN  /\ row.status # "unused"
                              /\ r.attempt <= row.attempt
                              /\ r.token <= issued
                              /\ Holds(row, r.token) =>
                                   /\ r.attempt = row.attempt
                                   /\ r.phase = "starting" => row.status = "claimed"
      BY <1>4, <1>7 DEF Launched, Used
    <3>2. Launched(f) /\ procs[f].inv \in Invocation
      BY <3>1, ProcFacts
    <3>3. CASE procs[f].inv = i
      BY <1>5, <1>6, <1>11, <3>1, <3>2, <3>3 DEF Launched
    <3>4. CASE procs[f].inv # i
      BY <1>6, <3>1, <3>2, <3>4 DEF Launched
    <3> QED BY <3>3, <3>4
  <2> QED BY <2>2, <2>3, <2>4 DEF Processes
<1>14. Unique'
  BY <1>9 DEF Good, HostInv, Unique
<1>15. Named'
  <2> SUFFICES ASSUME NEW j \in Invocation, Running(j)'
               PROVE  LET f == invocations'[j].executor IN
                      /\ f \in Executor /\ procs'[f].phase # "unused"
                      /\ procs'[f].inv = j
                      /\ procs'[f].attempt = invocations'[j].attempt
    BY DEF Named, Used
  <2>1. CASE j = i
    BY <1>2, <1>6, <1>7, <1>8, <2>1
  <2>2. CASE j # i
    <3>1. Running(j) /\ invocations'[j] = invocations[j]
      BY <1>6, <2>2 DEF Running
    <3> QED BY <1>9, <3>1 DEF Good, HostInv, Named, Used
  <2> QED BY <2>1, <2>2
<1>16. Owned'
  <2> SUFFICES ASSUME NEW f \in Executor, ~Freed(procs'[f])
               PROVE  LET row == invocations'[procs'[f].inv]
                      IN  /\ row.status = "running" /\ row.executor = f
                          /\ procs'[f].phase \in Working =>
                               row.ownershipToken = procs'[f].token
    BY DEF Owned, Freed
  <2>1. CASE f = e
    BY <1>2, <1>6, <1>7, <2>1
  <2>2. CASE f # e
    <3>1. procs'[f] = procs[f] /\ ~Freed(procs[f]) /\ procs[f].inv # i
      BY <1>7, <1>10, <2>2
    <3>2. procs[f].inv \in Invocation
      BY <3>1, ProcFacts
    <3>3. invocations'[procs[f].inv] = invocations[procs[f].inv]
      BY <1>6, <3>1, <3>2
    <3> QED BY <3>1, <3>3 DEF Good, HostInv, Owned
  <2> QED BY <2>1, <2>2
<1>17. Alone'
  <2> SUFFICES ASSUME NEW f \in Executor, procs'[f].phase \in Late,
                      NEW g \in Executor \ {f}, procs'[g].inv = procs'[f].inv
               PROVE  ~Left(procs'[g])
    BY DEF Alone
  <2>1. f # e /\ procs'[f] = procs[f]
    BY <1>2, <1>7 DEF Late
  <2> QED BY <1>9, <2>1 DEF Good, HostInv, Alone
<1>18. Recorded'
  <2> SUFFICES ASSUME NEW j \in Invocation, entries[j].state # "none"
               PROVE  LET f == entries[j].proc IN
                      /\ procs'[f].phase # "unused" /\ procs'[f].inv = j
                      /\ procs'[f].attempt = entries[j].attempt
                      /\ entries[j].token <= issued
                      /\ Holds(invocations'[j], entries[j].token) =>
                           invocations'[j].attempt = entries[j].attempt
    BY <1>4 DEF Recorded, Used
  <2>1. /\ Used(entries[j].proc) /\ procs[entries[j].proc].inv = j
        /\ procs[entries[j].proc].attempt = entries[j].attempt
        /\ entries[j].token <= issued
        /\ Holds(invocations[j], entries[j].token) =>
             invocations[j].attempt = entries[j].attempt
    BY DEF Good, HostInv, Recorded
  <2>2. entries[j].proc \in Executor
    BY DEF Good, HostInv, HostTypeOK, Entry, NoEntry
  <2>3. Holds(invocations'[j], entries[j].token) =>
          /\ Holds(invocations[j], entries[j].token)
          /\ invocations'[j].attempt = invocations[j].attempt
    <3>1. CASE j = i
      BY <1>5, <1>6, <3>1 DEF Holds, ActiveStatuses
    <3>2. CASE j # i
      BY <1>6, <3>2
    <3> QED BY <3>1, <3>2
  <2> QED BY <1>9, <2>1, <2>2, <2>3 DEF Used
<1>19. \A j \in Invocation : /\ invocations'[j].attempt = invocations[j].attempt
                             /\ invocations'[j].maxAttempts = invocations[j].maxAttempts
                             /\ invocations'[j].status = "unused" =>
                                  invocations[j].status = "unused"
  BY <1>6
<1>20. Pending'
  <2> SUFFICES ASSUME NEW j \in launching
               PROVE  /\ invocations'[j].status # "unused"
                      /\ invocations'[j].attempt > 0
                      /\ \A f \in Executor :
                            procs'[f].phase # "unused" /\ procs'[f].inv = j =>
                               procs'[f].attempt # invocations'[j].attempt
    BY <1>4 DEF Pending, Used
  <2>1. j \in Invocation
    BY DEF Good, HostInv, HostTypeOK
  <2> QED BY <1>9, <1>19, <2>1 DEF Good, HostInv, Pending, Used
<1>21. TodoDead'
  BY <1>4 DEF TodoDead, Idle
<1>22. Aimed' /\ Budgeted' /\ FewEntries'
  BY <1>4, <1>9, <1>19 DEF Good, HostInv, Aimed, Budgeted, FewEntries, Used
<1> QED BY <1>12, <1>13, <1>14, <1>15, <1>16, <1>17, <1>18, <1>20, <1>21, <1>22
        DEF HostInv

-----------------------------------------------------------------------------
(* What the hosts ask of the ledger                                         *)

\* The row is calm and records no result.
Quieter(row, new) == Calm(row, new) /\ Silent(row, new)

\* A row nothing happens to.
LEMMA SameQuieter ==
    ASSUME NEW row
    PROVE  Quieter(row, row)
BY DEF Quieter, Calm, Silent

\* A run that ends.
LEMMA ClearedCalm ==
    ASSUME NEW row \in InvocationRow, NEW status \in TerminalStatuses
    PROVE  /\ Calm(row, Cleared(row, status))
           /\ status \notin ResultStatuses => Silent(row, Cleared(row, status))
BY Kinds, ClearedParts DEF Calm, Silent

\* A run that waits for a retry, or whose lease, retry time or tree evidence is
\* rewritten.
LEMMA RewrittenQuieter ==
    ASSUME NEW row \in InvocationRow
    PROVE  /\ Quieter(row, Retrying(row))
           /\ Quieter(row, Deferred(row))
           /\ \A x : Quieter(row, [row EXCEPT !.leaseUntil = x])
           /\ \A x : Quieter(row, [row EXCEPT !.retryAt = x])
           /\ \A x : Quieter(row, [row EXCEPT !.treeUnsettled = x])
           /\ \A tree : Quieter(row, WithTreeReport(row, tree))
<1>1. ASSUME NEW x PROVE Quieter(row, [row EXCEPT !.leaseUntil = x])
  BY DEF Quieter, Calm, Silent, InvocationRow
<1>2. ASSUME NEW x PROVE Quieter(row, [row EXCEPT !.retryAt = x])
  BY DEF Quieter, Calm, Silent, InvocationRow
<1>3. ASSUME NEW x PROVE Quieter(row, [row EXCEPT !.treeUnsettled = x])
  BY DEF Quieter, Calm, Silent, InvocationRow
<1>4. Quieter(row, Retrying(row))
  <2> DEFINE new == Retrying(row)
  <2>1. /\ new.status = "retry" /\ new.attempt = row.attempt
        /\ new.maxAttempts = row.maxAttempts
    BY DEF Retrying, InvocationRow
  <2> HIDE DEF new
  <2>2. Quieter(row, new)
    BY <2>1 DEF Quieter, Calm, Silent, ActiveStatuses, ResultStatuses
  <2> QED BY <2>2 DEF new
<1>5. Quieter(row, Deferred(row))
  BY <1>1, <1>2 DEF Deferred
<1>6. ASSUME NEW tree PROVE Quieter(row, WithTreeReport(row, tree))
  BY <1>3, SameQuieter DEF WithTreeReport
<1> QED BY <1>1, <1>2, <1>3, <1>4, <1>5, <1>6

\* A pending run that is deleted.
LEMMA DiscardedQuieter ==
    ASSUME NEW row \in InvocationRow, RowFine(row), row.status = "pending"
    PROVE  Quieter(row, DeletedInvocation(row))
<1> DEFINE new == DeletedInvocation(row)
<1>1. new.status = "deleted" /\ new.attempt = 0 /\ new.maxAttempts = 0
  BY DEF DeletedInvocation, UnusedInvocation
<1>2. row.attempt = 0 /\ 0 <= RetryBudget
  BY LedgerAssumption DEF RowFine
<1> HIDE DEF new
<1>3. Quieter(row, new)
  BY <1>1, <1>2 DEF Quieter, Calm, Silent, ActiveStatuses, ResultStatuses
<1> QED BY <1>3 DEF new

\* A run that is inserted to wait for a claim.
LEMMA EnqueuedQuieter ==
    ASSUME NEW row \in InvocationRow, RowFine(row), row.status = "unused",
           NEW s, NEW n \in {1, RetryBudget}
    PROVE  Quieter(row, [UnusedInvocation EXCEPT !.status = "pending",
                                                 !.scheduleId = s,
                                                 !.maxAttempts = n])
<1> DEFINE new == [UnusedInvocation EXCEPT !.status = "pending",
                                           !.scheduleId = s, !.maxAttempts = n]
<1>1. new.status = "pending" /\ new.attempt = 0 /\ new.maxAttempts = n
  BY DEF UnusedInvocation
<1>2. row.attempt = 0 /\ n <= RetryBudget
  BY LedgerAssumption DEF RowFine, NoRow
<1> HIDE DEF new
<1>3. Quieter(row, new)
  BY <1>1, <1>2 DEF Quieter, Calm, Silent, ActiveStatuses, ResultStatuses
<1> QED BY <1>3 DEF new

\* All rows but one are left alone.
Alters(i) == \A j \in Invocation \ {i} : invocations'[j] = invocations[j]

\* One row is rewritten.
LEMMA OneRow ==
    ASSUME Good, NEW i \in Invocation, NEW new,
           invocations' = [invocations EXCEPT ![i] = new]
    PROVE  Alters(i) /\ invocations'[i] = new
BY DEF Good, Inv, TypeOK, Alters

\* The runs in D fail.
LEMMA FinishedQuieter ==
    ASSUME Good, NEW D, invocations' = FinishedRows(D)
    PROVE  \A j \in Invocation :
              /\ Quieter(invocations[j], invocations'[j])
              /\ j \notin D => invocations'[j] = invocations[j]
<1> SUFFICES ASSUME NEW j \in Invocation
             PROVE  /\ Quieter(invocations[j], invocations'[j])
                    /\ j \notin D => invocations'[j] = invocations[j]
  OBVIOUS
<1>1. invocations[j] \in InvocationRow
  BY RowFacts
<1>2. "failed" \in TerminalStatuses /\ "failed" \notin ResultStatuses
  BY DEF TerminalStatuses, ResultStatuses
<1>3. Quieter(invocations[j], Cleared(invocations[j], "failed"))
  BY <1>1, <1>2, ClearedCalm DEF Quieter
<1> QED BY <1>3, SameQuieter DEF FinishedRows

\* What a probe may answer: nothing but the truth, or "no".
LEMMA Answers ==
    ASSUME NEW b \in BOOLEAN, NEW x \in ProbeAnswers(b)
    PROVE  x \in BOOLEAN /\ (x => b)
BY DEF ProbeAnswers

\* The probes answer about facts.
LEMMA Facts ==
    ASSUME NEW i
    PROVE  TreeGone(i) \in BOOLEAN /\ ExecutorDead(i) \in BOOLEAN
BY DEF TreeGone, ExecutorDead

\* A token that is good was given out.
LEMMA GivenOut ==
    ASSUME Good, NEW i \in Invocation, NEW t, HoldsToken(i, t)
    PROVE  t \in 1..issued
<1>1. /\ invocations[i].ownershipToken \in Nat
      /\ invocations[i].ownershipToken # NoToken
      /\ invocations[i].ownershipToken <= issued /\ issued \in Nat
  BY RowFacts DEF HoldsToken, InvocationRow, Good, Inv, TypeOK
<1> QED BY <1>1 DEF HoldsToken, NoToken

\* A step of a run's holder is a step of the ledger.
LEMMA HolderSteps ==
    ASSUME NEW i \in Invocation, NEW t \in 1..issued,
           \/ \E e \in Executor \cup {None} : beginInvocation(i, t, e)
           \/ renewLease(i, t)
           \/ \E u \in BOOLEAN : recordInvocationTree(i, t, u)
           \/ \E result \in ResultStatuses, settled \in BOOLEAN :
                 completeInvocation(i, t, result, settled)
           \/ \E terminal \in BOOLEAN, settled \in BOOLEAN :
                 failInvocation(i, t, terminal, settled)
    PROVE  Next
BY DEF Next, RunStep

\* What a step is to the hosts that changes at most row i of the ledger.
Asked(i) ==
    /\ Idle /\ UNCHANGED <<claim, issued>>
    /\ UNCHANGED vars \/ Next
    /\ Alters(i) /\ Calm(invocations[i], invocations'[i])

\* A call that fails a run.
LEMMA FailCalls ==
    ASSUME Good, NEW i \in Invocation, NEW t, NEW terminal \in BOOLEAN,
           CallFail(i, t, terminal)
    PROVE  /\ Asked(i) /\ Silent(invocations[i], invocations'[i])
           /\ UNCHANGED vars \/ HoldsToken(i, t)
<1>1. PICK settled \in ProbeAnswers(TreeGone(i)) :
         \/ HoldsToken(i, t) /\ failInvocation(i, t, terminal, settled)
         \/ Idle /\ UNCHANGED vars
  BY DEF CallFail
<1>2. CASE Idle /\ UNCHANGED vars
  BY <1>2, SameQuieter DEF Asked, Alters, Quieter, vars
<1>3. CASE HoldsToken(i, t) /\ failInvocation(i, t, terminal, settled)
  <2>1. settled \in BOOLEAN
    BY Answers, Facts
  <2>2. t \in 1..issued
    BY <1>3, GivenOut
  <2>3. Next
    BY <1>3, <2>1, <2>2, HolderSteps
  <2>4. Idle /\ UNCHANGED <<claim, issued>>
    BY <1>3 DEF failInvocation
  <2>5. invocations[i] \in InvocationRow
    BY RowFacts
  <2>6. Alters(i) /\ Quieter(invocations[i], invocations'[i])
    <3>1. \/ invocations' = FinishedRows({i})
          \/ invocations' = [invocations EXCEPT ![i] = Retrying(invocations[i])]
      BY <1>3 DEF failInvocation, MarkTerminalFailure
    <3>2. CASE invocations' = FinishedRows({i})
      BY <3>2, FinishedQuieter DEF Alters
    <3>3. CASE invocations' = [invocations EXCEPT ![i] = Retrying(invocations[i])]
      BY <2>5, <3>3, OneRow, RewrittenQuieter
    <3> QED BY <3>1, <3>2, <3>3
  <2> QED BY <1>3, <2>3, <2>4, <2>6 DEF Asked, Quieter
<1> QED BY <1>1, <1>2, <1>3

\* A call that records what is left of a run's process tree; it leaves the
\* status of the run.
LEMMA RecordCalls ==
    ASSUME Good, NEW i \in Invocation, NEW t, NEW u \in BOOLEAN,
           CallRecord(i, t, u)
    PROVE  /\ Asked(i) /\ Silent(invocations[i], invocations'[i])
           /\ invocations'[i].status = invocations[i].status
<1>1. CASE Idle /\ UNCHANGED vars
  BY <1>1, SameQuieter DEF Asked, Alters, Quieter, vars
<1>2. CASE HoldsToken(i, t) /\ recordInvocationTree(i, t, u)
  <2>1. Next
    BY <1>2, GivenOut, HolderSteps
  <2>2. invocations[i] \in InvocationRow
    BY RowFacts
  <2>3. invocations' = [invocations EXCEPT ![i] =
                          [invocations[i] EXCEPT !.treeUnsettled = u]]
    BY <1>2 DEF recordInvocationTree
  <2> DEFINE new == [invocations[i] EXCEPT !.treeUnsettled = u]
  <2>4. Alters(i) /\ Quieter(invocations[i], invocations'[i])
    <3>1. Quieter(invocations[i], new)
      BY <2>2, RewrittenQuieter
    <3> HIDE DEF new
    <3>2. Alters(i) /\ invocations'[i] = new
      BY <2>3, OneRow DEF new
    <3> QED BY <3>1, <3>2
  <2>5. invocations'[i].status = invocations[i].status
    BY <2>2, <2>3, OneRow DEF InvocationRow
  <2> QED BY <1>2, <2>1, <2>4, <2>5 DEF Asked, Quieter, recordInvocationTree
<1> QED BY <1>1, <1>2 DEF CallRecord

-----------------------------------------------------------------------------
(* Steps of the hosts                                                       *)

\* If the step records the result of run i, it is a process of that run that
\* does it, when its turn ended with one and nothing else of the run is left.
Earned(i) ==
    /\ invocations'[i].status \in ResultStatuses
    /\ invocations[i].status \notin ResultStatuses
    => \E e \in ProcsOf(i) :
          /\ procs[e].ran /\ procs[e].ok
          /\ procs[e].attempt = invocations[i].attempt
          /\ procs[e].kids = "none"
          /\ \A f \in ProcsOf(i) \ {e} : ~Leftover(f)

\* What is shown of every step of the hosts.
Fits ==
    /\ UNCHANGED vars \/ Next
    /\ Good'
    /\ \A i \in Invocation : Earned(i)

\* A step of the ledger keeps what is known of the ledger.
LEMMA LedgerKeeps ==
    ASSUME Good, UNCHANGED vars \/ Next
    PROVE  Inv' /\ SingleActiveRun'
<1>1. TypeOK /\ SnapshotFresh /\ SingleActiveRun /\ Inv /\ [Next]_vars
  BY DEF Good, Inv
<1>2. Inv'
  BY <1>1, Inductive
<1>3. SingleActiveRun'
  BY <1>1, SingleStep
<1> QED BY <1>2, <1>3

\* A step that rests.
LEMMA RestFits ==
    ASSUME Good, UNCHANGED vars \/ Next, Rests,
           \A i \in Invocation : Earned(i)
    PROVE  Fits
<1>1. Inv' /\ SingleActiveRun'
  BY LedgerKeeps
<1>2. HostInv'
  BY <1>1, RestKeeps
<1> QED BY <1>1, <1>2 DEF Fits, Good

\* A step that asks something of one row of the ledger.
LEMMA AskedFits ==
    ASSUME Good, NEW i \in Invocation, Asked(i), Earned(i),
           Running(i) /\ invocations'[i].status # "running" =>
              Freed(procs'[invocations[i].executor]),
           ProcsRest, HostsRest, CommandsRest
    PROVE  Fits
<1>1. RowsRest
  BY SameQuieter DEF Asked, Alters, RowsRest, Quieter, Running
<1>2. \A j \in Invocation : Earned(j)
  BY DEF Asked, Alters, Earned
<1> QED BY <1>1, <1>2, RestFits DEF Asked, Rests

\* A step that asks nothing of the ledger.
LEMMA LeftAloneFits ==
    ASSUME Good, UNCHANGED vars, ProcsRest, HostsRest, CommandsRest
    PROVE  Fits
<1>1. RowsRest
  BY SameQuieter DEF RowsRest, Quieter, Running, vars
<1>2. \A j \in Invocation : Earned(j)
  BY DEF Earned, vars
<1> QED BY <1>1, <1>2, RestFits DEF Rests

\* No process changes.
LEMMA ProcsAlone ==
    ASSUME Good, UNCHANGED procs
    PROVE  ProcsRest
BY ProcFacts, SameWinds DEF Good, HostInv, HostTypeOK, ProcsRest

\* One process changes.
LEMMA ProcAlone ==
    ASSUME Good, NEW e \in Executor, NEW q, Winds(procs[e], q),
           q.phase \in Late => procs[e].phase \in Late,
           procs' = [procs EXCEPT ![e] = q]
    PROVE  ProcsRest /\ procs'[e] = q
<1>1. procs \in [Executor -> Proc] /\ q \in Proc
  BY DEF Good, HostInv, HostTypeOK, Winds
<1>2. /\ procs' \in [Executor -> Proc] /\ procs'[e] = q
      /\ \A f \in Executor \ {e} : procs'[f] = procs[f]
  BY <1>1
<1>3. \A f \in Executor : Winds(procs[f], procs'[f])
  BY <1>2, ProcFacts, SameWinds
<1> QED BY <1>2, <1>3 DEF ProcsRest

\* The daemon, the commands and the transaction are left alone.
LEMMA CommandsAlone ==
    ASSUME Good, Idle \/ UNCHANGED procs,
           UNCHANGED <<scenario, claim, cancel, cancels>>
    PROVE  CommandsRest
BY DEF Good, HostInv, HostTypeOK, Aimed, CommandsRest, Idle

\* The hosts hold what they held.
LEMMA HostsAlone ==
    ASSUME Good, UNCHANGED <<scenario, daemon, crashes, launching, entries>>
    PROVE  HostsRest
BY DEF Good, HostInv, HostTypeOK, HostsRest, EntryRests

\* One host lets go of a run, or marks its record.
LEMMA HostAlone ==
    ASSUME Good, UNCHANGED <<scenario, daemon, crashes, launching>>,
           NEW i \in Invocation, NEW n \in Entry \cup {NoEntry},
           EntryRests(entries[i], n),
           entries' = [entries EXCEPT ![i] = n]
    PROVE  HostsRest
BY DEF Good, HostInv, HostTypeOK, HostsRest, EntryRests

\* A host lets go of a run, or not.
LEMMA DroppedHosts ==
    ASSUME Good, UNCHANGED <<scenario, daemon, crashes, launching>>,
           NEW i \in Invocation, entries' \in {Dropped(i), entries}
    PROVE  HostsRest
<1>1. NoEntry \in Entry \cup {NoEntry} /\ EntryRests(entries[i], NoEntry)
  BY DEF EntryRests, NoEntry
<1>2. CASE entries' = Dropped(i)
  BY <1>1, <1>2, HostAlone DEF Dropped
<1>3. CASE entries' = entries
  BY <1>3, HostsAlone
<1> QED BY <1>2, <1>3

-----------------------------------------------------------------------------
(* Processes that are ended, killed or cleaned up                           *)

\* What happens to a process in two steps.
LEMMA WindsTwice ==
    ASSUME NEW p, NEW r, NEW q, Winds(p, r), Winds(r, q)
    PROVE  Winds(p, q)
BY DEF Winds

\* A process that has only to exit.
LEMMA LeavingRests ==
    ASSUME Good, NEW e \in Executor, procs[e].phase \in LivePhases,
           procs' = [procs EXCEPT ![e] = Leaving(@)]
    PROVE  /\ ProcsRest
           /\ procs'[e].phase = "leaving" /\ procs'[e].kids = procs[e].kids
<1> DEFINE q == Leaving(procs[e])
<1>1. /\ Winds(procs[e], q) /\ q.phase = "leaving" /\ q.kids = procs[e].kids
  BY ProcFacts, LeavingWinds
<1>2. q.phase \notin Late
  BY <1>1 DEF Late
<1> HIDE DEF q
<1>3. procs' = [procs EXCEPT ![e] = q]
  BY DEF q
<1> QED BY <1>1, <1>2, <1>3, ProcAlone

\* SIGKILL to the group of a process that was launched.
LEMMA KilledRests ==
    ASSUME Good, NEW e \in Executor, Used(e),
           procs' = [procs EXCEPT ![e] = GroupKilled(@)]
    PROVE  ProcsRest /\ Freed(procs'[e])
<1> DEFINE q == GroupKilled(procs[e])
<1>1. Winds(procs[e], q) /\ Freed(q)
  BY ProcFacts, KilledWinds DEF Used
<1>2. q.phase \notin Late
  BY <1>1, Phases DEF Freed
<1> HIDE DEF q
<1>3. procs' = [procs EXCEPT ![e] = q]
  BY DEF q
<1> QED BY <1>1, <1>2, <1>3, ProcAlone

\* The processes after a cleanup of run i: one that found them all leaves
\* nothing of the run but the process that asked for it.
LEMMA TornParts ==
    ASSUME Good, NEW i \in Invocation, NEW self, NEW clean \in BOOLEAN
    PROVE  LET torn == TornDown(i, self, clean)
           IN  /\ torn \in [Executor -> Proc]
               /\ \A e \in Executor : Winds(procs[e], torn[e])
               /\ \A e \in Executor : torn[e].phase \in Late => procs[e].phase \in Late
               /\ clean => \A f \in Executor \ {self} :
                              procs[f].inv = i => ~Left(torn[f])
               /\ self \in Executor => /\ torn[self].phase = procs[self].phase
                                       /\ torn[self].token = procs[self].token
                                       /\ torn[self].ran = procs[self].ran
                                       /\ torn[self].kids \in {procs[self].kids, "none"}
                                       /\ clean /\ procs[self].inv = i =>
                                            torn[self].kids = "none"
<1> DEFINE torn == TornDown(i, self, clean)
<1>1. ASSUME NEW e \in Executor, ~clean \/ procs[e].inv # i
      PROVE  torn[e] = procs[e]
  BY <1>1 DEF TornDown, ProcsOf
<1>2. ASSUME NEW e \in Executor, clean, procs[e].inv = i, e = self
      PROVE  torn[e] = [procs[e] EXCEPT !.kids = "none"]
  BY <1>2 DEF TornDown, ProcsOf
<1>3. ASSUME NEW e \in Executor, clean, procs[e].inv = i, e # self
      PROVE  torn[e] = Gone(procs[e], "none")
  BY <1>3 DEF TornDown, ProcsOf
<1>4. torn = [e \in Executor |-> torn[e]]
  BY DEF TornDown
<1> HIDE DEF torn
<1>5. ASSUME NEW e \in Executor, procs[e].inv = i
      PROVE  procs[e] \in Proc /\ ProcFine(procs[e]) /\ procs[e].phase # "unused"
  BY <1>5, ProcFacts, HostAssumption DEF ProcFine, UnusedProc
<1>6. ASSUME NEW e \in Executor, procs[e].inv = i
      PROVE  /\ Winds(procs[e], Gone(procs[e], "none"))
             /\ Gone(procs[e], "none").phase = "gone"
             /\ Gone(procs[e], "none").kids = "none"
  BY <1>5, <1>6, GoneWinds
<1>7. ASSUME NEW e \in Executor, procs[e].inv = i
      PROVE  LET q == [procs[e] EXCEPT !.kids = "none"]
             IN  /\ Winds(procs[e], q) /\ q.phase = procs[e].phase
                 /\ q.kids = "none" /\ q.token = procs[e].token
                 /\ q.ran = procs[e].ran
  BY <1>5, <1>7, RidWinds
<1>8. ASSUME NEW e \in Executor
      PROVE  Winds(procs[e], torn[e]) /\ (torn[e].phase \in Late => procs[e].phase \in Late)
  <2>1. CASE ~clean \/ procs[e].inv # i
    BY <1>1, <2>1, ProcFacts, SameWinds
  <2>2. CASE clean /\ procs[e].inv = i /\ e = self
    BY <1>2, <1>7, <2>2
  <2>3. CASE clean /\ procs[e].inv = i /\ e # self
    <3>1. torn[e] = Gone(procs[e], "none")
      BY <1>3, <2>3
    <3>2. "gone" \notin Late
      BY DEF Late
    <3> QED BY <1>6, <2>3, <3>1, <3>2
  <2> QED BY <2>1, <2>2, <2>3
<1>9. torn \in [Executor -> Proc]
  BY <1>4, <1>8 DEF Winds
<1>10. ASSUME clean, NEW f \in Executor \ {self}, procs[f].inv = i
       PROVE  ~Left(torn[f])
  BY <1>3, <1>6, <1>10 DEF Left, LivePhases
<1>11. ASSUME self \in Executor
       PROVE  /\ torn[self].phase = procs[self].phase
              /\ torn[self].token = procs[self].token
              /\ torn[self].ran = procs[self].ran
              /\ torn[self].kids \in {procs[self].kids, "none"}
              /\ clean /\ procs[self].inv = i => torn[self].kids = "none"
  BY <1>1, <1>2, <1>7, <1>11
<1> QED BY <1>8, <1>9, <1>10, <1>11 DEF torn

-----------------------------------------------------------------------------
(* The executors                                                            *)

\* The run of a process that works is running, and its own; the attempt is the
\* present one.
LEMMA WorkingFacts ==
    ASSUME Good, NEW e \in Executor, procs[e].phase \in Working
    PROVE  LET i == procs[e].inv
           IN  /\ i \in Invocation /\ Used(e) /\ Running(i)
               /\ invocations[i].executor = e
               /\ procs[e].attempt = invocations[i].attempt
<1>1. ~Freed(procs[e])
  BY DEF Freed
<1>2. procs[e].inv \in Invocation /\ Used(e)
  BY <1>1, ProcFacts
<1>3. Running(procs[e].inv) /\ invocations[procs[e].inv].executor = e
  BY <1>1 DEF Good, HostInv, Owned, Running
<1>4. procs[e].attempt = invocations[procs[e].inv].attempt
  BY <1>2, <1>3 DEF Good, HostInv, Named
<1> QED BY <1>2, <1>3, <1>4

\* The executor begins its run, or finds that it lost the claim.
LEMMA BeginFits ==
    ASSUME Good, NEW e \in Executor, begin(e), UNCHANGED scenario
    PROVE  Fits
<1> DEFINE i == procs[e].inv
           t == procs[e].token
<1>1. /\ procs[e].phase = "starting" /\ Used(e) /\ i \in Invocation
      /\ UNCHANGED <<scenario, daemon, crashes, launching, entries, cancel, cancels>>
  BY ProcFacts DEF begin, Used
<1>2. CASE /\ invocations[i].status = "claimed"
           /\ invocations[i].ownershipToken = t
  <2>1. beginInvocation(i, t, e) /\ procs' = [procs EXCEPT ![e].phase = "preflight"]
    BY <1>2 DEF begin
  <2>2. HoldsToken(i, t)
    BY <1>2 DEF HoldsToken, Active, ActiveStatuses
  <2>3. Next
    BY <1>1, <2>1, <2>2, GivenOut, HolderSteps
  <2>4. Inv' /\ SingleActiveRun'
    BY <2>3, LedgerKeeps
  <2>5. HostInv'
    BY <1>1, <2>1, <2>4, BeginKeeps
  <2>6. \A j \in Invocation : Earned(j)
    <3>1. \A j \in Invocation \ {i} : invocations'[j] = invocations[j]
      BY <2>1 DEF beginInvocation, Good, Inv, TypeOK
    <3>2. invocations'[i].status = "running"
      BY <1>1, <2>1 DEF beginInvocation, Good, Inv, TypeOK, InvocationRow
    <3> QED BY <3>1, <3>2 DEF Earned, ResultStatuses
  <2> QED BY <2>3, <2>4, <2>5, <2>6 DEF Fits, Good
<1>3. CASE ~(/\ invocations[i].status = "claimed"
             /\ invocations[i].ownershipToken = t)
  <2>1. Idle /\ UNCHANGED vars /\ procs' = [procs EXCEPT ![e] = Leaving(@)]
    BY <1>3 DEF begin
  <2>2. ProcsRest
    BY <1>1, <2>1, LeavingRests DEF LivePhases
  <2>3. HostsRest /\ CommandsRest
    BY <1>1, <2>1, HostsAlone, CommandsAlone DEF vars
  <2> QED BY <2>1, <2>2, <2>3, LeftAloneFits
<1> QED BY <1>2, <1>3

\* An executor that gives its run up before its turn.
LEMMA RefuseFits ==
    ASSUME Good, NEW e \in Executor, refuseUnidentified(e) \/ refuse(e),
           UNCHANGED scenario
    PROVE  Fits
<1> DEFINE i == procs[e].inv
<1>1. /\ procs[e].phase \in {"starting", "refused"}
      /\ procs' = [procs EXCEPT ![e] = Leaving(@)]
      /\ UNCHANGED <<scenario, daemon, crashes, launching, entries, cancel, cancels>>
  BY DEF refuseUnidentified, refuse
<1>2. PICK terminal \in BOOLEAN : CallFail(i, procs[e].token, terminal)
  BY DEF refuseUnidentified, refuse
<1>3. Used(e) /\ i \in Invocation /\ procs[e].kids = "none"
  BY <1>1, ProcFacts DEF Used, ProcFine
<1>4. /\ Asked(i) /\ Silent(invocations[i], invocations'[i])
      /\ UNCHANGED vars \/ HoldsToken(i, procs[e].token)
  BY <1>2, <1>3, FailCalls
<1>5. ProcsRest /\ procs'[e].phase = "leaving" /\ procs'[e].kids = procs[e].kids
  BY <1>1, LeavingRests DEF LivePhases
<1>6. ASSUME Running(i), invocations'[i].status # "running"
      PROVE  Freed(procs'[invocations[i].executor])
  <2>1. HoldsToken(i, procs[e].token)
    BY <1>4, <1>6 DEF vars, Running
  <2>2. Holds(invocations[i], procs[e].token)
    BY <2>1 DEF HoldsToken, Holds, Active
  <2>3. procs[e].phase = "refused"
    BY <1>1, <1>3, <1>6, <2>2, ProcFacts DEF Launched, Running
  <2>4. invocations[i].executor = e
    BY <2>3, WorkingFacts DEF Working
  <2> QED BY <1>3, <1>5, <2>4 DEF Freed, Working
<1>7. HostsRest /\ CommandsRest
  BY <1>1, <1>4, HostsAlone, CommandsAlone DEF Asked
<1>8. Earned(i)
  BY <1>4 DEF Earned, Silent
<1> QED BY <1>3, <1>4, <1>5, <1>6, <1>7, <1>8, AskedFits

\* The cleanup before the turn.
LEMMA PreflightFits ==
    ASSUME Good, NEW e \in Executor, preflight(e), UNCHANGED scenario
    PROVE  Fits
<1> DEFINE i == procs[e].inv
<1>1. /\ procs[e].phase = "preflight"
      /\ UNCHANGED <<scenario, daemon, crashes, launching, entries, cancel, cancels>>
  BY DEF preflight
<1>2. PICK clean \in BOOLEAN :
        /\ CallRecord(i, procs[e].token, ~clean)
        /\ procs' = [TornDown(i, e, clean) EXCEPT
                       ![e].phase = IF clean THEN "turn" ELSE "refused",
                       ![e].ran = clean]
  BY DEF preflight
<1>3. Used(e) /\ i \in Invocation /\ procs[e].kids = "none"
  BY <1>1, ProcFacts DEF Used, ProcFine
<1>4. (~clean) \in BOOLEAN
  OBVIOUS
<1>5. /\ Asked(i) /\ Silent(invocations[i], invocations'[i])
      /\ invocations'[i].status = invocations[i].status
  BY <1>2, <1>3, <1>4, RecordCalls
<1> DEFINE torn == TornDown(i, e, clean)
           x == IF clean THEN "turn" ELSE "refused"
           q == [torn[e] EXCEPT !.phase = x, !.ran = clean]
<1>6. /\ torn \in [Executor -> Proc]
      /\ \A f \in Executor : Winds(procs[f], torn[f])
      /\ \A f \in Executor : torn[f].phase \in Late => procs[f].phase \in Late
      /\ clean => \A f \in Executor \ {e} : procs[f].inv = i => ~Left(torn[f])
      /\ torn[e].phase = "preflight" /\ torn[e].token = procs[e].token
      /\ torn[e].kids = "none"
  BY <1>1, <1>3, TornParts
<1> HIDE DEF torn
<1>7. x \in {"turn", "refused"} /\ (x = "turn" <=> clean)
  OBVIOUS
<1> HIDE DEF x
<1>8. q \in Proc
  BY <1>6, <1>7 DEF Proc, LivePhases
<1>9. /\ q.phase = x /\ q.ran = clean /\ q.inv = torn[e].inv
      /\ q.token = torn[e].token /\ q.attempt = torn[e].attempt
      /\ q.kids = torn[e].kids
  BY <1>6 DEF Proc
<1>10. procs' = [torn EXCEPT ![e] = q]
  BY <1>2 DEF torn, x
<1> HIDE DEF q
<1>11. /\ procs'[e] = q /\ \A f \in Executor \ {e} : procs'[f] = torn[f]
       /\ procs' \in [Executor -> Proc]
  BY <1>6, <1>8, <1>10
<1>12. Winds(procs[e], torn[e])
  BY <1>6
<1>13. ProcFine(q)
  <2>1. q.inv \in Invocation /\ q.attempt > 0
    BY <1>3, <1>9, <1>12, ProcFacts DEF Winds, ProcFine, Used
  <2> QED BY <1>6, <1>7, <1>9, <2>1 DEF ProcFine, Late
<1>14. Winds(procs[e], q)
  BY <1>1, <1>6, <1>7, <1>8, <1>9, <1>12, <1>13 DEF Winds, Working, Left, LivePhases
<1>15. ProcsRest
  <2>1. \A f \in Executor : Winds(procs[f], procs'[f])
    BY <1>6, <1>11, <1>14
  <2>2. ASSUME NEW f \in Executor, procs'[f].phase \in Late
        PROVE  \/ procs[f].phase \in Late
               \/ \A g \in Executor \ {f} :
                     procs[g].inv = procs[f].inv => ~Left(procs'[g])
    <3>1. CASE f = e
      <4>1. clean
        BY <1>7, <1>9, <1>11, <2>2, <3>1 DEF Late
      <4> QED BY <1>6, <1>11, <3>1, <4>1
    <3>2. CASE f # e
      BY <1>6, <1>11, <2>2, <3>2
    <3> QED BY <3>1, <3>2
  <2> QED BY <1>11, <2>1, <2>2 DEF ProcsRest
<1>16. HostsRest /\ CommandsRest
  BY <1>1, <1>5, HostsAlone, CommandsAlone DEF Asked
<1>17. Earned(i)
  BY <1>5 DEF Earned
<1> QED BY <1>3, <1>5, <1>15, <1>16, <1>17, AskedFits DEF Running

\* The cleanup after the turn.
LEMMA SettleFits ==
    ASSUME Good, NEW e \in Executor, settle(e), UNCHANGED scenario
    PROVE  Fits
<1> DEFINE i == procs[e].inv
<1>1. /\ procs[e].phase = "settle"
      /\ UNCHANGED <<scenario, daemon, crashes, launching, entries, cancel, cancels>>
  BY DEF settle
<1>2. PICK clean \in BOOLEAN :
        /\ CallRecord(i, procs[e].token, ~clean)
        /\ procs' = [TornDown(i, e, clean) EXCEPT
                       ![e] = IF clean /\ (procs[e].ok \/ ~procs[e].stop)
                              THEN [@ EXCEPT !.phase = "write"]
                              ELSE Leaving(@)]
  BY DEF settle
<1>3. Used(e) /\ i \in Invocation /\ procs[e].ran
  BY <1>1, ProcFacts DEF Used, ProcFine, Late
<1>4. (~clean) \in BOOLEAN
  OBVIOUS
<1>5. /\ Asked(i) /\ Silent(invocations[i], invocations'[i])
      /\ invocations'[i].status = invocations[i].status
  BY <1>2, <1>3, <1>4, RecordCalls
<1> DEFINE torn == TornDown(i, e, clean)
           w == [torn[e] EXCEPT !.phase = "write"]
           q == IF clean /\ (procs[e].ok \/ ~procs[e].stop) THEN w ELSE Leaving(torn[e])
<1>6. /\ torn \in [Executor -> Proc]
      /\ \A f \in Executor : Winds(procs[f], torn[f])
      /\ \A f \in Executor : torn[f].phase \in Late => procs[f].phase \in Late
      /\ torn[e].phase = "settle" /\ torn[e].token = procs[e].token
      /\ torn[e].ran /\ (clean => torn[e].kids = "none")
  BY <1>1, <1>3, TornParts
<1> HIDE DEF torn
<1>7. torn[e] \in Proc /\ ProcFine(torn[e]) /\ Winds(procs[e], torn[e])
  BY <1>6 DEF Winds
<1>8. clean => Winds(torn[e], w)
  <2>1. /\ w \in Proc /\ w.phase = "write" /\ w.inv = torn[e].inv
        /\ w.token = torn[e].token /\ w.attempt = torn[e].attempt
        /\ w.kids = torn[e].kids /\ w.ran = torn[e].ran
    BY <1>7, PhaseParts DEF LivePhases
  <2> HIDE DEF w
  <2>2. clean => ProcFine(w)
    BY <1>6, <1>7, <2>1 DEF ProcFine, Late
  <2> QED BY <1>6, <2>1, <2>2 DEF Winds, Working, Left, LivePhases
<1>9. Winds(torn[e], Leaving(torn[e]))
  BY <1>6, <1>7, LeavingWinds DEF LivePhases
<1>10. Winds(procs[e], q)
  BY <1>7, <1>8, <1>9, WindsTwice
<1>11. procs' = [torn EXCEPT ![e] = q]
  BY <1>2 DEF torn
<1> HIDE DEF q
<1>12. /\ procs'[e] = q /\ \A f \in Executor \ {e} : procs'[f] = torn[f]
       /\ procs' \in [Executor -> Proc]
  BY <1>6, <1>10, <1>11 DEF Winds
<1>13. ProcsRest
  <2>1. \A f \in Executor : Winds(procs[f], procs'[f])
    BY <1>6, <1>10, <1>12
  <2>2. \A f \in Executor : procs'[f].phase \in Late => procs[f].phase \in Late
    BY <1>1, <1>6, <1>12 DEF Late
  <2> QED BY <1>12, <2>1, <2>2 DEF ProcsRest
<1>14. HostsRest /\ CommandsRest
  BY <1>1, <1>5, HostsAlone, CommandsAlone DEF Asked
<1>15. Earned(i)
  BY <1>5 DEF Earned
<1> QED BY <1>3, <1>5, <1>13, <1>14, <1>15, AskedFits DEF Running

\* The last write of an executor: the failure or the result of its run.
LEMMA WriteFits ==
    ASSUME Good, NEW e \in Executor, write(e), UNCHANGED scenario
    PROVE  Fits
<1> DEFINE i == procs[e].inv
           t == procs[e].token
<1>1. /\ procs[e].phase = "write"
      /\ procs' = [procs EXCEPT ![e] = Leaving(@)]
      /\ UNCHANGED <<scenario, daemon, crashes, launching, cancel, cancels>>
  BY DEF write
<1>2. /\ i \in Invocation /\ Used(e) /\ Running(i)
      /\ invocations[i].executor = e
      /\ procs[e].attempt = invocations[i].attempt
  BY <1>1, WorkingFacts DEF Working
<1>3. procs[e].kids = "none" /\ procs[e].ran
  BY <1>1, ProcFacts DEF ProcFine, Late
<1>4. ProcsRest /\ procs'[e].phase = "leaving" /\ procs'[e].kids = "none"
  BY <1>1, <1>3, LeavingRests DEF LivePhases
<1>5. Freed(procs'[invocations[i].executor])
  BY <1>2, <1>4 DEF Freed, Working
<1>6. CASE /\ ~procs[e].ok
           /\ \E terminal \in BOOLEAN : CallFail(i, t, terminal)
           /\ UNCHANGED entries
  <2>1. /\ Asked(i) /\ Silent(invocations[i], invocations'[i])
    BY <1>2, <1>6, FailCalls
  <2>2. HostsRest /\ CommandsRest
    BY <1>1, <1>6, <2>1, HostsAlone, CommandsAlone DEF Asked
  <2>3. Earned(i)
    BY <2>1 DEF Earned, Silent
  <2> QED BY <1>2, <1>4, <1>5, <2>1, <2>2, <2>3, AskedFits
<1>7. CASE procs[e].ok /\ Idle /\ UNCHANGED <<vars, entries>>
  <2>1. HostsRest /\ CommandsRest
    BY <1>1, <1>7, HostsAlone, CommandsAlone DEF vars
  <2> QED BY <1>4, <1>7, <2>1, LeftAloneFits
<1>8. CASE /\ procs[e].ok
           /\ \E result \in ResultStatuses : completeInvocation(i, t, result, FALSE)
           /\ entries' = IF entries[i].proc = e /\ entries[i].timedOut
                         THEN [entries EXCEPT ![i].late = TRUE] ELSE entries
  <2>1. PICK result \in ResultStatuses : completeInvocation(i, t, result, FALSE)
    BY <1>8
  <2>2. HoldsToken(i, t)
    BY <2>1 DEF completeInvocation
  <2>3. Next
    BY <1>2, <2>1, <2>2, GivenOut, HolderSteps
  <2>4. invocations[i] \in InvocationRow
    BY <1>2, RowFacts
  <2>5. Alters(i) /\ Calm(invocations[i], invocations'[i])
    <3> DEFINE new == Cleared(invocations[i], result)
    <3>1. Calm(invocations[i], new)
      BY <2>4, ClearedCalm, Kinds
    <3> HIDE DEF new
    <3>2. Alters(i) /\ invocations'[i] = new
      BY <1>2, <2>1, OneRow DEF completeInvocation, new
    <3> QED BY <3>1, <3>2
  <2>6. Asked(i)
    BY <2>1, <2>3, <2>5 DEF Asked, completeInvocation
  <2>7. Earned(i)
    <3>1. e \in ProcsOf(i)
      BY DEF ProcsOf
    <3>2. \A f \in ProcsOf(i) \ {e} : ~Leftover(f)
      BY <1>1 DEF Good, HostInv, Alone, Late, ProcsOf, Leftover, RootAlive, Left
    <3> QED BY <1>2, <1>3, <1>8, <3>1, <3>2 DEF Earned
  <2>8. HostsRest
    <3>1. CASE entries' = entries
      BY <1>1, <3>1, HostsAlone
    <3>2. CASE /\ entries[i].timedOut
               /\ entries' = [entries EXCEPT ![i].late = TRUE]
      <4> DEFINE n == [entries[i] EXCEPT !.late = TRUE]
      <4>1. entries[i] \in Entry
        BY <1>2, <3>2 DEF Good, HostInv, HostTypeOK, NoEntry
      <4>2. n \in Entry
        BY <4>1 DEF Entry
      <4>3. EntryRests(entries[i], n)
        BY <4>1 DEF Entry, EntryRests
      <4> HIDE DEF n
      <4>4. entries' = [entries EXCEPT ![i] = n]
        BY <3>2 DEF n
      <4> QED BY <1>1, <1>2, <4>2, <4>3, <4>4, HostAlone
    <3> QED BY <1>8, <3>1, <3>2
  <2>9. CommandsRest
    BY <1>1, <2>6, CommandsAlone DEF Asked
  <2> QED BY <1>2, <1>4, <1>5, <2>6, <2>7, <2>8, <2>9, AskedFits
<1> QED BY <1>6, <1>7, <1>8 DEF write

\* A step of one process that asks nothing of the ledger: a tool starts a
\* process, the turn ends, the executor or what it left ends.
LEMMA ProcessFits ==
    ASSUME Good, NEW e \in Executor, UNCHANGED scenario,
           \/ \E k \in {"group", "own"} : runTool(e, k)
           \/ \E ok \in BOOLEAN : endTurn(e, ok)
           \/ executorEnds(e) \/ leftoverEnds(e)
    PROVE  Fits
<1>1. procs[e] \in Proc /\ ProcFine(procs[e])
  BY ProcFacts
<1>2. /\ Idle /\ UNCHANGED vars
      /\ UNCHANGED <<scenario, daemon, crashes, launching, entries, cancel, cancels>>
  BY DEF runTool, endTurn, executorEnds, leftoverEnds
<1>3. HostsRest /\ CommandsRest
  BY <1>2, HostsAlone, CommandsAlone DEF vars
<1>4. ASSUME NEW k \in {"group", "own"}, runTool(e, k)
      PROVE  ProcsRest
  <2> DEFINE q == [procs[e] EXCEPT !.kids = k]
  <2>1. procs[e].phase = "turn" /\ procs' = [procs EXCEPT ![e] = q]
    BY <1>4 DEF runTool
  <2>2. /\ q \in Proc /\ q.phase = "turn" /\ q.inv = procs[e].inv
        /\ q.token = procs[e].token /\ q.attempt = procs[e].attempt
        /\ q.ran = procs[e].ran
    BY <1>1, <2>1 DEF Proc
  <2> HIDE DEF q
  <2>3. ProcFine(q)
    BY <1>1, <2>1, <2>2 DEF ProcFine, Late
  <2>4. Winds(procs[e], q)
    BY <2>1, <2>2, <2>3 DEF Winds, Working, Left, LivePhases
  <2> QED BY <2>1, <2>2, <2>4, ProcAlone
<1>5. ASSUME NEW ok \in BOOLEAN, endTurn(e, ok)
      PROVE  ProcsRest
  <2> DEFINE q == [procs[e] EXCEPT !.phase = "settle", !.ok = ok]
  <2>1. procs[e].phase = "turn" /\ procs' = [procs EXCEPT ![e] = q]
    BY <1>5 DEF endTurn
  <2>2. /\ q \in Proc /\ q.phase = "settle" /\ q.inv = procs[e].inv
        /\ q.token = procs[e].token /\ q.attempt = procs[e].attempt
        /\ q.ran = procs[e].ran /\ q.kids = procs[e].kids
    BY <1>1 DEF Proc, LivePhases
  <2> HIDE DEF q
  <2>3. ProcFine(q)
    BY <1>1, <2>1, <2>2 DEF ProcFine, Late
  <2>4. Winds(procs[e], q)
    BY <2>1, <2>2, <2>3 DEF Winds, Working, Left, LivePhases
  <2>5. q.phase \in Late => procs[e].phase \in Late
    BY <2>1 DEF Late
  <2> QED BY <2>1, <2>4, <2>5, ProcAlone
<1>6. ASSUME executorEnds(e)
      PROVE  ProcsRest
  <2> DEFINE q == Gone(procs[e], procs[e].kids)
  <2>1. procs[e].phase # "unused" /\ procs' = [procs EXCEPT ![e] = q]
    BY <1>6, Phases DEF executorEnds, RootAlive
  <2>2. procs[e].kids \in {"none", "group", "own"}
    BY <1>1 DEF Proc
  <2>3. Winds(procs[e], q) /\ q.phase = "gone"
    BY <1>1, <2>1, <2>2, GoneWinds
  <2> HIDE DEF q
  <2> QED BY <2>1, <2>3, ProcAlone DEF Late
<1>7. ASSUME leftoverEnds(e)
      PROVE  ProcsRest
  <2> DEFINE q == [procs[e] EXCEPT !.kids = "none"]
  <2>1. procs[e].phase # "unused" /\ procs' = [procs EXCEPT ![e] = q]
    BY <1>1, <1>7 DEF leftoverEnds, ProcFine, UnusedProc
  <2>2. Winds(procs[e], q) /\ q.phase = procs[e].phase
    BY <1>1, <2>1, RidWinds
  <2> HIDE DEF q
  <2> QED BY <2>1, <2>2, ProcAlone
<1>8. ProcsRest
  BY <1>4, <1>5, <1>6, <1>7
<1> QED BY <1>2, <1>3, <1>8, LeftAloneFits

\* Every step of an executor fits.
LEMMA ExecutorFits ==
    ASSUME Good, ExecutorStep, UNCHANGED scenario
    PROVE  Fits
<1>1. PICK e \in Executor :
        \/ begin(e) \/ refuseUnidentified(e) \/ preflight(e) \/ refuse(e)
        \/ settle(e) \/ write(e)
        \/ \E k \in {"group", "own"} : runTool(e, k)
        \/ \E ok \in BOOLEAN : endTurn(e, ok)
        \/ executorEnds(e) \/ leftoverEnds(e)
  BY DEF ExecutorStep
<1> QED BY <1>1, BeginFits, RefuseFits, PreflightFits, SettleFits, WriteFits,
           ProcessFits

-----------------------------------------------------------------------------
(* The cancel commands                                                      *)

\* A command that is under way.
CancelRec ==
    [phase : {"killing", "check", "teardown", "finalize"}, inv : Invocation,
     attempt : Nat, proc : Executor \cup {None}, tears : BOOLEAN,
     tree : {"none", "settled", "unsettled"}]

\* A command that is not idle is under way.
LEMMA CancelFacts ==
    ASSUME Good
    PROVE  /\ cancel.phase # "idle" => cancel \in CancelRec /\ cancel.inv \in Invocation
           /\ cancels \in Nat /\ cancels <= scenario.cancels /\ scenario.cancels \in Nat
<1>1. cancel.phase # "idle" => cancel \in CancelRec
  BY DEF Good, HostInv, HostTypeOK, CancelState, NoCancel, CancelRec
<1>2. cancel \in CancelRec => cancel.inv \in Invocation
  BY DEF CancelRec
<1>3. scenario.cancels \in Nat /\ cancels \in 0..scenario.cancels
  BY HostAssumption DEF Good, HostInv, HostTypeOK
<1> QED BY <1>1, <1>2, <1>3

\* A step of a command that kills nobody next.
LEMMA CommandGoesOn ==
    ASSUME Good, Idle, UNCHANGED <<scenario, claim, cancels>>,
           cancel' = NoCancel \/ (cancel' \in CancelRec /\ cancel'.phase # "killing")
    PROVE  CommandsRest
<1>1. cancel' \in CancelState /\ cancel'.phase # "killing"
  BY DEF CancelState, CancelRec, NoCancel
<1> QED BY <1>1 DEF Good, HostInv, HostTypeOK, CommandsRest, Idle

\* A command reads its row.
LEMMA CancelReadFits ==
    ASSUME Good, NEW i \in Invocation, NEW kill \in BOOLEAN, cancelRead(i, kill),
           UNCHANGED scenario
    PROVE  Fits
<1> DEFINE row  == invocations[i]
           x    == IF kill /\ row.status = "running" THEN "killing" ELSE "check"
           b    == kill /\ row.status \in {"claimed", "retry"}
<1>1. /\ Idle /\ cancels < scenario.cancels /\ cancels' = cancels + 1
      /\ cancel' = [phase |-> x, inv |-> i, attempt |-> row.attempt,
                    proc |-> row.executor, tears |-> b, tree |-> "none"]
      /\ UNCHANGED <<vars, daemon, crashes, launching, entries, procs>>
  BY DEF cancelRead
<1>2. row.attempt \in Nat /\ row.executor \in Executor \cup {None}
  BY RowFacts DEF InvocationRow
<1>3. b \in BOOLEAN /\ x \in {"killing", "check"}
  OBVIOUS
<1>4. x = "killing" => row.executor \in Executor /\ Used(row.executor)
  BY DEF Good, HostInv, Named, Running
<1> HIDE DEF x, b
<1>5. cancel' \in CancelRec /\ cancel'.phase = x /\ cancel'.proc = row.executor
  BY <1>1, <1>2, <1>3 DEF CancelRec
<1>6. cancels' \in 0..scenario.cancels
  BY <1>1, CancelFacts
<1>7. cancel' \in CancelState
  BY <1>5 DEF CancelRec, CancelState
<1>8. CommandsRest
  BY <1>1, <1>4, <1>5, <1>6, <1>7 DEF CommandsRest, Idle, vars
<1>9. ProcsRest /\ HostsRest
  BY <1>1, ProcsAlone, HostsAlone
<1> QED BY <1>1, <1>8, <1>9, LeftAloneFits

\* A command kills the executor it read, or fails to.
LEMMA CancelKillFits ==
    ASSUME Good, cancelKill, UNCHANGED scenario
    PROVE  Fits
<1>1. /\ Idle /\ cancel.phase = "killing"
      /\ UNCHANGED <<vars, daemon, crashes, launching, entries, cancels>>
  BY DEF cancelKill
<1>2. cancel \in CancelRec /\ cancel.proc \in Executor /\ Used(cancel.proc)
  BY <1>1, CancelFacts DEF Good, HostInv, Aimed
<1>3. HostsRest
  BY <1>1, HostsAlone
<1>4. CommandsRest
  <2>1. \/ cancel' = NoCancel
        \/ cancel' = [cancel EXCEPT !.phase = "check"]
        \/ cancel' = [cancel EXCEPT !.phase = "check", !.tears = TRUE]
    BY DEF cancelKill
  <2>2. [cancel EXCEPT !.phase = "check"] \in CancelRec
        /\ [cancel EXCEPT !.phase = "check"].phase = "check"
    BY <1>2 DEF CancelRec
  <2>3. [cancel EXCEPT !.phase = "check", !.tears = TRUE] \in CancelRec
        /\ [cancel EXCEPT !.phase = "check", !.tears = TRUE].phase = "check"
    BY <1>2 DEF CancelRec
  <2>4. cancel' = NoCancel \/ (cancel' \in CancelRec /\ cancel'.phase # "killing")
    BY <2>1, <2>2, <2>3
  <2> QED BY <1>1, <2>4, CommandGoesOn DEF vars
<1>5. ProcsRest
  <2>1. CASE procs' = procs
    BY <2>1, ProcsAlone
  <2>2. CASE procs' = [procs EXCEPT ![cancel.proc] = GroupKilled(@)]
    BY <1>2, <2>2, KilledRests
  <2> QED BY <2>1, <2>2 DEF cancelKill
<1> QED BY <1>1, <1>3, <1>4, <1>5, LeftAloneFits

\* A command reads its row again.
LEMMA CancelCheckFits ==
    ASSUME Good, cancelCheck, UNCHANGED scenario
    PROVE  Fits
<1>1. /\ Idle /\ cancel.phase = "check"
      /\ UNCHANGED <<vars, daemon, crashes, launching, entries, procs, cancels>>
  BY DEF cancelCheck
<1> DEFINE x == IF cancel.tears THEN "teardown" ELSE "finalize"
<1>2. cancel' = NoCancel \/ cancel' = [cancel EXCEPT !.phase = x]
  BY DEF cancelCheck
<1>3. x \in {"teardown", "finalize"}
  OBVIOUS
<1> HIDE DEF x
<1>4. cancel \in CancelRec
  BY <1>1, CancelFacts
<1>5. [cancel EXCEPT !.phase = x] \in CancelRec /\ [cancel EXCEPT !.phase = x].phase = x
  BY <1>3, <1>4 DEF CancelRec
<1>6. cancel' = NoCancel \/ (cancel' \in CancelRec /\ cancel'.phase # "killing")
  BY <1>2, <1>3, <1>5
<1>7. CommandsRest
  BY <1>1, <1>6, CommandGoesOn DEF vars
<1>8. ProcsRest /\ HostsRest
  BY <1>1, ProcsAlone, HostsAlone
<1> QED BY <1>1, <1>7, <1>8, LeftAloneFits

\* A command tears down the process tree of its run.
LEMMA CancelTeardownFits ==
    ASSUME Good, cancelTeardown, UNCHANGED scenario
    PROVE  Fits
<1>1. /\ Idle /\ cancel.phase = "teardown"
      /\ UNCHANGED <<vars, daemon, crashes, launching, entries, cancels>>
  BY DEF cancelTeardown
<1>2. PICK clean \in BOOLEAN :
        /\ procs' = TornDown(cancel.inv, None, clean)
        /\ cancel' = [cancel EXCEPT !.phase = "finalize",
                        !.tree = IF clean THEN "settled" ELSE "unsettled"]
  BY DEF cancelTeardown
<1>3. cancel \in CancelRec /\ cancel.inv \in Invocation
  BY <1>1, CancelFacts
<1>4. ProcsRest
  BY <1>2, <1>3, TornParts DEF ProcsRest
<1> DEFINE tree == IF clean THEN "settled" ELSE "unsettled"
<1>5. tree \in {"none", "settled", "unsettled"}
  OBVIOUS
<1>6. cancel' = [cancel EXCEPT !.phase = "finalize", !.tree = tree]
  BY <1>2
<1> HIDE DEF tree
<1>7. cancel' \in CancelRec /\ cancel'.phase = "finalize"
  BY <1>3, <1>5, <1>6 DEF CancelRec
<1>8. CommandsRest
  BY <1>1, <1>7, CommandGoesOn DEF vars
<1>9. HostsRest
  BY <1>1, HostsAlone
<1> QED BY <1>1, <1>4, <1>8, <1>9, LeftAloneFits

\* A command gives its run up, if the executor is dead.
LEMMA CancelFinalizeFits ==
    ASSUME Good, cancelFinalize, UNCHANGED scenario
    PROVE  Fits
<1> DEFINE i   == cancel.inv
           row == invocations[i]
<1>1. /\ Idle /\ cancel.phase = "finalize" /\ cancel' = NoCancel
      /\ UNCHANGED <<daemon, crashes, launching, entries, procs, cancels>>
  BY DEF cancelFinalize
<1>2. cancel \in CancelRec /\ i \in Invocation
  BY <1>1, CancelFacts
<1>3. ProcsRest /\ HostsRest
  BY <1>1, ProcsAlone, HostsAlone
<1>4. CASE UNCHANGED vars
  <2>1. CommandsRest
    BY <1>1, <1>4, CommandGoesOn DEF vars
  <2> QED BY <1>3, <1>4, <2>1, LeftAloneFits
<1>5. CASE \E dead \in IF row.executor = None THEN {FALSE}
                       ELSE ProbeAnswers(ExecutorDead(row.executor)) :
           \E settled \in ProbeAnswers(TreeGone(i)) :
              finalizeCancellation(i, cancel.attempt, FALSE, cancel.tree,
                                   dead, settled)
  <2>1. PICK dead \in IF row.executor = None THEN {FALSE}
                      ELSE ProbeAnswers(ExecutorDead(row.executor)),
             settled \in ProbeAnswers(TreeGone(i)) :
               finalizeCancellation(i, cancel.attempt, FALSE, cancel.tree,
                                    dead, settled)
    BY <1>5
  <2>2. settled \in BOOLEAN
    BY Answers, Facts
  <2>3. dead \in BOOLEAN /\ (dead => ExecutorDead(row.executor))
    BY Answers, Facts
  <2>4. cancel.attempt \in 0..RetryBudget
    <3>1. cancel.attempt = row.attempt
      BY <2>1 DEF finalizeCancellation
    <3>2. row.attempt <= row.maxAttempts /\ row.maxAttempts <= RetryBudget
      BY <1>2, RowFacts DEF RowFine, Good, HostInv, Budgeted
    <3>3. row.attempt \in Nat /\ row.maxAttempts \in Nat /\ RetryBudget \in Nat
      BY <1>2, RowFacts, LedgerAssumption DEF InvocationRow
    <3> QED BY <3>1, <3>2, <3>3
  <2>5. cancel.tree \in {"none", "settled", "unsettled"}
    BY <1>2 DEF CancelRec
  <2>6. Next
    BY <1>2, <2>1, <2>2, <2>3, <2>4, <2>5 DEF Next, CancelStep
  <2>7. Idle /\ UNCHANGED <<claim, issued>>
    BY <2>1 DEF finalizeCancellation
  <2>8. row \in InvocationRow
    BY <1>2, RowFacts
  <2>9. Alters(i) /\ Quieter(row, invocations'[i])
    <3> DEFINE new == WithTreeReport(row, cancel.tree)
    <3>1. \/ invocations' = FinishedRows({i})
          \/ invocations' = [invocations EXCEPT ![i] = new]
      BY <2>1 DEF finalizeCancellation, FinishAsFailed
    <3>2. Quieter(row, new)
      BY <2>8, RewrittenQuieter
    <3> HIDE DEF new
    <3>3. CASE invocations' = FinishedRows({i})
      BY <1>2, <3>3, FinishedQuieter DEF Alters
    <3>4. CASE invocations' = [invocations EXCEPT ![i] = new]
      BY <1>2, <3>2, <3>4, OneRow
    <3> QED BY <3>1, <3>3, <3>4
  <2>10. Asked(i) /\ Earned(i)
    BY <2>6, <2>7, <2>9 DEF Asked, Quieter, Earned, Silent
  <2>11. Running(i) => Freed(procs'[row.executor])
    <3> SUFFICES ASSUME Running(i) PROVE Freed(procs[row.executor])
      BY <1>1
    <3>1. ExecutorDead(row.executor)
      BY <2>1, <2>3 DEF finalizeCancellation, ExecutorBlocksCancel, Running
    <3> QED BY <3>1, Phases DEF ExecutorDead, RootAlive, Freed
  <2>12. CommandsRest
    BY <1>1, <2>7, CommandGoesOn
  <2> QED BY <1>2, <1>3, <2>10, <2>11, <2>12, AskedFits
<1> QED BY <1>4, <1>5 DEF cancelFinalize

\* Every step of a cancel command fits.
LEMMA CancelFits ==
    ASSUME Good, CancelCommandStep, UNCHANGED scenario
    PROVE  Fits
BY CancelReadFits, CancelKillFits, CancelCheckFits, CancelTeardownFits,
   CancelFinalizeFits DEF CancelCommandStep

-----------------------------------------------------------------------------
(* Commands that only write to the ledger, and the clock                    *)

\* A step that rewrites rows and stops no run.
LEMMA QuietFits ==
    ASSUME Good, Next, Idle, UNCHANGED <<claim, issued>>, UNCHANGED hostVars,
           \A i \in Invocation : Quieter(invocations[i], invocations'[i]),
           \A i \in Invocation : Running(i) => invocations'[i].status = "running"
    PROVE  Fits
<1>1. RowsRest
  BY DEF RowsRest, Quieter
<1>2. \A i \in Invocation : Earned(i)
  BY DEF Quieter, Silent, Earned
<1>3. ProcsRest /\ HostsRest /\ CommandsRest
  BY ProcsAlone, HostsAlone, CommandsAlone DEF hostVars
<1> QED BY <1>1, <1>2, <1>3, RestFits DEF Rests

\* A step that rewrites one row and does not stop its run.
LEMMA QuietRowFits ==
    ASSUME Good, Next, Idle, UNCHANGED <<claim, issued>>, UNCHANGED hostVars,
           NEW i \in Invocation, NEW new,
           invocations' = [invocations EXCEPT ![i] = new],
           Quieter(invocations[i], new), Running(i) => new.status = "running"
    PROVE  Fits
<1>1. Alters(i) /\ invocations'[i] = new
  BY OneRow
<1>2. \A j \in Invocation : /\ Quieter(invocations[j], invocations'[j])
                            /\ Running(j) => invocations'[j].status = "running"
  BY <1>1, SameQuieter DEF Alters, Running
<1> QED BY <1>2, QuietFits

\* A step that leaves the rows alone.
LEMMA NoRowFits ==
    ASSUME Good, Next, Idle, UNCHANGED <<invocations, claim, issued>>,
           UNCHANGED hostVars
    PROVE  Fits
BY QuietFits, SameQuieter DEF Running

\* A run that is enqueued.
LEMMA EnqueueFits ==
    ASSUME Good, NEW s \in Schedule, NEW i \in Invocation, NEW n \in {1, RetryBudget},
           enqueueManualInvocation(s, i, n), UNCHANGED hostVars
    PROVE  Fits
<1>1. Next
  BY DEF Next, ManualStep
<1>2. Idle /\ UNCHANGED <<claim, issued>> /\ invocations[i].status = "unused"
  BY DEF enqueueManualInvocation, UnusedIds
<1> DEFINE new == [UnusedInvocation EXCEPT !.status = "pending",
                                           !.scheduleId = s, !.maxAttempts = n]
<1>3. Quieter(invocations[i], new)
  BY <1>2, RowFacts, EnqueuedQuieter
<1>4. invocations' = [invocations EXCEPT ![i] = new]
  BY DEF enqueueManualInvocation
<1> HIDE DEF new
<1> QED BY <1>1, <1>2, <1>3, <1>4, QuietRowFits DEF Running

\* Commands of the user.
LEMMA UserFits ==
    ASSUME Good, userCommand, UNCHANGED scenario
    PROVE  Fits
<1>1. UNCHANGED hostVars
  BY DEF userCommand
<1>2. PICK s \in Schedule :
        \/ \E m \in 0..MaxRoundsCap, next \in Slot, now \in BOOLEAN :
              createSchedule(s, m, next, now)
        \/ resumeSchedule(s)
        \/ \E settled \in SUBSET {i \in RunsOf(s) : TreeGone(i)} :
              pauseSchedule(s, settled)
        \/ \E i \in Invocation : enqueueManualInvocation(s, i, RetryBudget)
  BY DEF userCommand
<1>3. ASSUME NEW m \in 0..MaxRoundsCap, NEW next \in Slot, NEW now \in BOOLEAN,
             createSchedule(s, m, next, now)
      PROVE  Fits
  <2>1. Next
    BY <1>3 DEF Next, ScheduleStep
  <2> QED BY <1>1, <1>3, <2>1, NoRowFits DEF createSchedule
<1>4. CASE resumeSchedule(s)
  <2>1. Next
    BY <1>4 DEF Next, ScheduleStep
  <2> QED BY <1>1, <1>4, <2>1, NoRowFits DEF resumeSchedule
<1>5. ASSUME NEW settled \in SUBSET {i \in RunsOf(s) : TreeGone(i)},
             pauseSchedule(s, settled)
      PROVE  Fits
  <2>1. settled \in SUBSET RunsOf(s)
    OBVIOUS
  <2>2. Next
    BY <1>5, <2>1 DEF Next, ScheduleStep
  <2>3. Idle /\ UNCHANGED <<claim, issued>>
    BY <1>5 DEF pauseSchedule
  <2> DEFINE D == {i \in RunsOf(s) : /\ invocations[i].mode = "scheduled"
                                     /\ invocations[i].status = "retry"
                                     /\ ~TreeBlocks(invocations[i], i \in settled)}
  <2>4. invocations' = FinishedRows(D)
    BY <1>5 DEF pauseSchedule
  <2>5. \A i \in D : invocations[i].status = "retry"
    OBVIOUS
  <2> HIDE DEF D
  <2>6. \A i \in Invocation :
           /\ Quieter(invocations[i], invocations'[i])
           /\ Running(i) => invocations'[i].status = "running"
    BY <2>4, <2>5, FinishedQuieter DEF Running
  <2> QED BY <1>1, <2>2, <2>3, <2>6, QuietFits
<1>6. ASSUME NEW i \in Invocation, enqueueManualInvocation(s, i, RetryBudget)
      PROVE  Fits
  BY <1>1, <1>6, EnqueueFits
<1> QED BY <1>2, <1>3, <1>4, <1>5, <1>6

\* Leases run out, retries and schedules fall due.
LEMMA ClockFits ==
    ASSUME Good, clock, UNCHANGED scenario
    PROVE  Fits
<1>1. UNCHANGED hostVars /\ ClockStep /\ Next
  BY DEF clock, Next
<1>2. ASSUME NEW i \in Invocation, leaseExpires(i)
      PROVE  Fits
  <2> DEFINE new == [invocations[i] EXCEPT !.leaseUntil = "past"]
  <2>1. /\ Idle /\ UNCHANGED <<claim, issued>>
        /\ invocations' = [invocations EXCEPT ![i] = new]
    BY <1>2 DEF leaseExpires
  <2>2. Quieter(invocations[i], new) /\ (Running(i) => new.status = "running")
    BY RowFacts, RewrittenQuieter DEF Running, InvocationRow
  <2> HIDE DEF new
  <2> QED BY <1>1, <2>1, <2>2, QuietRowFits
<1>3. ASSUME NEW i \in Invocation, retryFallsDue(i)
      PROVE  Fits
  <2> DEFINE new == [invocations[i] EXCEPT !.retryAt = "past"]
  <2>1. /\ Idle /\ UNCHANGED <<claim, issued>>
        /\ invocations' = [invocations EXCEPT ![i] = new]
    BY <1>3 DEF retryFallsDue
  <2>2. Quieter(invocations[i], new) /\ (Running(i) => new.status = "running")
    BY RowFacts, RewrittenQuieter DEF Running, InvocationRow
  <2> HIDE DEF new
  <2> QED BY <1>1, <2>1, <2>2, QuietRowFits
<1>4. ASSUME NEW s \in Schedule, nextRunFallsDue(s)
      PROVE  Fits
  BY <1>1, <1>4, NoRowFits DEF nextRunFallsDue
<1> QED BY <1>1, <1>2, <1>3, <1>4 DEF ClockStep

-----------------------------------------------------------------------------
(* Claims and launches                                                      *)

\* A row that is claimed.
LEMMA ClaimedParts ==
    ASSUME NEW row \in InvocationRow, NEW w, NEW a
    PROVE  /\ ClaimedBy(row, w, a).status = "claimed"
           /\ ClaimedBy(row, w, a).attempt = a
           /\ ClaimedBy(row, w, a).ownershipToken = issued + 1
           /\ ClaimedBy(row, w, a).maxAttempts = row.maxAttempts
BY DEF ClaimedBy, InvocationRow

\* A claim records no result.
LEMMA ClaimsEarn ==
    ASSUME NEW i \in Invocation, Claims(i), NEW j \in Invocation
    PROVE  Earned(j)
<1>1. CASE j = i
  BY <1>1 DEF Claims, Earned, ResultStatuses
<1>2. CASE j # i
  BY <1>2 DEF Claims, Earned
<1> QED BY <1>1, <1>2

\* A claim without a launch.
LEMMA ClaimFits ==
    ASSUME Good, Next, NEW i \in Invocation, Claims(i),
           UNCHANGED <<scenario, daemon, crashes, entries, procs, cancel, cancels>>,
           launching' \subseteq launching \cup {i},
           claim'.open => claim.open /\ claim'.todo \subseteq claim.todo
    PROVE  Fits
<1>1. Inv' /\ SingleActiveRun'
  BY LedgerKeeps
<1>2. HostInv'
  BY <1>1, ClaimingKeeps
<1> QED BY <1>1, <1>2, ClaimsEarn DEF Fits, Good

\* A launch, by the daemon or by an inline run.
LEMMA LaunchFits ==
    ASSUME Good, UNCHANGED vars \/ Next, NEW i \in Invocation, Ready(i),
           NEW w \in Worker, NEW e \in FreshProcs,
           procs' = Spawned(i, e, invocations'[i].ownershipToken,
                            invocations'[i].attempt),
           entries' = [entries EXCEPT ![i] =
                         EntryFor(w, e, invocations'[i].ownershipToken,
                                  invocations'[i].attempt)],
           launching' \subseteq launching \ {i},
           UNCHANGED <<scenario, daemon, crashes, cancel, cancels, claim>>, Idle,
           \A j \in Invocation : Earned(j)
    PROVE  Fits
<1>1. Inv' /\ SingleActiveRun'
  BY LedgerKeeps
<1>2. e \in Executor /\ ~Used(e)
  BY DEF FreshProcs, Used
<1>3. HostInv'
  BY <1>1, <1>2, LaunchKeeps
<1> QED BY <1>1, <1>3 DEF Fits, Good

\* An inline run claims the run it enqueued, and launches it unless the spawn
\* throws.
LEMMA InlineClaimFits ==
    ASSUME Good, NEW w \in Worker, NEW i \in Invocation, inlineClaim(w, i),
           UNCHANGED scenario
    PROVE  Fits
<1>1. /\ claimPendingInvocation(i, w)
      /\ UNCHANGED <<scenario, daemon, crashes, launching, cancel, cancels>>
  BY DEF inlineClaim
<1>2. Next
  BY <1>1 DEF Next, ManualStep
<1>3. /\ Idle /\ claim' = claim /\ issued' = issued + 1
      /\ invocations[i].status = "pending"
      /\ invocations' = [invocations EXCEPT ![i] = ClaimedBy(invocations[i], w, 1)]
  BY <1>1 DEF claimPendingInvocation
<1>4. /\ invocations[i] \in InvocationRow /\ invocations[i].attempt = 0
      /\ invocations[i].maxAttempts <= RetryBudget
  BY <1>3, RowFacts DEF RowFine, Good, HostInv, Budgeted
<1>5. /\ Alters(i)
      /\ invocations'[i] = ClaimedBy(invocations[i], w, 1)
  BY <1>3, OneRow
<1>6. /\ invocations'[i].status = "claimed" /\ invocations'[i].attempt = 1
      /\ invocations'[i].ownershipToken = issued + 1
      /\ invocations'[i].maxAttempts = invocations[i].maxAttempts
  BY <1>4, <1>5, ClaimedParts
<1>7. Claims(i)
  BY <1>3, <1>4, <1>5, <1>6 DEF Claims, Alters, Running
<1>8. CASE UNCHANGED <<procs, entries>>
  BY <1>1, <1>2, <1>3, <1>7, <1>8, ClaimFits
<1>9. CASE \E e \in FreshProcs :
              /\ procs' = Spawned(i, e, issued + 1, 1)
              /\ entries' = [entries EXCEPT ![i] = EntryFor(w, e, issued + 1, 1)]
  <2>1. PICK e \in FreshProcs :
           /\ procs' = Spawned(i, e, issued + 1, 1)
           /\ entries' = [entries EXCEPT ![i] = EntryFor(w, e, issued + 1, 1)]
    BY <1>9
  <2>2. i \notin launching
    BY <1>4 DEF Good, HostInv, Pending
  <2>3. launching' \subseteq launching \ {i}
    BY <1>1, <2>2
  <2>4. /\ procs' = Spawned(i, e, invocations'[i].ownershipToken,
                            invocations'[i].attempt)
        /\ entries' = [entries EXCEPT ![i] =
                         EntryFor(w, e, invocations'[i].ownershipToken,
                                  invocations'[i].attempt)]
    BY <1>6, <2>1
  <2> QED BY <1>1, <1>2, <1>3, <1>7, <2>3, <2>4, ClaimReady, ClaimsEarn, LaunchFits
<1> QED BY <1>8, <1>9 DEF inlineClaim

\* Every step of an inline run fits.
LEMMA InlineFits ==
    ASSUME Good, InlineStep, UNCHANGED scenario
    PROVE  Fits
<1>1. ASSUME NEW s \in Schedule, NEW i \in Invocation, inlineEnqueue(s, i)
      PROVE  Fits
  BY <1>1, EnqueueFits DEF inlineEnqueue
<1>2. ASSUME NEW i \in Invocation, inlineGivesUp(i)
      PROVE  Fits
  <2> DEFINE new == DeletedInvocation(invocations[i])
  <2>1. discardPendingInvocation(i) /\ UNCHANGED hostVars
    BY <1>2 DEF inlineGivesUp
  <2>2. /\ Idle /\ UNCHANGED <<claim, issued>>
        /\ invocations[i].status = "pending"
        /\ invocations' = [invocations EXCEPT ![i] = new]
    BY <2>1 DEF discardPendingInvocation
  <2>3. Next
    BY <2>1 DEF Next, ManualStep
  <2>4. Quieter(invocations[i], new)
    BY <2>2, RowFacts, DiscardedQuieter
  <2> HIDE DEF new
  <2> QED BY <2>1, <2>2, <2>3, <2>4, QuietRowFits DEF Running
<1>3. ASSUME NEW i \in Invocation, inlineDies(i)
      PROVE  Fits
  <2>1. /\ Idle /\ UNCHANGED vars /\ entries' = Dropped(i)
        /\ UNCHANGED <<daemon, crashes, launching, procs, cancel, cancels>>
    BY <1>3 DEF inlineDies
  <2>2. ProcsRest /\ HostsRest /\ CommandsRest
    BY <2>1, ProcsAlone, DroppedHosts, CommandsAlone DEF vars
  <2> QED BY <2>1, <2>2, LeftAloneFits
<1>4. ASSUME NEW w \in Worker, NEW i \in Invocation, inlineClaim(w, i)
      PROVE  Fits
  BY <1>4, InlineClaimFits
<1> QED BY <1>1, <1>2, <1>3, <1>4 DEF InlineStep

-----------------------------------------------------------------------------
(* The daemon: its life and the executors it launched                       *)

\* A host's record is of a process that was launched for the run; if its token
\* is still good and the run is running, it is the run's executor.
LEMMA EntryFacts ==
    ASSUME Good, NEW i \in Invocation, entries[i] # NoEntry
    PROVE  /\ entries[i] \in Entry /\ entries[i].proc \in Executor
           /\ Used(entries[i].proc) /\ procs[entries[i].proc].inv = i
           /\ HoldsToken(i, entries[i].token) /\ Running(i) =>
                invocations[i].executor = entries[i].proc
<1>1. entries[i] \in Entry
  BY DEF Good, HostInv, HostTypeOK
<1>2. entries[i].proc \in Executor /\ entries[i].state # "none"
  BY <1>1 DEF Entry
<1> DEFINE e == entries[i].proc
<1>3. /\ Used(e) /\ procs[e].inv = i
      /\ procs[e].attempt = entries[i].attempt
      /\ Holds(invocations[i], entries[i].token) =>
           invocations[i].attempt = entries[i].attempt
  BY <1>2 DEF Good, HostInv, Recorded
<1>4. ASSUME HoldsToken(i, entries[i].token), Running(i)
      PROVE  invocations[i].executor = e
  <2>1. invocations[i].attempt = procs[e].attempt
    BY <1>3, <1>4 DEF HoldsToken, Holds, Active
  <2>2. LET f == invocations[i].executor IN
        /\ f \in Executor /\ Used(f) /\ procs[f].inv = i
        /\ procs[f].attempt = invocations[i].attempt
    BY <1>4 DEF Good, HostInv, Named
  <2> QED BY <1>2, <1>3, <2>1, <2>2 DEF Good, HostInv, Unique
<1> QED BY <1>1, <1>2, <1>3, <1>4

\* Only a record that is there is running, armed or timed out.
LEMMA NoEntryParts ==
    /\ NoEntry.state = "none" /\ ~NoEntry.timedOut /\ NoEntry.worker = None
    /\ None \notin Executor /\ None # Daemon
BY LedgerAssumption, HostAssumption DEF NoEntry

\* The runs the daemon holds.
LEMMA HeldFacts ==
    ASSUME NEW w, NEW i \in Held(w)
    PROVE  i \in Invocation /\ entries[i] # NoEntry
BY DEF Held, NoEntry

\* The daemon starts, dies or lets go of its runs.
LEMMA DaemonLivesFits ==
    ASSUME Good, startDaemon \/ crashDaemon \/ releaseUnconfirmed,
           UNCHANGED scenario
    PROVE  Fits
<1>1. UNCHANGED <<vars, procs, cancel, cancels>>
  BY DEF startDaemon, crashDaemon, releaseUnconfirmed
<1>2. ProcsRest /\ CommandsRest
  BY <1>1, ProcsAlone, CommandsAlone DEF vars
<1>3. /\ scenario \in Scenarios /\ crashes \in 0..scenario.crashes
      /\ scenario.crashes \in Nat
      /\ entries \in [Invocation -> Entry \cup {NoEntry}]
      /\ launching \subseteq Invocation
  BY HostAssumption DEF Good, HostInv, HostTypeOK
<1>4. crashes' \in 0..scenario.crashes
  BY <1>3 DEF startDaemon, crashDaemon, releaseUnconfirmed
<1>5. daemon' \in {"down", "up", "stopping"} /\ launching' \subseteq launching
  BY DEF startDaemon, crashDaemon, releaseUnconfirmed
<1>6. \/ entries' = entries
      \/ entries' = [i \in Invocation |->
            IF entries[i].worker = Daemon THEN NoEntry ELSE entries[i]]
  BY DEF startDaemon, crashDaemon, releaseUnconfirmed
<1>7. /\ entries' \in [Invocation -> Entry \cup {NoEntry}]
      /\ \A i \in Invocation : EntryRests(entries[i], entries'[i])
  BY <1>3, <1>6, NoEntryParts DEF EntryRests
<1>8. HostsRest
  BY <1>3, <1>4, <1>5, <1>7 DEF HostsRest
<1> QED BY <1>1, <1>2, <1>8, LeftAloneFits

\* A host renews the lease of a run it holds.
LEMMA RenewFits ==
    ASSUME Good, NEW i \in Invocation, renewLeases(i), UNCHANGED scenario
    PROVE  Fits
<1> DEFINE t   == entries[i].token
           new == [invocations[i] EXCEPT !.leaseUntil = "future"]
<1>1. renewLease(i, t) /\ UNCHANGED hostVars
  BY DEF renewLeases
<1>2. /\ Idle /\ UNCHANGED <<claim, issued>> /\ HoldsToken(i, t)
      /\ invocations' = [invocations EXCEPT ![i] = new]
  BY <1>1 DEF renewLease
<1>3. Next
  BY <1>1, <1>2, GivenOut, HolderSteps
<1>4. Quieter(invocations[i], new) /\ (Running(i) => new.status = "running")
  BY RowFacts, RewrittenQuieter DEF Running, InvocationRow
<1> HIDE DEF new
<1> QED BY <1>1, <1>2, <1>3, <1>4, QuietRowFits

\* The run timer fires.
LEMMA TimerFits ==
    ASSUME Good, NEW i \in Invocation, maxRunReached(i), UNCHANGED scenario
    PROVE  Fits
<1> DEFINE e == entries[i].proc
           q == [procs[e] EXCEPT !.stop = TRUE]
           n == [entries[i] EXCEPT !.timedOut = TRUE]
<1>1. /\ Idle /\ entries[i].state = "running"
      /\ entries' = [entries EXCEPT ![i] = n]
      /\ procs' = [procs EXCEPT ![e] = q]
      /\ UNCHANGED <<vars, daemon, crashes, launching, cancel, cancels>>
  BY DEF maxRunReached, Signalled
<1>2. /\ entries[i] \in Entry /\ e \in Executor /\ Used(e)
  BY <1>1, EntryFacts, NoEntryParts
<1>3. Winds(procs[e], q) /\ q.phase = procs[e].phase
  BY <1>2, ProcFacts, SignalledWinds DEF Used
<1>4. n \in Entry /\ EntryRests(entries[i], n)
  BY <1>2 DEF Entry, EntryRests
<1> HIDE DEF q, n
<1>5. ProcsRest
  BY <1>1, <1>2, <1>3, ProcAlone
<1>6. HostsRest
  BY <1>1, <1>4, HostAlone
<1>7. CommandsRest
  BY <1>1, CommandsAlone DEF vars
<1> QED BY <1>1, <1>5, <1>6, <1>7, LeftAloneFits

\* SIGKILL to the executor of a run, by the daemon: the run is past its limit
\* and nobody holds it, or the daemon stops.
LEMMA KillFits ==
    ASSUME Good, NEW i \in Invocation, boundOrphans(i) \/ stopKill(i),
           UNCHANGED scenario
    PROVE  Fits
<1>1. /\ Idle
      /\ UNCHANGED <<vars, daemon, crashes, launching, entries, cancel, cancels>>
  BY DEF boundOrphans, stopKill
<1>2. PICK e \in Executor : Used(e) /\ procs' = [procs EXCEPT ![e] = GroupKilled(@)]
  <2>1. CASE boundOrphans(i)
    <3>1. Running(i)
      BY <2>1 DEF boundOrphans, Running
    <3>2. invocations[i].executor \in Executor /\ Used(invocations[i].executor)
      BY <3>1 DEF Good, HostInv, Named
    <3> QED BY <2>1, <3>2 DEF boundOrphans
  <2>2. CASE stopKill(i)
    <3>1. i \in Held(Daemon)
      BY <2>2 DEF stopKill
    <3>2. entries[i].proc \in Executor /\ Used(entries[i].proc)
      BY <3>1, HeldFacts, EntryFacts
    <3> QED BY <2>2, <3>2 DEF stopKill
  <2> QED BY <2>1, <2>2
<1>3. ProcsRest
  BY <1>2, KilledRests
<1>4. HostsRest /\ CommandsRest
  BY <1>1, HostsAlone, CommandsAlone DEF vars
<1> QED BY <1>1, <1>3, <1>4, LeftAloneFits

\* The daemon begins to stop.
LEMMA StopFits ==
    ASSUME Good, stopDaemon, UNCHANGED scenario
    PROVE  Fits
<1>1. /\ Idle /\ daemon' = "stopping"
      /\ UNCHANGED <<vars, crashes, launching, entries, cancel, cancels>>
  BY DEF stopDaemon
<1> DEFINE told(e) == \E i \in Held(Daemon) : entries[i].proc = e
<1>2. procs' = [e \in Executor |->
                  IF told(e) THEN [procs[e] EXCEPT !.stop = TRUE] ELSE procs[e]]
  BY DEF stopDaemon
<1>3. ASSUME NEW e \in Executor, told(e)
      PROVE  Used(e)
  BY <1>3, HeldFacts, EntryFacts
<1> HIDE DEF told
<1>4. ASSUME NEW e \in Executor
      PROVE  Winds(procs[e], procs'[e]) /\ procs'[e].phase = procs[e].phase
  <2>1. CASE told(e)
    <3>1. procs'[e] = [procs[e] EXCEPT !.stop = TRUE]
      BY <1>2, <2>1
    <3>2. procs[e] \in Proc /\ ProcFine(procs[e]) /\ procs[e].phase # "unused"
      BY <1>3, <2>1, ProcFacts DEF Used
    <3> QED BY <3>1, <3>2, SignalledWinds
  <2>2. CASE ~told(e)
    BY <1>2, <2>2, ProcFacts, SameWinds
  <2> QED BY <2>1, <2>2
<1>5. procs' \in [Executor -> Proc]
  BY <1>2, <1>4 DEF Winds
<1>6. ProcsRest
  BY <1>4, <1>5 DEF ProcsRest
<1>7. HostsRest
  BY <1>1 DEF Good, HostInv, HostTypeOK, HostsRest, EntryRests
<1>8. CommandsRest
  BY <1>1, CommandsAlone DEF vars
<1> QED BY <1>1, <1>6, <1>7, <1>8, LeftAloneFits

\* SIGKILL to an executor that is past its limit and its grace; what is left of
\* its group is killed too and, if it is gone, the row is settled.
LEMMA ForceKillFits ==
    ASSUME Good, NEW i \in Invocation, forceKill(i), UNCHANGED scenario
    PROVE  Fits
<1> DEFINE e == entries[i].proc
           t == entries[i].token
<1>1. /\ Idle /\ entries[i].timedOut
      /\ procs' = [procs EXCEPT ![e] = GroupKilled(@)]
      /\ UNCHANGED <<daemon, crashes, launching, cancel, cancels>>
  BY DEF forceKill
<1>2. /\ e \in Executor /\ Used(e)
      /\ HoldsToken(i, t) /\ Running(i) => invocations[i].executor = e
  BY <1>1, EntryFacts, NoEntryParts
<1>3. ProcsRest /\ Freed(procs'[e])
  BY <1>1, <1>2, KilledRests
<1>4. /\ UNCHANGED vars \/ CallFail(i, t, FALSE)
      /\ entries' \in {Dropped(i), entries}
  BY DEF forceKill
<1>5. HostsRest
  BY <1>1, <1>4, DroppedHosts
<1>6. CASE UNCHANGED vars
  BY <1>1, <1>3, <1>5, <1>6, CommandsAlone, LeftAloneFits DEF vars
<1>7. CASE CallFail(i, t, FALSE)
  <2>1. /\ Asked(i) /\ Silent(invocations[i], invocations'[i])
        /\ UNCHANGED vars \/ HoldsToken(i, t)
    BY <1>7, FailCalls
  <2>2. Running(i) /\ invocations'[i].status # "running" =>
          Freed(procs'[invocations[i].executor])
    BY <1>2, <1>3, <2>1 DEF vars, Running
  <2>3. Earned(i) /\ CommandsRest
    BY <1>1, <2>1, CommandsAlone DEF Earned, Silent, Asked
  <2> QED BY <1>3, <1>5, <2>1, <2>2, <2>3, AskedFits
<1> QED BY <1>4, <1>6, <1>7

\* The result of a run that was past its limit is taken back.
LEMMA ReclassifyAsks ==
    ASSUME Good, NEW i \in Invocation, NEW a, NEW settled \in BOOLEAN,
           reclassifyTimedOutInvocation(i, a, settled)
    PROVE  Asked(i) /\ Silent(invocations[i], invocations'[i]) /\ ~Running(i)
<1>1. /\ Idle /\ UNCHANGED <<claim, issued>>
      /\ invocations[i].attempt = a /\ invocations[i].status \in ResultStatuses
  BY DEF reclassifyTimedOutInvocation
<1>2. a \in 0..RetryBudget
  <2>1. a <= invocations[i].maxAttempts /\ invocations[i].maxAttempts <= RetryBudget
    BY <1>1, RowFacts DEF RowFine, Good, HostInv, Budgeted
  <2>2. a \in Nat /\ invocations[i].maxAttempts \in Nat /\ RetryBudget \in Nat
    BY <1>1, RowFacts, LedgerAssumption DEF InvocationRow
  <2> QED BY <2>1, <2>2
<1>3. Next
  BY <1>2 DEF Next, RunStep
<1>4. invocations[i] \in InvocationRow
  BY RowFacts
<1>5. Alters(i) /\ Quieter(invocations[i], invocations'[i])
  <2> DEFINE new == Retrying(invocations[i])
  <2>1. \/ invocations' = FinishedRows({i})
        \/ invocations' = [invocations EXCEPT ![i] = new]
    BY DEF reclassifyTimedOutInvocation, MarkTerminalFailure
  <2>2. Quieter(invocations[i], new)
    BY <1>4, RewrittenQuieter
  <2> HIDE DEF new
  <2>3. CASE invocations' = FinishedRows({i})
    BY <2>3, FinishedQuieter DEF Alters
  <2>4. CASE invocations' = [invocations EXCEPT ![i] = new]
    BY <2>2, <2>4, OneRow
  <2> QED BY <2>1, <2>3, <2>4
<1>6. ~Running(i)
  BY <1>1 DEF Running, ResultStatuses
<1> QED BY <1>1, <1>3, <1>5, <1>6 DEF Asked, Quieter

\* A host sees its executor exit.
LEMMA ExitFits ==
    ASSUME Good, NEW i \in Invocation, onExit(i), UNCHANGED scenario
    PROVE  Fits
<1> DEFINE row == invocations[i]
           t   == entries[i].token
<1>1. /\ Idle /\ entries[i].state = "running"
      /\ UNCHANGED <<daemon, crashes, launching, procs, cancel, cancels>>
  BY DEF onExit
<1>2. ProcsRest
  BY <1>1, ProcsAlone
<1>3. \/ /\ reclassifyTimedOutInvocation(i, entries[i].attempt, TRUE)
         /\ entries' = Dropped(i)
      \/ \E dead \in IF row.status = "running"
                     THEN ProbeAnswers(ExecutorDead(row.executor))
                     ELSE {TRUE} :
            /\ dead /\ CallFail(i, t, FALSE) /\ entries' = Dropped(i)
      \/ /\ UNCHANGED vars
         /\ \/ entries' = Dropped(i)
            \/ entries' = [entries EXCEPT ![i].state = "armed"]
  BY DEF onExit
<1>4. CASE /\ reclassifyTimedOutInvocation(i, entries[i].attempt, TRUE)
           /\ entries' = Dropped(i)
  <2>1. Asked(i) /\ Silent(row, invocations'[i]) /\ ~Running(i)
    BY <1>4, ReclassifyAsks
  <2>2. HostsRest /\ Earned(i) /\ CommandsRest
    BY <1>1, <1>4, <2>1, DroppedHosts, CommandsAlone DEF Earned, Silent, Asked
  <2> QED BY <1>2, <2>1, <2>2, AskedFits
<1>5. ASSUME NEW dead \in IF row.status = "running"
                          THEN ProbeAnswers(ExecutorDead(row.executor))
                          ELSE {TRUE},
             dead, CallFail(i, t, FALSE), entries' = Dropped(i)
      PROVE  Fits
  <2>1. Asked(i) /\ Silent(row, invocations'[i])
    BY <1>5, FailCalls
  <2>2. Running(i) => Freed(procs'[row.executor])
    <3> SUFFICES ASSUME Running(i) PROVE Freed(procs[row.executor])
      BY <1>1
    <3>1. ExecutorDead(row.executor)
      BY <1>5, Facts, Answers DEF Running
    <3> QED BY <3>1, Phases DEF ExecutorDead, RootAlive, Freed
  <2>3. HostsRest /\ Earned(i) /\ CommandsRest
    BY <1>1, <1>5, <2>1, DroppedHosts, CommandsAlone DEF Earned, Silent, Asked
  <2> QED BY <1>2, <2>1, <2>2, <2>3, AskedFits
<1>6. CASE /\ UNCHANGED vars
           /\ \/ entries' = Dropped(i)
              \/ entries' = [entries EXCEPT ![i].state = "armed"]
  <2>1. CommandsRest
    BY <1>1, <1>6, CommandsAlone DEF vars
  <2>2. HostsRest
    <3>1. CASE entries' = Dropped(i)
      BY <1>1, <3>1, DroppedHosts
    <3>2. CASE entries' = [entries EXCEPT ![i].state = "armed"]
      <4> DEFINE n == [entries[i] EXCEPT !.state = "armed"]
      <4>1. entries[i] \in Entry
        BY <1>1, EntryFacts, NoEntryParts
      <4>2. n \in Entry /\ EntryRests(entries[i], n)
        BY <1>1, <4>1 DEF Entry, EntryRests
      <4> HIDE DEF n
      <4>3. entries' = [entries EXCEPT ![i] = n]
        BY <3>2 DEF n
      <4> QED BY <1>1, <4>2, <4>3, HostAlone
    <3> QED BY <1>6, <3>1, <3>2
  <2> QED BY <1>2, <1>6, <2>1, <2>2, LeftAloneFits
<1> QED BY <1>3, <1>4, <1>5, <1>6

\* A daemon that stops settles the row of an executor that is dead.
LEMMA SettleStoppedFits ==
    ASSUME Good, NEW i \in Invocation, settleStopped(i), UNCHANGED scenario
    PROVE  Fits
<1>1. /\ UNCHANGED <<daemon, crashes, launching, procs, cancel, cancels>>
      /\ ExecutorDead(invocations[i].executor)
      /\ CallFail(i, entries[i].token, FALSE)
      /\ entries' \in {Dropped(i), entries}
  BY DEF settleStopped
<1>2. Asked(i) /\ Silent(invocations[i], invocations'[i])
  BY <1>1, FailCalls
<1>3. Freed(procs'[invocations[i].executor])
  BY <1>1, Phases DEF ExecutorDead, RootAlive, Freed
<1>4. ProcsRest /\ HostsRest /\ CommandsRest /\ Earned(i)
  BY <1>1, <1>2, ProcsAlone, DroppedHosts, CommandsAlone DEF Asked, Earned, Silent
<1> QED BY <1>2, <1>3, <1>4, AskedFits

\* The daemon launches a run it claimed, finds that it holds it, or fails it
\* because the spawn throws.
LEMMA DaemonLaunchFits ==
    ASSUME Good, NEW i \in Invocation, launch(i), UNCHANGED scenario
    PROVE  Fits
<1> DEFINE t == invocations[i].ownershipToken
           a == invocations[i].attempt
<1>1. /\ Idle /\ i \in launching /\ launching' = launching \ {i}
      /\ UNCHANGED <<daemon, crashes, cancel, cancels>>
  BY DEF launch
<1>2. \/ UNCHANGED <<vars, entries, procs>>
      \/ \E e \in FreshProcs :
            /\ procs' = Spawned(i, e, t, a)
            /\ entries' = [entries EXCEPT ![i] = EntryFor(Daemon, e, t, a)]
            /\ UNCHANGED vars
      \/ CallFail(i, t, FALSE) /\ UNCHANGED <<entries, procs>>
  BY DEF launch
<1>3. ASSUME UNCHANGED <<entries, procs>>
      PROVE  ProcsRest /\ HostsRest
  BY <1>1, <1>3, ProcsAlone DEF Good, HostInv, HostTypeOK, HostsRest, EntryRests
<1>4. CASE UNCHANGED <<vars, entries, procs>>
  BY <1>1, <1>3, <1>4, CommandsAlone, LeftAloneFits DEF vars
<1>5. ASSUME NEW e \in FreshProcs, procs' = Spawned(i, e, t, a),
             entries' = [entries EXCEPT ![i] = EntryFor(Daemon, e, t, a)],
             UNCHANGED vars
      PROVE  Fits
  <2>1. UNCHANGED <<invocations, issued, claim>>
    BY <1>5 DEF vars
  <2>2. Ready(i)
    BY <1>1, <2>1, PendingReady
  <2>3. \A j \in Invocation : Earned(j)
    BY <2>1 DEF Earned
  <2>4. /\ procs' = Spawned(i, e, invocations'[i].ownershipToken,
                            invocations'[i].attempt)
        /\ entries' = [entries EXCEPT ![i] =
                         EntryFor(Daemon, e, invocations'[i].ownershipToken,
                                  invocations'[i].attempt)]
    BY <1>5, <2>1
  <2>5. Daemon \in Worker
    BY HostAssumption
  <2> QED BY <1>1, <1>5, <2>1, <2>2, <2>3, <2>4, <2>5, LaunchFits
<1>6. CASE CallFail(i, t, FALSE) /\ UNCHANGED <<entries, procs>>
  <2>1. Asked(i) /\ Silent(invocations[i], invocations'[i])
    BY <1>6, FailCalls
  <2>2. ~Running(i)
    BY <1>1 DEF Good, HostInv, Named, Pending
  <2>3. CommandsRest /\ Earned(i)
    BY <1>1, <2>1, CommandsAlone DEF Asked, Earned, Silent
  <2> QED BY <1>3, <1>6, <2>1, <2>2, <2>3, AskedFits
<1> QED BY <1>2, <1>4, <1>5, <1>6


-----------------------------------------------------------------------------
(* The daemon: claimDue                                                     *)

\* What the daemon's limit leaves to claim is a limit of the ledger.
LEMMA LimitLeft ==
    ASSUME Good
    PROVE  (IF Cardinality(Held(Daemon)) >= MaxLimit THEN 0
            ELSE MaxLimit - Cardinality(Held(Daemon))) \in 0..MaxLimit
<1>1. Held(Daemon) \subseteq {i \in Invocation : entries[i].state # "none"}
  BY DEF Held
<1>2. IsFiniteSet(Held(Daemon))
  BY <1>1, FS_Subset DEF Good, HostInv, FewEntries
<1>3. Cardinality(Held(Daemon)) \in Nat
  BY <1>2, FS_CardinalityType
<1> QED BY <1>3, LedgerAssumption

\* Of the runs a worker holds, only those that are claimed or running and past
\* their lease matter to claimDue.
LEMMA HeldMatters ==
    ASSUME NEW w, NEW limit, NEW held, NEW probed, NEW alive,
           beginClaimDue(w, limit, held, probed, alive)
    PROVE  LET own == held \cap {i \in LiveRows : Active(i)}
           IN  /\ ProbeCandidates(own) = ProbeCandidates(held)
               /\ beginClaimDue(w, limit, own, probed, alive)
<1> DEFINE own == held \cap {i \in LiveRows : Active(i)}
           kept(h) == {i \in LiveRows : Active(i) /\ i \in h \cup alive}
<1>1. ProbeCandidates(own) = ProbeCandidates(held)
  BY DEF ProbeCandidates, Active, ActiveStatuses
<1>2. kept(own) = kept(held)
  OBVIOUS
<1>3. beginClaimDue(w, limit, own, probed, alive)
  BY <1>1, <1>2 DEF beginClaimDue
<1> QED BY <1>1, <1>3

\* The first pass of claimDue renews leases and leaves the rows to visit.
LEMMA ClaimDueBegins ==
    ASSUME Good, NEW w, NEW limit, NEW held, NEW probed, NEW alive,
           beginClaimDue(w, limit, held, probed, alive)
    PROVE  /\ Idle /\ issued' = issued
           /\ \A i \in Invocation :
                /\ Quieter(invocations[i], invocations'[i])
                /\ invocations'[i].status = invocations[i].status
           /\ claim'.open => \A i \in claim'.todo :
                i \in Invocation /\ (Running(i) /\ i \in ProbeCandidates(held)
                                       => i \in probed \ alive)
           /\ claim'.open => \A i \in claim'.todo :
                i \in LiveRows /\ (Active(i) => i \notin held)
<1> DEFINE renewed  == {i \in LiveRows : Active(i) /\ i \in held \cup alive}
           deferred == ProbeCandidates(held) \ probed
<1>1. /\ Idle /\ issued' = issued
      /\ invocations' = [i \in Invocation |->
            IF i \in renewed \cup deferred
            THEN [invocations[i] EXCEPT !.leaseUntil = "future"]
            ELSE invocations[i]]
      /\ claim' = claim \/ claim'.todo = LiveRows \ (renewed \cup deferred)
  BY DEF beginClaimDue
<1>2. ASSUME NEW i \in Invocation
      PROVE  /\ Quieter(invocations[i], invocations'[i])
             /\ invocations'[i].status = invocations[i].status
  <2>1. invocations[i] \in InvocationRow
    BY RowFacts
  <2> DEFINE new == [invocations[i] EXCEPT !.leaseUntil = "future"]
  <2>2. Quieter(invocations[i], new) /\ new.status = invocations[i].status
    BY <2>1, RewrittenQuieter DEF InvocationRow
  <2> HIDE DEF renewed, deferred
  <2>3. invocations'[i] = new \/ invocations'[i] = invocations[i]
    BY <1>1
  <2> HIDE DEF new
  <2> QED BY <2>2, <2>3, SameQuieter
<1>3. ASSUME claim'.open, NEW i \in claim'.todo
      PROVE  /\ i \in Invocation /\ i \in LiveRows
             /\ Running(i) /\ i \in ProbeCandidates(held) => i \in probed \ alive
             /\ Active(i) => i \notin held
  <2>1. claim'.todo = LiveRows \ (renewed \cup deferred)
    BY <1>1, <1>3 DEF Idle
  <2>2. Running(i) => Active(i)
    BY DEF Running, Active, ActiveStatuses
  <2> QED BY <2>1, <2>2 DEF LiveRows
<1> QED BY <1>1, <1>2, <1>3

\* A tick of the daemon begins a claimDue.
LEMMA TickFits ==
    ASSUME Good, tick, UNCHANGED scenario
    PROVE  Fits
<1> DEFINE held  == Held(Daemon)
           limit == IF Cardinality(held) >= MaxLimit THEN 0
                    ELSE MaxLimit - Cardinality(held)
<1>1. UNCHANGED hostVars
  BY DEF tick
<1>2. PICK probed \in SUBSET ProbeCandidates(held) :
       \E alive \in SUBSET probed :
         /\ \A i \in probed : (i \notin alive) \in
               ProbeAnswers(ExecutorDead(invocations[i].executor))
         /\ beginClaimDue(Daemon, limit, held, probed, alive)
  BY DEF tick
<1>3. PICK alive \in SUBSET probed :
         /\ \A i \in probed : (i \notin alive) \in
               ProbeAnswers(ExecutorDead(invocations[i].executor))
         /\ beginClaimDue(Daemon, limit, held, probed, alive)
  BY <1>2
<1>4. limit \in 0..MaxLimit
  BY LimitLeft
<1> HIDE DEF limit, held
<1>5. Next
  <2> DEFINE own == held \cap {i \in LiveRows : Active(i)}
  <2>1. /\ probed \in SUBSET ProbeCandidates(own)
        /\ beginClaimDue(Daemon, limit, own, probed, alive)
    BY <1>3, HeldMatters
  <2>2. own \in SUBSET {i \in LiveRows : Active(i)} /\ Daemon \in Worker
    BY HostAssumption
  <2> HIDE DEF own
  <2>3. ClaimDueStep
    BY <1>4, <2>1, <2>2 DEF ClaimDueStep
  <2> QED BY <2>3 DEF Next
<1>6. /\ Idle /\ issued' = issued
      /\ \A i \in Invocation :
           /\ Quieter(invocations[i], invocations'[i])
           /\ invocations'[i].status = invocations[i].status
      /\ claim'.open => \A i \in claim'.todo :
           i \in Invocation /\ (Running(i) /\ i \in ProbeCandidates(held)
                                  => i \in probed \ alive)
      /\ claim'.open => \A i \in claim'.todo :
           i \in LiveRows /\ (Active(i) => i \notin held)
  BY <1>3, ClaimDueBegins
<1>7. RowsRest
  BY <1>6 DEF RowsRest, Quieter, Running
<1>8. ProcsRest /\ HostsRest
  BY <1>1, ProcsAlone, HostsAlone DEF hostVars
<1>9. Inv' /\ SingleActiveRun'
  BY <1>5, LedgerKeeps
<1>10. /\ Processes' /\ Unique' /\ Named' /\ Owned' /\ Alone'
      /\ Recorded' /\ Pending' /\ FewEntries'
  BY <1>7, <1>8, <1>9, ProcessesRest, OwnersRest, RecordsRest
<1>11. HostTypeOK' /\ Aimed'
  BY <1>1 DEF Good, HostInv, HostTypeOK, Aimed, Used, hostVars
<1>12. Budgeted'
  BY <1>7 DEF Budgeted, RowsRest, Calm, Good, HostInv
<1>13. TodoDead'
  <2> SUFFICES ASSUME claim'.open, NEW i \in claim'.todo,
                      invocations'[i].status = "running"
               PROVE  LET e == invocations'[i].executor
                      IN  procs'[e].phase \notin LivePhases
                            /\ procs'[e].kids # "group"
    BY DEF TodoDead, Running, ExecutorDead, RootAlive
  <2> DEFINE e == invocations[i].executor
  <2>1. i \in Invocation /\ i \in LiveRows /\ Running(i)
    BY <1>6 DEF Running
  <2>2. invocations'[i].executor = e
    BY <1>7, <2>1 DEF RowsRest, Calm, ActiveStatuses
  <2>3. e \in Executor
    BY <2>1 DEF Good, HostInv, Named
  <2>4. i \in ProbeCandidates(held)
    BY <1>6, <2>1, <2>3, LedgerAssumption
       DEF ProbeCandidates, Running, Active, ActiveStatuses
  <2>5. i \in probed \ alive
    BY <1>6, <2>1, <2>4
  <2>6. TRUE \in ProbeAnswers(ExecutorDead(e))
    BY <1>3, <2>5
  <2>7. ExecutorDead(e)
    BY <2>6, Facts, Answers
  <2> QED BY <1>1, <2>2, <2>7 DEF hostVars, ExecutorDead, RootAlive
<1>14. HostInv'
  BY <1>10, <1>11, <1>12, <1>13 DEF HostInv
<1>15. \A i \in Invocation : Earned(i)
  BY <1>6 DEF Quieter, Silent, Earned
<1> QED BY <1>5, <1>9, <1>14, <1>15 DEF Fits, Good

\* The row claimDue visits is live; if the run is running, its executor is dead.
LEMMA VisitFacts ==
    ASSUME Good, NEW i, InClaim(i)
    PROVE  /\ i \in Invocation /\ Live(i) /\ claim.open
           /\ claim.worker \in Worker
           /\ Running(i) => Freed(procs[invocations[i].executor])
           /\ Running(i) => ExecutorDead(invocations[i].executor)
<1>1. claim.open /\ i \in claim.todo /\ claim \in Claim
  BY DEF InClaim, Good, Inv, TypeOK
<1>2. i \in Invocation /\ Live(i)
  BY <1>1, TodoLive DEF Good, Inv
<1>3. claim.worker \in Worker
  BY <1>1, OpenClaim
<1>4. Running(i) => ExecutorDead(invocations[i].executor)
  BY <1>1 DEF Good, HostInv, TodoDead
<1>5. ExecutorDead(invocations[i].executor) => Freed(procs[invocations[i].executor])
  BY Phases DEF ExecutorDead, RootAlive, Freed
<1> QED BY <1>1, <1>2, <1>3, <1>4, <1>5

\* The transaction after a row was visited.
LEMMA RowDoneParts ==
    ASSUME Good, claim.open,
           \/ \E i \in Invocation : RowDone(i)
           \/ claim' = [claim EXCEPT !.left = @ - 1]
           \/ \E i \in Invocation : claim' = [claim EXCEPT !.todo = @ \ {i},
                                                           !.left = @ - 1]
    PROVE  claim'.todo \subseteq claim.todo
<1>1. claim \in [open : {TRUE}, worker : Worker, left : Nat, todo : SUBSET Invocation]
  BY OpenClaim DEF Good, Inv, TypeOK
<1> QED BY <1>1 DEF RowDone

\* A step of claimDue's walk that claims nothing.
LEMMA WalkRestFits ==
    ASSUME Good, Next, UNCHANGED hostVars, issued' = issued,
           claim'.open => claim.open /\ claim'.todo \subseteq claim.todo,
           \A i \in Invocation : Quieter(invocations[i], invocations'[i]),
           \A i \in Invocation : Running(i) /\ invocations'[i].status # "running" =>
              Freed(procs[invocations[i].executor])
    PROVE  Fits
<1>1. UNCHANGED <<scenario, daemon, crashes, launching, entries, procs, cancel, cancels>>
  BY DEF hostVars
<1>2. RowsRest
  BY <1>1 DEF RowsRest, Quieter
<1>3. ProcsRest /\ HostsRest
  BY <1>1, ProcsAlone, HostsAlone
<1>4. CommandsRest
  BY <1>1 DEF Good, HostInv, HostTypeOK, Aimed, CommandsRest
<1>5. \A i \in Invocation : Earned(i)
  BY DEF Quieter, Silent, Earned
<1> QED BY <1>2, <1>3, <1>4, <1>5, RestFits DEF Rests

\* claimDue gives a run up, or defers it because its processes are not known to
\* be gone.
LEMMA GivenUpFits ==
    ASSUME Good, NEW i \in Invocation, NEW settled \in ProbeAnswers(TreeGone(i)),
           claimDueAbandon(i, settled) \/ claimDueExhaust(i, settled),
           UNCHANGED hostVars
    PROVE  Fits
<1> DEFINE new == Deferred(invocations[i])
<1>1. settled \in BOOLEAN
  BY Facts, Answers
<1>2. Next
  BY <1>1 DEF Next, ClaimDueStep
<1>3. InClaim(i) /\ RowDone(i) /\ issued' = issued
  BY DEF claimDueAbandon, claimDueExhaust
<1>4. claim.open /\ (Running(i) => Freed(procs[invocations[i].executor]))
  BY <1>3, VisitFacts
<1>5. claim'.todo \subseteq claim.todo
  BY <1>3, <1>4, RowDoneParts
<1>6. Quieter(invocations[i], new)
  BY RowFacts, RewrittenQuieter
<1>7. \/ invocations' = FinishedRows({i})
      \/ invocations' = [invocations EXCEPT ![i] = new]
  BY DEF claimDueAbandon, claimDueExhaust, FinishAsFailed, MarkTerminalFailure
<1> HIDE DEF new
<1>8. \A j \in Invocation : /\ Quieter(invocations[j], invocations'[j])
                            /\ j # i => invocations'[j] = invocations[j]
  <2>1. CASE invocations' = FinishedRows({i})
    BY <2>1, FinishedQuieter
  <2>2. CASE invocations' = [invocations EXCEPT ![i] = new]
    BY <1>6, <2>2, OneRow, SameQuieter DEF Alters
  <2> QED BY <1>7, <2>1, <2>2
<1> QED BY <1>2, <1>3, <1>4, <1>5, <1>8, WalkRestFits DEF Running

\* claimDue reclaims a run, or claims one that waits.
LEMMA ReclaimFits ==
    ASSUME Good, NEW i \in Invocation, claimDueReclaim(i),
           launching' = IF issued' > issued THEN launching \cup {i} ELSE launching,
           UNCHANGED <<scenario, daemon, crashes, entries, procs, cancel, cancels>>
    PROVE  Fits
<1> DEFINE row == invocations[i]
           new == ClaimedBy(row, claim.worker, NextAttempt(i))
<1>1. InClaim(i) /\ claim.open /\ (Running(i) => ExecutorDead(row.executor))
  BY VisitFacts DEF claimDueReclaim
<1>2. Next
  BY DEF Next, ClaimDueStep
<1>3. row \in InvocationRow /\ RowFine(row) /\ row.maxAttempts <= RetryBudget
  BY RowFacts DEF Good, HostInv, Budgeted
<1>4. NextAttempt(i) = row.attempt + 1
  BY <1>3 DEF NextAttempt, RowFine, InvocationRow
<1>5. /\ new.status = "claimed" /\ new.attempt = row.attempt + 1
      /\ new.ownershipToken = issued + 1 /\ new.maxAttempts = row.maxAttempts
  BY <1>3, <1>4, ClaimedParts
<1>6. invocations' = [invocations EXCEPT ![i] = new] /\ issued' = issued + 1
  BY DEF claimDueReclaim
<1> HIDE DEF new
<1>7. Alters(i) /\ invocations'[i] = new
  BY <1>6, OneRow
<1>8. Claims(i)
  BY <1>1, <1>3, <1>5, <1>6, <1>7 DEF Claims, Alters
<1>9. claim'.todo \subseteq claim.todo
  BY <1>1, RowDoneParts DEF claimDueReclaim
<1>10. launching' \subseteq launching \cup {i}
  OBVIOUS
<1> QED BY <1>1, <1>2, <1>8, <1>9, <1>10, ClaimFits

\* claimDue starts a round of a schedule that is due, unless the slot is taken.
LEMMA RoundFits ==
    ASSUME Good, NEW s \in Schedule, NEW i \in Invocation, NEW next \in Slot,
           claimDueSchedule(s, i, next),
           launching' = IF issued' > issued THEN launching \cup {i} ELSE launching,
           UNCHANGED <<scenario, daemon, crashes, entries, procs, cancel, cancels>>
    PROVE  Fits
<1>1. Next
  BY DEF Next, ClaimDueStep
<1>2. claim.open /\ i \in UnusedIds /\ issued \in Nat
  BY DEF claimDueSchedule, Good, Inv, TypeOK
<1>3. CASE SlotTaken(s)
  <2>1. UNCHANGED <<invocations, claim, issued>>
    BY <1>3 DEF claimDueSchedule
  <2>2. UNCHANGED hostVars
    BY <1>2, <2>1 DEF hostVars
  <2> QED BY <1>1, <1>2, <2>1, <2>2, SameQuieter, WalkRestFits DEF Running
<1>4. CASE ~SlotTaken(s)
  <2> DEFINE base == [UnusedInvocation EXCEPT
                        !.scheduleId = s, !.mode = "scheduled",
                        !.scheduledFor = schedules[s].nextRunAt,
                        !.maxAttempts = RetryBudget]
             new  == ClaimedBy(base, claim.worker, 1)
  <2>1. base \in InvocationRow /\ base.maxAttempts = RetryBudget
    <3>1. schedules[s].nextRunAt \in Slot \cup {None} /\ RetryBudget \in Nat
      BY LedgerAssumption DEF Good, Inv, TypeOK, ScheduleRow
    <3> QED BY <3>1, UnusedType DEF InvocationRow, UnusedInvocation
  <2> HIDE DEF base
  <2>2. /\ new.status = "claimed" /\ new.attempt = 1
        /\ new.ownershipToken = issued + 1 /\ new.maxAttempts = RetryBudget
    BY <2>1, ClaimedParts
  <2>3. /\ invocations' = [invocations EXCEPT ![i] = new]
        /\ claim' = [claim EXCEPT !.left = @ - 1] /\ issued' = issued + 1
    BY <1>4 DEF claimDueSchedule, base
  <2> HIDE DEF new
  <2>4. Alters(i) /\ invocations'[i] = new
    BY <2>3, OneRow
  <2>5. invocations[i].attempt = 0 /\ ~Running(i)
    <3>1. invocations[i].status = "unused"
      BY <1>2 DEF UnusedIds
    <3> QED BY <3>1, RowFacts DEF RowFine, Running, NoRow
  <2>6. RetryBudget \in Nat
    BY LedgerAssumption
  <2>7. Claims(i)
    BY <2>2, <2>3, <2>4, <2>5, <2>6 DEF Claims, Alters
  <2>8. claim'.todo \subseteq claim.todo
    BY <1>2, <2>3, RowDoneParts
  <2>9. launching' \subseteq launching \cup {i}
    OBVIOUS
  <2> QED BY <1>1, <1>2, <2>7, <2>8, <2>9, ClaimFits
<1> QED BY <1>3, <1>4

\* claimDue goes on.
LEMMA WalkFits ==
    ASSUME Good, walkClaimDue, UNCHANGED scenario
    PROVE  Fits
<1>1. UNCHANGED <<scenario, daemon, crashes, entries, procs, cancel, cancels>>
  BY DEF walkClaimDue
<1>2. \/ /\ UNCHANGED launching
         /\ \/ commitClaimDue
            \/ \E i \in Invocation :
                  \/ claimDueSkip(i)
                  \/ \E settled \in ProbeAnswers(TreeGone(i)) :
                        claimDueAbandon(i, settled) \/ claimDueExhaust(i, settled)
      \/ \E i \in Invocation :
            /\ launching' = IF issued' > issued THEN launching \cup {i}
                                                ELSE launching
            /\ \/ claimDueReclaim(i)
               \/ \E s \in Schedule, next \in Slot : claimDueSchedule(s, i, next)
  BY DEF walkClaimDue
<1>3. CASE UNCHANGED launching /\ commitClaimDue
  <2>1. ~claim'.open /\ UNCHANGED <<invocations, issued>>
    BY <1>3 DEF commitClaimDue, NoClaim
  <2>2. UNCHANGED hostVars
    BY <1>1, <1>3 DEF hostVars
  <2>3. Next
    BY <1>3 DEF Next, ClaimDueStep
  <2> QED BY <2>1, <2>2, <2>3, SameQuieter, WalkRestFits DEF Running
<1>4. ASSUME UNCHANGED launching, NEW i \in Invocation, claimDueSkip(i)
      PROVE  Fits
  <2>1. InClaim(i) /\ RowDone(i) /\ UNCHANGED <<invocations, issued>>
    BY <1>4 DEF claimDueSkip
  <2>2. UNCHANGED hostVars
    BY <1>1, <1>4 DEF hostVars
  <2>3. Next
    BY <1>4 DEF Next, ClaimDueStep
  <2>4. claim.open /\ claim'.todo \subseteq claim.todo
    BY <2>1, RowDoneParts DEF InClaim
  <2> QED BY <2>1, <2>2, <2>3, <2>4, SameQuieter, WalkRestFits DEF Running
<1>5. ASSUME UNCHANGED launching, NEW i \in Invocation,
             NEW settled \in ProbeAnswers(TreeGone(i)),
             claimDueAbandon(i, settled) \/ claimDueExhaust(i, settled)
      PROVE  Fits
  BY <1>1, <1>5, GivenUpFits DEF hostVars
<1>6. ASSUME NEW i \in Invocation, claimDueReclaim(i),
             launching' = IF issued' > issued THEN launching \cup {i}
                                              ELSE launching
      PROVE  Fits
  BY <1>1, <1>6, ReclaimFits
<1>7. ASSUME NEW i \in Invocation, NEW s \in Schedule, NEW next \in Slot,
             claimDueSchedule(s, i, next),
             launching' = IF issued' > issued THEN launching \cup {i}
                                              ELSE launching
      PROVE  Fits
  BY <1>1, <1>7, RoundFits
<1> QED BY <1>2, <1>3, <1>4, <1>5, <1>6, <1>7

-----------------------------------------------------------------------------
(* Every step, and the theorems                                             *)

\* The daemon.
LEMMA DaemonFits ==
    ASSUME Good, DaemonStep, UNCHANGED scenario
    PROVE  Fits
<1>1. CASE startDaemon \/ crashDaemon \/ releaseUnconfirmed
  BY <1>1, DaemonLivesFits
<1>2. CASE tick
  BY <1>2, TickFits
<1>3. CASE walkClaimDue
  BY <1>3, WalkFits
<1>4. CASE stopDaemon
  BY <1>4, StopFits
<1>5. ASSUME NEW i \in Invocation,
             \/ launch(i) \/ renewLeases(i) \/ maxRunReached(i) \/ forceKill(i)
             \/ onExit(i) \/ boundOrphans(i) \/ stopKill(i) \/ settleStopped(i)
      PROVE  Fits
  <2>1. CASE launch(i)
    BY <2>1, DaemonLaunchFits
  <2>2. CASE renewLeases(i)
    BY <2>2, RenewFits
  <2>3. CASE maxRunReached(i)
    BY <2>3, TimerFits
  <2>4. CASE forceKill(i)
    BY <2>4, ForceKillFits
  <2>5. CASE onExit(i)
    BY <2>5, ExitFits
  <2>6. CASE boundOrphans(i) \/ stopKill(i)
    BY <2>6, KillFits
  <2>7. CASE settleStopped(i)
    BY <2>7, SettleStoppedFits
  <2> QED BY <1>5, <2>1, <2>2, <2>3, <2>4, <2>5, <2>6, <2>7
<1> QED BY <1>1, <1>2, <1>3, <1>4, <1>5 DEF DaemonStep

\* A step of the hosts is a step of the ledger or leaves it alone, keeps what is
\* known of both, and records only results that were earned.
LEMMA HostStepFits ==
    ASSUME Good, [HostNext]_allVars
    PROVE  Fits
<1>1. CASE UNCHANGED allVars
  <2>1. UNCHANGED vars /\ UNCHANGED hostVars
    BY <1>1 DEF allVars
  <2>2. UNCHANGED <<scenario, daemon, crashes, launching, entries, procs, cancel,
                    cancels, claim>>
    BY <2>1 DEF hostVars, vars
  <2>3. ProcsRest /\ HostsRest /\ CommandsRest
    BY <2>2, ProcsAlone, HostsAlone, CommandsAlone
  <2> QED BY <2>1, <2>3, LeftAloneFits
<1>2. CASE HostNext
  <2>1. UNCHANGED scenario
    BY <1>2 DEF HostNext
  <2>2. CASE userCommand
    BY <2>1, <2>2, UserFits
  <2>3. CASE clock
    BY <2>1, <2>3, ClockFits
  <2>4. CASE DaemonStep
    BY <2>1, <2>4, DaemonFits
  <2>5. CASE InlineStep
    BY <2>1, <2>5, InlineFits
  <2>6. CASE ExecutorStep
    BY <2>1, <2>6, ExecutorFits
  <2>7. CASE CancelCommandStep
    BY <2>1, <2>7, CancelFits
  <2> QED BY <1>2, <2>2, <2>3, <2>4, <2>5, <2>6, <2>7 DEF HostNext
<1> QED BY <1>1, <1>2

\* A host starts with an empty ledger, no process and nothing in its map.
LEMMA HostInitGood ==
    ASSUME HostInit
    PROVE  Good
<1>1. Inv /\ SingleActiveRun
  BY Inductive, InitOK DEF HostInit
<1>2. UnusedProc \in Proc /\ UnusedProc.phase = "unused" /\ UnusedProc.kids = "none"
  BY DEF UnusedProc, Proc, NoToken
<1>3. /\ \A e \in Executor : procs[e] = UnusedProc
      /\ \A i \in Invocation : entries[i] = NoEntry
      /\ \A i \in Invocation : invocations[i] = UnusedInvocation
      /\ launching = {} /\ ~claim.open /\ cancel = NoCancel
  BY DEF HostInit, Init, NoClaim
<1>4. HostTypeOK
  <2>1. scenario.crashes \in Nat /\ scenario.cancels \in Nat
    BY HostAssumption DEF HostInit
  <2>2. 0 \in 0..scenario.crashes /\ 0 \in 0..scenario.cancels
    BY <2>1
  <2>3. procs \in [Executor -> Proc] /\ entries \in [Invocation -> Entry \cup {NoEntry}]
    BY <1>2 DEF HostInit
  <2> QED BY <2>2, <2>3 DEF HostInit, HostTypeOK, CancelState
<1>5. Processes
  <2>1. ProcFine(UnusedProc)
    BY <1>2 DEF ProcFine, Late
  <2> QED BY <1>2, <1>3, <2>1 DEF Processes, Launched, Used
<1>6. Unique /\ Alone /\ Owned
  BY <1>2, <1>3, Phases DEF Unique, Used, Alone, Owned, Freed
<1>7. \A i \in Invocation : /\ invocations[i].status = "unused"
                            /\ invocations[i].maxAttempts = 0
  BY <1>3 DEF UnusedInvocation
<1>8. Named /\ Budgeted
  BY <1>7, LedgerAssumption DEF Named, Running, Budgeted
<1>9. Recorded /\ Pending /\ TodoDead /\ Aimed
  BY <1>3 DEF Recorded, NoEntry, Pending, TodoDead, Aimed, NoCancel
<1>10. FewEntries
  <2>1. {i \in Invocation : entries[i].state # "none"} = {}
    BY <1>3 DEF NoEntry
  <2> QED BY <2>1, FS_EmptySet DEF FewEntries
<1> QED BY <1>1, <1>4, <1>5, <1>6, <1>8, <1>9, <1>10 DEF Good, HostInv

\* The invariant of the hosts and the ledger holds in every reachable state.
LEMMA AlwaysGood == HostSpec => []Good
<1>1. HostInit => Good
  BY HostInitGood
<1>2. Good /\ [HostNext]_allVars => Good'
  BY HostStepFits DEF Fits
<1> QED BY <1>1, <1>2, PTL DEF HostSpec

\* Every step of the daemon, the executors, the inline runs and the commands is
\* one of the operations of schedule-store.ts, with a token, an attempt and
\* answers of probes they can have, or leaves the ledger alone.
THEOREM HostsImplementLedger == HostSpec => ImplementsLedger
<1>1. HostInit => Init
  BY DEF HostInit
<1>2. Good /\ [HostNext]_allVars => [UNCHANGED vars \/ Next]_vars
  BY HostStepFits DEF Fits
<1> QED BY <1>1, <1>2, AlwaysGood, PTL DEF HostSpec, ImplementsLedger

\* What is proved of the ledger for callers that may try anything holds of the
\* ledger these hosts share.
THEOREM HostsKeepLedger == HostSpec => Spec
<1>1. HostInit => Init
  BY DEF HostInit
<1>2. Good /\ [HostNext]_allVars => [Next]_vars
  BY HostStepFits DEF Fits
<1> QED BY <1>1, <1>2, AlwaysGood, PTL DEF HostSpec, Spec

\* The daemon's map, the executors and the cancel command are in states they
\* know, and no attempt runs its turn twice, whatever crashes, lost leases,
\* timers and second claims do.
THEOREM NoAttemptTwice == HostSpec => []HostsConsistent
<1>1. Good => HostsConsistent
  <2> SUFFICES ASSUME Good PROVE HostsConsistent
    OBVIOUS
  <2>1. ASSUME NEW e \in Executor, procs[e].ran
        PROVE  Used(e)
    BY <2>1, ProcFacts DEF ProcFine, UnusedProc, Used
  <2>2. TurnOnce
    BY <2>1 DEF TurnOnce, Good, HostInv, Unique
  <2> QED BY <2>2 DEF HostsConsistent, Good, HostInv
<1> QED BY <1>1, AlwaysGood, PTL

\* A turn shares the machine neither with another turn of its schedule, or what
\* one left in its group, nor with anything an earlier attempt of its run left.
THEOREM TurnsStayApart == HostSpec => []TurnsApart
<1>1. Good => TurnsApart
  <2> SUFFICES ASSUME Good PROVE TurnsApart
    OBVIOUS
  <2>1. TurnExclusive
    <3> SUFFICES ASSUME NEW e \in Executor, NEW f \in Executor,
                        InTurn(e), e # f, SameSchedule(e, f),
                        InTurn(f) \/ procs[f].kids = "group"
                 PROVE  FALSE
      BY DEF TurnExclusive
    <3>1. ~Freed(procs[e]) /\ ~Freed(procs[f])
      BY DEF InTurn, Freed, Working
    <3> DEFINE i == procs[e].inv
               j == procs[f].inv
    <3>2. i \in Invocation /\ j \in Invocation
      BY <3>1, ProcFacts
    <3>3. /\ Running(i) /\ invocations[i].executor = e
          /\ Running(j) /\ invocations[j].executor = f
      BY <3>1 DEF Good, HostInv, Owned, Running
    <3>4. Active(i) /\ Active(j)
      BY <3>3 DEF Running, Active, ActiveStatuses
    <3>5. i = j
      BY <3>2, <3>4 DEF Good, SingleActiveRun, SameSchedule
    <3> QED BY <3>3, <3>5
  <2>2. TurnAlone
    <3> SUFFICES ASSUME NEW e \in Executor, InTurn(e),
                        NEW f \in ProcsOf(procs[e].inv) \ {e}
                 PROVE  ~Leftover(f)
      BY DEF TurnAlone
    <3>1. procs[e].phase \in Late /\ f \in Executor /\ procs[f].inv = procs[e].inv
      BY DEF InTurn, Late, ProcsOf
    <3> QED BY <3>1 DEF Good, HostInv, Alone, Left, Leftover, RootAlive
  <2> QED BY <2>1, <2>2 DEF TurnsApart
<1> QED BY <1>1, AlwaysGood, PTL

\* A result is recorded only by the process whose turn ended with one, when no
\* other process of the run, or one it started itself, is left.
THEOREM ResultsAreEarned == HostSpec => ResultAfterCleanup
<1>1. Good /\ [HostNext]_allVars =>
        [\A i \in Invocation :
           /\ invocations'[i].status \in ResultStatuses
           /\ invocations[i].status \notin ResultStatuses
           => \E e \in ProcsOf(i) :
                 /\ procs[e].ran /\ procs[e].ok
                 /\ procs[e].attempt = invocations[i].attempt
                 /\ procs[e].kids = "none"
                 /\ \A f \in ProcsOf(i) \ {e} : ~Leftover(f)]_allVars
  BY HostStepFits DEF Fits, Earned
<1> QED BY <1>1, AlwaysGood, PTL DEF HostSpec, ResultAfterCleanup
=============================================================================
