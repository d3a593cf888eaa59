------------------------------ MODULE RuntimeTurns ------------------------------
(* The turns of one thread in the RuntimeService of packages/runtime/src/   *)
(* service/runtime-service.ts, with the part of AgentSession (engine/       *)
(* agent-session.ts), ApprovalGate and AsyncEventQueue they run on.  A turn *)
(* is accepted, driven by a loop that reads the events of its session and   *)
(* writes them to the thread's log, interrupted by approvals, cancellations *)
(* and timeouts, and ended; the thread is detached or deleted and the       *)
(* service closed while all that is on its way.                             *)
(*                                                                          *)
(* Every action is what runs between two awaits.  An append to the log may  *)
(* fail (the store's file), and so may a session's cleanup.  External: the  *)
(* model's stream, which ends when its signal is aborted, and may leave a   *)
(* call's preparation running; a preparation asks for approval when it      *)
(* likes.  The claim of a thread is the one of SessionClaims: here it is    *)
(* held as long as one of its handles is.                                   *)
EXTENDS Integers, Sequences, FiniteSets

CONSTANTS Turn,         \* the ids that clients give to turns
          Call,         \* the turn.start requests
          TurnOf,       \* TurnOf[c]: the turn that the request c names
          Approval,     \* the approvals that calls of tools ask for
          MaxSession,   \* the sessions that may be opened for the thread
          CacheSize,    \* `idempotencyCacheEntries`
          MaxFaults,    \* the appends and cleanups that may fail
          None

Session == 1 .. MaxSession

ASSUME TurnsAssumption ==
    /\ TurnOf \in [Call -> Turn] /\ IsFiniteSet(Approval)
    /\ CacheSize \in Nat \ {0} /\ MaxSession \in Nat /\ MaxFaults \in Nat
    /\ None \notin Turn \cup {"approved", "denied", "cancelled", "failed", "detach", "delete"}

VARIABLES
    call,       \* call[c]: where the handler of the request c is
    opening,    \* whether `openingSessions` has the thread
    current,    \* the session that `sessions` has, 0 for none
    ownership,  \* the claim that `ownership` has, named by its session, or 0
    active,     \* the turn that `activeTurns` has, or None
    turn,       \* turn[t]: ActiveTurnState and projection, and what was told
    job,        \* [turn, failed]: the entry of `turnJobs`
    settled,    \* `settledTurnOwners`, the oldest first
    queue,      \* queue[t]: [events, closed], the queue of send
    sess,       \* sess[s]: an AgentSession
    ask,        \* ask[a]: an approval, in the gate and in `pendingApprovals`
    down,       \* [kind, at, sess]: the handler that detaches or deletes
    closeAt,    \* how far close() is, "no" before it is called
    deleted,    \* whether the thread is deleted
    faults      \* the failures so far

threads == <<opening, current, ownership, down, deleted>>
vars == <<call, threads, active, turn, job, settled, queue, sess, ask, closeAt, faults>>
-----------------------------------------------------------------------------
(* The state of the service.                                                *)

NoTurn == [sess |-> 0, own |-> 0, failure |-> FALSE, terminal |-> None, thrown |-> FALSE, told |-> "no"]
NoSession == [at |-> "none", turn |-> None, aborted |-> FALSE, claimed |-> FALSE,
              emit |-> None, stray |-> FALSE]
NoAsk == [sess |-> 0, by |-> None, gate |-> FALSE, decision |-> None,
          pending |-> FALSE, turn |-> None, own |-> 0, told |-> "no"]
NoJob == [turn |-> None, failed |-> FALSE]
NoDown == [kind |-> None, at |-> "none", sess |-> 0]

\* assertOpen.
Open == closeAt = "no"

\* assertThreadOpen.
ThreadOpen == Open /\ down = NoDown

\* findTurnOwner: whether it finds t, and what it leaves of `settledTurnOwners`.
Known(t) == active = t \/ \E i \in DOMAIN settled : settled[i] = t
Without(t) ==
    IF ~ \E i \in DOMAIN settled : settled[i] = t THEN settled
    ELSE LET j == CHOOSE i \in DOMAIN settled : settled[i] = t
         IN  [i \in 1 .. Len(settled) - 1 |-> settled[IF i < j THEN i ELSE i + 1]]
Latest(t) == Append(Without(t), t)
Found(t) == IF active # t /\ Known(t) THEN Latest(t) ELSE settled

Pending(t) == {a \in Approval : ask[a].pending /\ ask[a].turn = t}
-----------------------------------------------------------------------------
(* The gate and the abort of a session.                                     *)

\* abortAll of the gate of s, when the approvals are K.
AbortAll(K, s) ==
    [a \in Approval |-> IF K[a].sess = s /\ K[a].gate
                        THEN [K[a] EXCEPT !.gate = FALSE, !.decision = "denied"] ELSE K[a]]

\* AgentSession.cancel: of the approvals, and of the sessions.
CancelledAsks(K, s) == IF sess[s].turn = None THEN K ELSE AbortAll(K, s)
CancelledSession(s) == IF sess[s].turn = None THEN sess ELSE [sess EXCEPT ![s].aborted = TRUE]

\* notifyFatalError, when the appends of F have failed: the turn is cancelled.
FatalAsks(K, F) == IF F = {} \/ active = None THEN K ELSE CancelledAsks(K, turn[active].sess)
FatalSession(F) == IF F = {} \/ active = None THEN sess ELSE CancelledSession(turn[active].sess)
-----------------------------------------------------------------------------
(* emit: the events of A, under the claim `own`; those of F are not written. *)

\* What may fail: everything under a claim that was released, or the store.
Failures(A, own) ==
    IF own # ownership THEN {A}
    ELSE {F \in SUBSET A : faults + Cardinality(F) <= MaxFaults}

Faulted(F, own) == IF own # ownership THEN faults ELSE faults + Cardinality(F)

\* The approvals of A are no longer pending; their resolution is told, or lost.
Resolved(K, A, F, how) ==
    [a \in Approval |-> IF a \in A THEN [K[a] EXCEPT !.pending = FALSE,
                                            !.told = IF a \in F THEN "lost" ELSE how]
                        ELSE K[a]]
-----------------------------------------------------------------------------
(* Sessions are opened, and turns started.                                  *)

\* requireSession without a session: the engine is asked for one, or has been.
MayOpen == opening \/ \E s \in Session : sess[s].at = "none"

(* The handler of turn.start, up to its await.  A request that is refused   *)
(* leaves no trace.                                                         *)
BeginStart(c) ==
    LET t == TurnOf[c]
    IN  /\ call[c] = "idle"
        /\ Open /\ ~ deleted
        /\ settled' = Found(t)
        /\ \/ /\ Known(t)
              /\ call' = [call EXCEPT ![c] = "done"]
              /\ UNCHANGED opening
           \/ /\ ~ Known(t) /\ ThreadOpen
              /\ active = None /\ job = NoJob
              /\ \/ /\ current # 0 /\ sess[current].at = "live"
                    /\ call' = [call EXCEPT ![c] = "opened"]
                    /\ UNCHANGED opening
                 \/ /\ current = 0 /\ MayOpen
                    /\ call' = [call EXCEPT ![c] = "opening"]
                    /\ opening' = TRUE
        /\ UNCHANGED <<current, ownership, down, deleted, active, turn, job, queue, sess, ask,
                       closeAt, faults>>

\* openThread: a session without a turn.
OpenThread ==
    /\ ThreadOpen /\ ~ deleted
    /\ current = 0 /\ ~ opening /\ MayOpen
    /\ opening' = TRUE
    /\ UNCHANGED <<call, current, ownership, down, deleted, active, turn, job, settled, queue,
                   sess, ask, closeAt, faults>>

(* resumeSession has returned.  The session is remembered first, and then   *)
(* refused when the thread is being closed.                                 *)
Opened ==
    /\ opening
    /\ opening' = FALSE
    /\ \/ \E s \in Session :
            /\ sess[s].at = "none" /\ \A r \in Session : r < s => sess[r].at # "none"
            /\ sess' = [sess EXCEPT ![s].at = "live", ![s].claimed = TRUE]
            /\ current' = s
            /\ ownership' = IF ownership = 0 THEN s ELSE ownership
            /\ call' = [c \in Call |-> IF call[c] # "opening" THEN call[c]
                                       ELSE IF ThreadOpen THEN "opened" ELSE "done"]
       \/ /\ call' = [c \in Call |-> IF call[c] = "opening" THEN "done" ELSE call[c]]
          /\ UNCHANGED <<sess, current, ownership>>
    /\ UNCHANGED <<down, deleted, active, turn, job, settled, queue, ask, closeAt, faults>>

\* (bug) a turn whose job has failed does not stand in the way
StillFree_active(t) == ~ Known(t) /\ active = None /\ ThreadOpen

\* (bug) the turn is not looked up again after the await
StillFree_unknown(t) == active = None /\ job = NoJob /\ ThreadOpen

\* Whether the request c goes on, when its session is there.
StillFree(t) == ~ Known(t) /\ active = None /\ job = NoJob /\ ThreadOpen

(* The handler of turn.start goes on: the turn is accepted, told, and its   *)
(* loop started, with the body of send up to its first event.               *)
StartTurn(c) ==
    LET t == TurnOf[c]
        s == current
        runs == sess[s].at = "live" /\ sess[s].turn = None
    IN  /\ call[c] = "opened"
        /\ call' = [call EXCEPT ![c] = "done"]
        /\ settled' = Found(t)
        /\ \/ /\ StillFree(t)
              /\ active' = t
              /\ turn' = [turn EXCEPT ![t] = [NoTurn EXCEPT !.sess = s, !.own = ownership,
                            !.thrown = ~ runs, !.terminal = IF runs THEN None ELSE "failed",
                            !.told = "started"]]
              /\ job' = [turn |-> t, failed |-> FALSE]
              /\ queue' = [queue EXCEPT ![t] = [events |-> <<>>, closed |-> FALSE]]
              /\ sess' = IF runs THEN [sess EXCEPT ![s].turn = t, ![s].aborted = FALSE, ![s].emit = t]
                                 ELSE sess
              /\ UNCHANGED <<ask, faults>>
           \/ /\ StillFree(t) /\ faults < MaxFaults
              /\ faults' = faults + 1
              /\ ask' = CancelledAsks(ask, s)
              /\ sess' = CancelledSession(s)
              /\ UNCHANGED <<active, turn, job, queue>>
           \/ /\ ~ StillFree(t)
              /\ UNCHANGED <<active, turn, job, queue, sess, ask, faults>>
        /\ UNCHANGED <<threads, closeAt>>
-----------------------------------------------------------------------------
(* The session's side of a turn.                                            *)

Pushed(t, e) ==
    IF t = None \/ queue[t].closed THEN queue
    ELSE [queue EXCEPT ![t].events = Append(@, e)]

(* requestApproval, for a call of the turn that runs, or for one that an    *)
(* aborted turn has left behind.  The gate does not look at the abort.      *)
Ask(s, a) ==
    /\ ask[a] = NoAsk
    /\ \E by \in {sess[s].turn, None} :
         /\ by = None => sess[s].stray
         /\ ask' = [ask EXCEPT ![a] = [NoAsk EXCEPT !.sess = s, !.by = by,
                        !.gate = sess[s].emit # None,
                        !.decision = IF sess[s].emit = None THEN "denied" ELSE None]]
    /\ queue' = Pushed(sess[s].emit, <<"ask", a>>)
    /\ UNCHANGED <<call, threads, active, turn, job, settled, sess, closeAt, faults>>

\* The turn's timer.
ExpireTurn(s) ==
    /\ sess[s].turn # None /\ ~ sess[s].aborted
    /\ sess' = [sess EXCEPT ![s].aborted = TRUE]
    /\ ask' = AbortAll(ask, s)
    /\ UNCHANGED <<call, threads, active, turn, job, settled, queue, closeAt, faults>>

\* (bug) the queue stays open after an event
Finished_open(t, last) ==
    IF queue[t].closed THEN queue
    ELSE [queue EXCEPT ![t] = [events |-> @.events \o last, closed |-> last = <<>>]]

\* (bug) the last events are left out
Finished_silent(t, last) ==
    IF queue[t].closed THEN queue
    ELSE [queue EXCEPT ![t].closed = TRUE]

\* The last events of a turn, and queue.close().
Finished(t, last) ==
    IF queue[t].closed THEN queue
    ELSE [queue EXCEPT ![t] = [events |-> @.events \o last, closed |-> TRUE]]

(* The end of runTurn.  A turn that completes has waited for its calls; one *)
(* that is aborted, or whose stream fails, has not, and may leave some      *)
(* behind.  An aborted one says so unless its record cannot be written.     *)
EndRun(s, aborted) ==
    LET t == sess[s].turn
    IN  /\ t # None
        /\ sess[s].aborted = aborted
        /\ \E last \in IF aborted THEN {<<<<"cancelled">>>>, <<<<"error">>, <<"cancelled">>>>}
                      ELSE {<<>>, <<<<"error">>>>} :
             /\ last = <<>> => \A a \in Approval : ask[a].by = t => ~ ask[a].gate
             /\ queue' = Finished(t, last)
             /\ sess' = [sess EXCEPT ![s].turn = None, ![s].stray = @ \/ last # <<>>]
        /\ UNCHANGED <<call, threads, active, turn, job, settled, ask, closeAt, faults>>
-----------------------------------------------------------------------------
(* The loop of driveTurn.                                                   *)

Reads(t) == job.turn = t /\ ~ job.failed /\ ~ turn[t].thrown
Ended(t) == turn[t].thrown \/ (queue[t].closed /\ queue[t].events = <<>>)

(* An event cannot be told: the loop stops reading, and abandons the turn,  *)
(* which notifyFatalError has cancelled before; the approvals are K.        *)
Abandon(t, K) ==
    LET s == turn[t].sess
    IN  /\ queue' = [queue EXCEPT ![t] = [events |-> <<>>, closed |-> TRUE]]
        /\ ask' = CancelledAsks(K, s)
        /\ sess' = [CancelledSession(s) EXCEPT ![s].emit = None]
        /\ turn' = [turn EXCEPT ![t].thrown = TRUE,
                                ![t].terminal = IF @ = None THEN "failed" ELSE @]

\* "confirmation-required".
ProjectAsk(t, a) ==
    LET asked == [ask EXCEPT ![a].pending = TRUE, ![a].turn = t, ![a].own = turn[t].own]
    IN  /\ Reads(t)
        /\ queue[t].events # <<>> /\ Head(queue[t].events) = <<"ask", a>>
        /\ \E F \in Failures({a}, turn[t].own) :
             /\ faults' = Faulted(F, turn[t].own)
             /\ IF F = {}
                THEN /\ ask' = [asked EXCEPT ![a].told = "required"]
                     /\ queue' = [queue EXCEPT ![t].events = Tail(@)]
                     /\ UNCHANGED <<turn, sess>>
                ELSE Abandon(t, asked)
        /\ UNCHANGED <<call, threads, active, job, settled, closeAt>>

(* Another event, of the message or of a tool: it changes nothing here,     *)
(* unless it cannot be written.                                             *)
ProjectOther(t) ==
    /\ Reads(t) /\ ~ Ended(t)
    /\ \E F \in Failures({t}, turn[t].own) :
         /\ F # {}
         /\ faults' = Faulted(F, turn[t].own)
    /\ Abandon(t, ask)
    /\ UNCHANGED <<call, threads, active, job, settled, closeAt>>

\* "turn-cancelled" and "error": the first of them decides.
ProjectEnd(t, e) ==
    /\ Reads(t)
    /\ queue[t].events # <<>> /\ Head(queue[t].events) = <<e>>
    /\ queue' = [queue EXCEPT ![t].events = Tail(@)]
    /\ turn' = [turn EXCEPT ![t].terminal =
                    IF @ # None THEN @
                    ELSE IF e = "error" \/ turn[t].failure THEN "failed" ELSE "cancelled"]
    /\ UNCHANGED <<call, threads, active, job, settled, sess, ask, closeAt, faults>>

\* settleTurnOwner.
Settle(t) ==
    LET q == Latest(t)
    IN  IF ~ Open THEN settled
        ELSE SubSeq(q, IF Len(q) > CacheSize THEN Len(q) - CacheSize + 1 ELSE 1, Len(q))

\* (bug) the approvals of a turn that ends are left
LeftOver_none(t) == {}

(* The loop is over: the turn is no longer active, the approvals that are    *)
(* pending for it are cancelled, and its terminal event told.  A job that   *)
(* cannot tell it stays where it is, failed: before the approvals (the end  *)
(* of an open message was not written), among them, or after.               *)
LeftOver(t) == Pending(t)

EndTurn(t) ==
    LET A == LeftOver(t)
        s == turn[t].sess
        own == turn[t].own
    IN  /\ job.turn = t /\ ~ job.failed
        /\ Ended(t)
        /\ active' = IF active = t THEN None ELSE active
        /\ settled' = Settle(t)
        /\ sess' = IF sess[s].emit = t THEN [sess EXCEPT ![s].emit = None] ELSE sess
        /\ \E F \in Failures(A \cup {t}, own) :
             /\ own = ownership /\ t \in F => F = {t}
             /\ faults' = Faulted(F, own)
             /\ \/ ask' = Resolved(ask, A, F, "cancelled")
                \/ t \in F /\ UNCHANGED ask
             /\ IF F = {}
                THEN /\ turn' = [turn EXCEPT ![t] = [NoTurn EXCEPT !.told = "ended"]]
                     /\ job' = NoJob
                ELSE /\ job' = [job EXCEPT !.failed = TRUE]
                     /\ UNCHANGED turn
        /\ UNCHANGED <<call, threads, queue, closeAt>>
-----------------------------------------------------------------------------
(* What clients do to a turn that runs.                                     *)

(* cancelTurn: its approvals are told to be cancelled, and whatever becomes *)
(* of that its session is.                                                  *)
CancelTurn(t) ==
    LET A == Pending(t)
        s == turn[t].sess
    IN  /\ Open /\ active = t
        /\ A # {} \/ (sess[s].turn # None /\ ~ sess[s].aborted)
        /\ \E F \in Failures(A, turn[t].own) :
             /\ faults' = Faulted(F, turn[t].own)
             /\ ask' = CancelledAsks(Resolved(ask, A, F, "cancelled"), s)
        /\ sess' = CancelledSession(s)
        /\ UNCHANGED <<call, threads, active, turn, job, settled, queue, closeAt>>

\* (bug) tells what the client has decided, though the gate had forgotten it
Respond_asDecided(a, decision) ==
    LET answered == IF ask[a].gate THEN [ask EXCEPT ![a].gate = FALSE, ![a].decision = decision] ELSE ask
        own == ask[a].own
    IN  /\ Open /\ ask[a].pending
        /\ \E F \in Failures({a}, own) :
             /\ faults' = Faulted(F, own)
             /\ ask' = FatalAsks(Resolved(answered, {a}, F, decision), F)
             /\ sess' = FatalSession(F)
        /\ UNCHANGED <<call, threads, active, turn, job, settled, queue, closeAt>>

(* resolvePendingApproval.  The gate answers first: an approval it does not *)
(* know any more is told to be cancelled, whatever the client has decided.  *)
Respond(a, decision) ==
    LET known == ask[a].gate
        answered == IF known THEN [ask EXCEPT ![a].gate = FALSE, ![a].decision = decision] ELSE ask
        how == IF ~ known THEN "cancelled" ELSE decision
        own == ask[a].own
    IN  /\ Open /\ ask[a].pending
        /\ \E F \in Failures({a}, own) :
             /\ faults' = Faulted(F, own)
             /\ ask' = FatalAsks(Resolved(answered, {a}, F, how), F)
             /\ sess' = FatalSession(F)
        /\ UNCHANGED <<call, threads, active, turn, job, settled, queue, closeAt>>

(* failPendingApprovalInteraction: the client could not be asked, or did    *)
(* not answer in time; the turn is to fail.                                 *)
FailInteraction(a) ==
    LET t == ask[a].turn
        s == ask[a].sess
        own == ask[a].own
    IN  /\ ask[a].pending
        /\ turn' = IF active = t THEN [turn EXCEPT ![t].failure = TRUE] ELSE turn
        /\ \E F \in Failures({a}, own) :
             /\ faults' = Faulted(F, own)
             /\ ask' = CancelledAsks(Resolved(ask, {a}, F, "cancelled"), s)
        /\ sess' = CancelledSession(s)
        /\ UNCHANGED <<call, threads, active, job, settled, queue, closeAt>>
-----------------------------------------------------------------------------
(* A session is closed: its turn is aborted; when it has ended and its      *)
(* processes are gone, the service's barrier waits for the turn's job and   *)
(* gives the claim of the thread back.                                      *)

\* (bug) the turn is not aborted
ClosedSession_calm(s) ==
    IF s = 0 \/ sess[s].at # "live" THEN sess ELSE [sess EXCEPT ![s].at = "jobs"]

\* AgentSession.close, called once or again: of the sessions and approvals.
ClosedSession(s) ==
    IF s = 0 \/ sess[s].at # "live" THEN sess
    ELSE [sess EXCEPT ![s].at = "jobs", ![s].aborted = @ \/ sess[s].turn # None]
ClosedAsks(s) ==
    IF s = 0 \/ sess[s].at # "live" \/ sess[s].turn = None THEN ask ELSE AbortAll(ask, s)

\* (bug) the executions of the session are not waited for
JobsOver_always(s) == TRUE

JobsOver(s) == sess[s].turn = None

(* The executions are over, and the processes are gone or could not be      *)
(* ended.  A request that has its session waits for nothing more, and goes  *)
(* on before that.                                                          *)
CleanSession(s) ==
    /\ sess[s].at = "jobs"
    /\ JobsOver(s)
    /\ \A c \in Call : call[c] # "opened"
    /\ \/ /\ sess' = [sess EXCEPT ![s].at = "barrier"]
          /\ UNCHANGED faults
       \/ /\ faults < MaxFaults
          /\ faults' = faults + 1
          /\ sess' = [sess EXCEPT ![s].at = "failed"]
    /\ UNCHANGED <<call, threads, active, turn, job, settled, queue, ask, closeAt>>

\* (bug) the job of the turn is not waited for
JobOver_always == TRUE

\* What an `await` of the turn's job waits for.
JobOver == job = NoJob \/ job.failed

\* The barrier of rememberSession, and onClose.
Barrier(s) ==
    /\ sess[s].at = "barrier"
    /\ JobOver
    /\ IF job.failed \/ current # s
       THEN /\ sess' = [sess EXCEPT ![s].at = "failed"]
            /\ UNCHANGED <<ownership, current>>
       ELSE /\ sess' = [sess EXCEPT ![s].at = "closed", ![s].claimed = FALSE,
                                    ![s].aborted = FALSE]
            /\ ownership' = 0 /\ current' = 0
    /\ UNCHANGED <<call, opening, down, deleted, active, turn, job, settled, queue, ask,
                   closeAt, faults>>
-----------------------------------------------------------------------------
(* detachThread and deleteThread; `closingThreads` has the thread while     *)
(* `down` is set.  deleteThread holds a claim of its own all along.         *)

BeginTeardown(kind) ==
    /\ ThreadOpen /\ ~ deleted
    /\ kind = "delete" => active = None
    /\ down' = [kind |-> kind, at |-> "opening", sess |-> 0]
    /\ UNCHANGED <<call, opening, current, ownership, deleted, active, turn, job, settled,
                   queue, sess, ask, closeAt, faults>>

\* (bug) the opening of a session is not waited for
OpeningOver_always == TRUE

OpeningOver == ~ opening

\* The opening that was under way is over.
TeardownSession ==
    /\ down.at = "opening"
    /\ OpeningOver
    /\ down' = IF down.kind = "detach" /\ current = 0 /\ ownership = 0 THEN NoDown
               ELSE [down EXCEPT !.at = "session", !.sess = current]
    /\ sess' = ClosedSession(current)
    /\ ask' = ClosedAsks(current)
    /\ UNCHANGED <<call, opening, current, ownership, deleted, active, turn, job, settled,
                   queue, closeAt, faults>>

(* Its session is closed, or could not be, and then the thread stays closed *)
(* to everyone; the job of its turn is over.  The DELETE may still fail.    *)
EndTeardown ==
    LET s == down.sess
        failed == (s # 0 /\ sess[s].at = "failed") \/ job.failed
    IN  /\ down.at = "session"
        /\ s # 0 => sess[s].at \in {"closed", "failed"}
        /\ failed \/ JobOver
        /\ IF failed
           THEN /\ down' = [down EXCEPT !.at = "failed"]
                /\ UNCHANGED <<current, ownership, deleted>>
           ELSE /\ down' = NoDown
                /\ current' = 0 /\ ownership' = 0
                /\ deleted' \in {deleted, down.kind = "delete"}
        /\ UNCHANGED <<call, opening, active, turn, job, settled, queue, sess, ask, closeAt,
                       faults>>
-----------------------------------------------------------------------------
(* close.                                                                   *)

CloseService ==
    /\ Open
    /\ closeAt' = "calls"
    /\ IF active = None THEN UNCHANGED <<ask, sess>>
       ELSE /\ ask' = CancelledAsks(ask, turn[active].sess)
            /\ sess' = CancelledSession(turn[active].sess)
    /\ UNCHANGED <<call, threads, active, turn, job, settled, queue, faults>>

CallsOver == /\ \A c \in Call : call[c] \in {"idle", "done"}
             /\ down.at \in {"none", "failed"}

\* settlePending; then the opening of a session, and the sessions are closed.
CloseSessions ==
    /\ closeAt = "calls"
    /\ CallsOver
    /\ ~ opening
    /\ closeAt' = "sessions"
    /\ sess' = ClosedSession(current)
    /\ ask' = ClosedAsks(current)
    /\ UNCHANGED <<call, threads, active, turn, job, settled, queue, faults>>

EndClose ==
    LET failed == (current # 0 /\ sess[current].at = "failed") \/ job.failed
    IN  /\ closeAt = "sessions"
        /\ current # 0 => sess[current].at = "failed"
        /\ failed \/ JobOver
        /\ IF failed
           THEN /\ closeAt' = "failed"
                /\ UNCHANGED <<current, ownership, ask, settled>>
           ELSE /\ closeAt' = "closed"
                /\ settled' = <<>>
                /\ current' = 0 /\ ownership' = 0
                /\ ask' = [a \in Approval |-> [ask[a] EXCEPT !.pending = FALSE]]
        /\ UNCHANGED <<call, opening, down, deleted, active, turn, job, queue, sess, faults>>
-----------------------------------------------------------------------------
Init ==
    /\ call = [c \in Call |-> "idle"]
    /\ opening = FALSE /\ current = 0 /\ ownership = 0
    /\ active = None
    /\ turn = [t \in Turn |-> NoTurn]
    /\ job = NoJob
    /\ settled = <<>>
    /\ queue = [t \in Turn |-> [events |-> <<>>, closed |-> TRUE]]
    /\ sess = [s \in Session |-> NoSession]
    /\ ask = [a \in Approval |-> NoAsk]
    /\ down = NoDown
    /\ closeAt = "no"
    /\ deleted = FALSE
    /\ faults = 0

Accept == (\E c \in Call : BeginStart(c) \/ StartTurn(c)) \/ OpenThread \/ Opened
Produce == \E s \in Session :
    ExpireTurn(s) \/ EndRun(s, TRUE) \/ EndRun(s, FALSE) \/ \E a \in Approval : Ask(s, a)
Drive == \E t \in Turn :
    EndTurn(t) \/ (\E a \in Approval : ProjectAsk(t, a)) \/ (\E e \in {"cancelled", "error"} : ProjectEnd(t, e))
\* What nobody has to do: clients answer, and an append fails.
Interrupt ==
    \/ \E t \in Turn : CancelTurn(t) \/ ProjectOther(t)
    \/ \E a \in Approval : FailInteraction(a) \/ \E d \in {"approved", "denied"} : Respond(a, d)
Release ==
    \/ \E s \in Session : CleanSession(s) \/ Barrier(s)
    \/ (\E kind \in {"detach", "delete"} : BeginTeardown(kind)) \/ TeardownSession \/ EndTeardown
    \/ CloseService \/ CloseSessions \/ EndClose

Next == Accept \/ Produce \/ Drive \/ Interrupt \/ Release

Spec == Init /\ [][Next]_vars

(* What runs goes on: promises that are settled, the engine's answer, the   *)
(* loop over what a session has said, and an aborted turn.  A turn that is  *)
(* not aborted may take for ever, and so may a client's answer.             *)
FairSpec ==
    /\ Spec
    /\ WF_vars(Opened) /\ \A c \in Call : WF_vars(StartTurn(c))
    /\ WF_vars(Drive)
    /\ \A s \in Session : WF_vars(EndRun(s, TRUE)) /\ WF_vars(CleanSession(s)) /\ WF_vars(Barrier(s))
    /\ WF_vars(TeardownSession) /\ WF_vars(EndTeardown)
    /\ WF_vars(CloseSessions) /\ WF_vars(EndClose)
-----------------------------------------------------------------------------
(* Properties.                                                              *)

Told == {"no", "required", "approved", "denied", "cancelled", "lost"}

TypeOK ==
    /\ call \in [Call -> {"idle", "opening", "opened", "done"}]
    /\ opening \in BOOLEAN /\ deleted \in BOOLEAN
    /\ current \in Session \cup {0} /\ ownership \in Session \cup {0}
    /\ active \in Turn \cup {None}
    /\ turn \in [Turn -> [sess : Session \cup {0}, own : Session \cup {0}, failure : BOOLEAN,
                          terminal : {None, "cancelled", "failed"},
                          thrown : BOOLEAN, told : {"no", "started", "ended"}]]
    /\ job \in [turn : Turn \cup {None}, failed : BOOLEAN]
    /\ Len(settled) <= CacheSize /\ \A i \in DOMAIN settled : settled[i] \in Turn
    /\ \A t \in Turn : queue[t].closed \in BOOLEAN
    /\ sess \in [Session -> [at : {"none", "live", "jobs", "barrier", "closed", "failed"},
                             turn : Turn \cup {None}, aborted : BOOLEAN, claimed : BOOLEAN,
                             emit : Turn \cup {None}, stray : BOOLEAN]]
    /\ ask \in [Approval -> [sess : Session \cup {0}, by : Turn \cup {None}, gate : BOOLEAN,
                             decision : {None, "approved", "denied"}, pending : BOOLEAN,
                             turn : Turn \cup {None}, own : Session \cup {0}, told : Told]]
    /\ closeAt \in {"no", "calls", "sessions", "closed", "failed"}
    /\ faults \in 0 .. MaxFaults

\* One turn of the thread at a time is told to have started and not to have ended.
OneOpenTurn ==
    \A t, u \in Turn : turn[t].told = "started" /\ turn[u].told = "started" => t = u

(* An approval that clients were asked for and told nothing more about is   *)
(* pending, in a turn that has not ended: none is left over by a turn.      *)
ApprovalsSettled ==
    \A a \in Approval :
        ask[a].told = "required" => ask[a].pending /\ turn[ask[a].turn].told = "started"

\* A turn that was aborted is not told to be completed.
AbortedIsTold ==
    \A t \in Turn :
        (active = t /\ Ended(t) /\ sess[turn[t].sess].aborted) => turn[t].terminal # None

(* The log of a thread is well bracketed: turns do not overlap, the         *)
(* approvals of a turn are resolved before it ends, and it ends as it did.  *)
TurnBrackets == TypeOK /\ OneOpenTurn /\ ApprovalsSettled /\ AbortedIsTold

(* What clients are told of an approval is what the call of the tool was    *)
(* told: an approval that is said to be cancelled was not given, one that   *)
(* was given is said to be, unless the store failed at that very event.     *)
DecisionAgreed ==
    \A a \in Approval :
        /\ ask[a].told \in {"approved", "denied"} => ask[a].decision = ask[a].told
        /\ ask[a].told = "cancelled" => ask[a].decision # "approved"
        /\ ask[a].decision = "approved" => ask[a].told \in {"approved", "lost"}

\* Some handle of the thread's claim is retained.
Retained == ownership # 0 \/ (\E s \in Session : sess[s].claimed) \/ down.kind = "delete"

Quiet ==
    /\ active = None /\ job = NoJob
    /\ \A s \in Session : sess[s].turn = None
    /\ \A a \in Approval : ~ ask[a].pending

(* Nothing of a turn is left to run, or to be told, when the process gives  *)
(* up the claim of the thread, nor when the thread was deleted.             *)
ReleasedQuiet ==
    /\ ~ Retained => Quiet
    /\ deleted => Quiet /\ current = 0 /\ ~ opening

(* A turn that has ended does not run again when its request is repeated,   *)
(* whatever the thread went through in the meantime.                        *)
TurnOnce == [][\A t \in Turn : turn[t].told = "ended" => turn'[t].told = "ended"]_vars

(* A turn whose session was cancelled ends, and clients are told, or its    *)
(* job is kept as the failed one.                                           *)
CancelEnds ==
    \A t \in Turn : (active = t /\ sess[turn[t].sess].turn = t /\ sess[turn[t].sess].aborted)
                        ~> (turn[t].told = "ended" \/ job.failed)

(* Closing the service, and detaching or deleting the thread, end, whatever *)
(* the turns are waiting for.                                               *)
TeardownEnds ==
    /\ closeAt # "no" ~> closeAt \in {"closed", "failed"}
    /\ down # NoDown ~> down = NoDown \/ down.at = "failed"
=============================================================================
