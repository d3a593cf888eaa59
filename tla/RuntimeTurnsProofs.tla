--------------------------- MODULE RuntimeTurnsProofs ---------------------------
(***************************************************************************)
(* Theorems about RuntimeTurns, for any turns, requests, approvals,        *)
(* sessions and failures: the log of the thread is well bracketed, clients *)
(* are told of an approval what the call was told, and the claim of the    *)
(* thread is given back when nothing of a turn is left; and, for no more   *)
(* turns than the cache of owners holds, a turn runs once.                 *)
(***************************************************************************)
EXTENDS RuntimeTurns, FiniteSetTheorems, FunctionTheorems, SequenceTheorems, TLAPS

(* The types, by name.                                                     *)

Event == ({"ask"} \X Approval) \cup {<<"cancelled">>, <<"error">>}
Final == {<<"cancelled">>, <<"error">>}

TurnRec == [sess : Session \cup {0}, own : Session \cup {0}, failure : BOOLEAN,
            terminal : {None, "cancelled", "failed"},
            thrown : BOOLEAN, told : {"no", "started", "ended"}]

SessRec == [at : {"none", "live", "jobs", "barrier", "closed", "failed"},
            turn : Turn \cup {None}, aborted : BOOLEAN, claimed : BOOLEAN,
            emit : Turn \cup {None}, stray : BOOLEAN]

AskRec == [sess : Session \cup {0}, by : Turn \cup {None}, gate : BOOLEAN,
           decision : {None, "approved", "denied"}, pending : BOOLEAN,
           turn : Turn \cup {None}, own : Session \cup {0}, told : Told]

QueueRec == [events : Seq(Event), closed : BOOLEAN]

DownRec == [kind : {None, "detach", "delete"},
            at : {"none", "opening", "session", "failed"}, sess : Session \cup {0}]

(* The parts of the invariant.                                             *)

Types ==
    /\ TypeOK
    /\ settled \in Seq(Turn)
    /\ down \in DownRec
    /\ queue \in [Turn -> QueueRec]

\* The session that is remembered is the one that lives, and has the claim; only
\* a session that is not yet cleaned runs a turn.
Sessions ==
    /\ ownership = current
    /\ \A s \in Session :
         /\ s # current <=> sess[s].at \in {"none", "closed"}
         /\ sess[s].claimed <=> s = current
         /\ sess[s].turn # None => sess[s].at \in {"live", "jobs"}

\* A session is opened only while none is remembered, and stays until the
\* requests that have it have gone on.
Openings ==
    /\ opening => current = 0
    /\ \A c \in Call :
         /\ call[c] = "opening" => opening
         /\ call[c] = "opened" => current # 0 /\ sess[current].at \in {"live", "jobs"}

\* A teardown that waits for the session has it closed, and nothing is opened
\* meanwhile; nor is it after the calls are over, or the thread deleted.
Teardowns ==
    /\ down = NoDown <=> down.at = "none"
    /\ down.at = "session" =>
         /\ ~ opening /\ current \in {0, down.sess}
         /\ down.sess # 0 => sess[down.sess].at \notin {"none", "live"}
    /\ deleted => Quiet /\ current = 0 /\ ~ opening
    /\ closeAt \in {"sessions", "closed", "failed"} =>
         /\ ~ opening /\ down.at \in {"none", "failed"}
         /\ \A c \in Call : call[c] \in {"idle", "done"}

\* The turn of the job is the one that is told to have started, and its session
\* is the one that is remembered: the job holds it.
Jobs ==
    /\ active # None => job = [turn |-> active, failed |-> FALSE]
    /\ job.turn # None =>
         /\ active = None => job.failed
         /\ current # 0
         /\ turn[job.turn].sess = current /\ turn[job.turn].own = current
    /\ job.turn = None => ~ job.failed
    /\ \A t \in Turn : turn[t].told = "started" <=> job.turn = t
    /\ \A t \in Turn : turn[t].thrown => turn[t].terminal # None

\* An approval by itself: what was told agrees with what was decided.
Fine(r) ==
    /\ r.gate => r.decision = None
    /\ r.told \in {"approved", "denied"} => r.decision = r.told
    /\ r.told = "cancelled" => r.decision # "approved"
    /\ r.decision = "approved" => r.told \in {"approved", "lost"}
    /\ r.pending => r.told \in {"no", "required"} /\ r.sess # 0
    /\ r.told = "required" => r.pending

\* What is pending is pending in the turn of the job.
Asks ==
    \A a \in Approval :
        /\ Fine(ask[a])
        /\ ask[a].pending => job.turn # None /\ ask[a].turn = job.turn

\* The approval a is asked for by the event i of the queue of t.
Waits(t, i, a) == i \in DOMAIN queue[t].events /\ queue[t].events[i] = <<"ask", a>>

\* An approval is in one place of one queue, and nobody was told of it yet.
Events ==
    \A t \in Turn, a \in Approval, i \in Nat :
        Waits(t, i, a) =>
            /\ ask[a].told = "no" /\ ~ ask[a].pending /\ ask[a].sess # 0
            /\ \A u \in Turn, j \in Nat : Waits(u, j, a) => u = t /\ j = i

\* A turn that is read is run by its session until its queue is closed; and when
\* it was aborted, that is in the queue, or was read.
Run(t) ==
    LET s == turn[t].sess
    IN  IF queue[t].closed
        THEN /\ sess[s].turn = None
             /\ sess[s].aborted => \/ turn[t].terminal # None
                                   \/ \E i \in DOMAIN queue[t].events : queue[t].events[i] \in Final
        ELSE sess[s].turn = t
Running == (active # None /\ ~ turn[active].thrown) => Run(active)

Inv == Types /\ Sessions /\ Openings /\ Teardowns /\ Jobs /\ Asks /\ Events /\ Running

-----------------------------------------------------------------------------
(* Facts.                                                                  *)

\* The types, field by field.
LEMMA Fields ==
    ASSUME TypeOK
    PROVE  /\ \A t \in Turn : turn[t] \in TurnRec
           /\ \A s \in Session : sess[s] \in SessRec
           /\ \A a \in Approval : ask[a] \in AskRec
           /\ 0 \notin Session
BY DEF TypeOK, TurnRec, SessRec, AskRec, Session

\* The active turn is the one of the job, and runs in the remembered session.
LEMMA ActiveFacts ==
    ASSUME Inv, active # None
    PROVE  /\ active \in Turn /\ job.turn = active /\ ~ job.failed
           /\ current \in Session
           /\ turn[active].sess = current /\ turn[active].own = current
           /\ turn[active].told = "started"
<1>1. active \in Turn /\ current \in Session \cup {0}
    BY DEF Inv, Types, TypeOK
<1>2. job = [turn |-> active, failed |-> FALSE]
    BY DEF Inv, Jobs
<1>. QED  BY <1>1, <1>2 DEF Inv, Jobs

\* The loop reads the queue of the active turn only.
LEMMA ReadsFacts ==
    ASSUME Inv, NEW t \in Turn, Reads(t)
    PROVE  active = t
<1>1. t # None
    BY TurnsAssumption
<1>. QED  BY <1>1, ActiveFacts DEF Inv, Jobs, Reads

\* A session that runs a turn is the remembered one; and when a turn is read,
\* that is the turn.
LEMMA RunFacts ==
    ASSUME Inv, NEW s \in Session, sess[s].turn # None
    PROVE  /\ s = current
           /\ sess[s].turn \in Turn
           /\ (active # None /\ ~ turn[active].thrown) => sess[s].turn = active
<1>1. sess[s].at \in {"live", "jobs"}
    BY DEF Inv, Sessions
<1>2. s = current
    BY <1>1 DEF Inv, Sessions
<1>3. sess[s].turn \in Turn
    BY Fields DEF Inv, Types, SessRec
<1>4. ASSUME active # None, ~ turn[active].thrown
      PROVE  sess[s].turn = active
  <2>1. Run(active) /\ turn[active].sess = s
      BY <1>2, <1>4, ActiveFacts DEF Inv, Running
  <2>. QED  BY <2>1 DEF Run
<1>. QED  BY <1>2, <1>3, <1>4

\* Without a remembered session there is nothing of a turn.
LEMMA NothingLeft ==
    ASSUME Inv, current = 0
    PROVE  Quiet
<1>1. active = None
    BY ActiveFacts, Fields DEF Inv, Types
<1>2. job.turn = None /\ ~ job.failed
    BY DEF Inv, Jobs
<1>3. job = NoJob
    BY <1>2 DEF Inv, Types, TypeOK, NoJob
<1>4. \A s \in Session : sess[s].turn = None
    BY RunFacts, Fields DEF Inv, Types
<1>5. \A a \in Approval : ~ ask[a].pending
    BY <1>2 DEF Inv, Asks
<1>. QED  BY <1>1, <1>3, <1>4, <1>5 DEF Quiet

\* A job that is not the one of a turn was not there.
LEMMA NoJobIs ==
    ASSUME Inv
    PROVE  job = NoJob <=> job.turn = None
BY DEF Inv, Types, TypeOK, NoJob, Jobs

-----------------------------------------------------------------------------
(* The approvals.                                                          *)

\* What the gate, or a client, does to one of them.
Decided(r, d) == [r EXCEPT !.gate = FALSE, !.decision = d]
Taken(r, how) == [r EXCEPT !.pending = FALSE, !.told = how]

\* The field of an approval that the gate forgets, and of one that is settled.
LEMMA DecidedParts ==
    ASSUME NEW r \in AskRec, NEW d \in {"approved", "denied"}
    PROVE  /\ Decided(r, d) \in AskRec
           /\ Decided(r, d).gate = FALSE /\ Decided(r, d).decision = d
           /\ Decided(r, d).sess = r.sess /\ Decided(r, d).by = r.by
           /\ Decided(r, d).pending = r.pending /\ Decided(r, d).turn = r.turn
           /\ Decided(r, d).own = r.own /\ Decided(r, d).told = r.told
BY DEF AskRec, Decided

\* What an approval is once the loop has taken its decision.
LEMMA TakenParts ==
    ASSUME NEW r \in AskRec, NEW how \in Told
    PROVE  /\ Taken(r, how) \in AskRec
           /\ Taken(r, how).pending = FALSE /\ Taken(r, how).told = how
           /\ Taken(r, how).gate = r.gate /\ Taken(r, how).decision = r.decision
           /\ Taken(r, how).sess = r.sess /\ Taken(r, how).by = r.by
           /\ Taken(r, how).turn = r.turn /\ Taken(r, how).own = r.own
BY DEF AskRec, Taken

\* The approval q is as r was, unless the gate has denied it.
Alike(r, q) ==
    /\ q \in AskRec
    /\ q.pending = r.pending /\ q.turn = r.turn /\ q.told = r.told /\ q.sess = r.sess
    /\ Fine(r) => Fine(q)

Calm(K, L) == L \in [Approval -> AskRec] /\ \A a \in Approval : Alike(K[a], L[a])

\* abortAll denies what the gate waits for, and tells nobody.
LEMMA AbortCalm ==
    ASSUME NEW K \in [Approval -> AskRec], NEW s
    PROVE  Calm(K, AbortAll(K, s))
<1>. DEFINE L == AbortAll(K, s)
<1>1. L = [a \in Approval |-> IF K[a].sess = s /\ K[a].gate THEN Decided(K[a], "denied") ELSE K[a]]
    BY DEF AbortAll, Decided
<1>. HIDE DEF L
<1>2. ASSUME NEW a \in Approval
      PROVE  Alike(K[a], L[a])
  <2>1. K[a] \in AskRec
      OBVIOUS
  <2>2. CASE L[a] = K[a]
      BY <2>1, <2>2 DEF Alike
  <2>3. CASE L[a] = Decided(K[a], "denied") /\ K[a].gate
    <3>1. L[a] \in AskRec /\ L[a].gate = FALSE /\ L[a].decision = "denied"
          /\ L[a].sess = K[a].sess /\ L[a].pending = K[a].pending
          /\ L[a].turn = K[a].turn /\ L[a].told = K[a].told
      <4>. DEFINE r == K[a]
      <4>1. r \in AskRec /\ L[a] = Decided(r, "denied")
          BY <2>1, <2>3
      <4>. HIDE DEF r
      <4>2. /\ Decided(r, "denied") \in AskRec /\ Decided(r, "denied").gate = FALSE
            /\ Decided(r, "denied").decision = "denied"
            /\ Decided(r, "denied").sess = r.sess /\ Decided(r, "denied").pending = r.pending
            /\ Decided(r, "denied").turn = r.turn /\ Decided(r, "denied").told = r.told
          BY <4>1, DecidedParts
      <4>. QED  BY <4>1, <4>2 DEF r
    <3>2. Fine(K[a]) => Fine(L[a])
        BY <2>3, <3>1, TurnsAssumption DEF Fine
    <3>. QED  BY <3>1, <3>2 DEF Alike
  <2>. QED  BY <1>1, <2>2, <2>3
<1>3. L \in [Approval -> AskRec]
    BY <1>1, <1>2 DEF Alike
<1>. QED  BY <1>2, <1>3 DEF Calm, L

\* And so does whatever cancels a session, or closes it.
LEMMA SameCalm ==
    ASSUME NEW K \in [Approval -> AskRec]
    PROVE  Calm(K, K)
BY DEF Calm, Alike

\* The approvals that a cancellation or a fatal error aborts say nothing wrong.
LEMMA CancelCalm ==
    ASSUME NEW K \in [Approval -> AskRec], NEW s, NEW F
    PROVE  /\ Calm(K, CancelledAsks(K, s))
           /\ Calm(K, FatalAsks(K, F))
<1>1. \A r : Calm(K, CancelledAsks(K, r))
    BY SameCalm, AbortCalm DEF CancelledAsks
<1>. QED  BY <1>1, SameCalm DEF FatalAsks

\* Nor do those of a session that is closed.
LEMMA CloseCalm ==
    ASSUME TypeOK, NEW s
    PROVE  Calm(ask, ClosedAsks(s)) /\ Calm(ask, AbortAll(ask, s)) /\ Calm(ask, ask)
<1>1. ask \in [Approval -> AskRec]
    BY DEF TypeOK, AskRec
<1>. QED  BY <1>1, SameCalm, AbortCalm DEF ClosedAsks

\* What an approval may become without a word being said that is wrong, or
\* being asked again.
Later(r, q) ==
    /\ q \in AskRec /\ Fine(q)
    /\ q.pending => r.pending /\ q.turn = r.turn
    /\ q.sess = r.sess
    /\ r.told = "no" /\ ~ r.pending => q.told = "no" /\ ~ q.pending

AsksCalm == \A a \in Approval : Later(ask[a], ask'[a])

\* Denying keeps what was reached.
LEMMA LaterCalm ==
    ASSUME NEW r, NEW q, NEW p, Later(r, q), Alike(q, p)
    PROVE  Later(r, p)
BY DEF Later, Alike

\* Approvals that calmed down are later states of what they were.
LEMMA CalmIsLater ==
    ASSUME Inv, Calm(ask, ask')
    PROVE  AsksCalm /\ ask' \in [Approval -> AskRec]
<1>1. \A a \in Approval : ask[a] \in AskRec /\ Fine(ask[a])
    BY Fields DEF Inv, Types, Asks
<1>2. \A a \in Approval : Later(ask[a], ask[a])
    BY <1>1 DEF Later
<1>. QED  BY <1>2, LaterCalm DEF AsksCalm, Calm

\* A pending approval is settled: as the client decided and the gate was told,
\* or, when nobody decides, as cancelled; or the word of that is lost.
LEMMA SettledLater ==
    ASSUME NEW r \in AskRec, Fine(r), r.pending, NEW d \in {"approved", "denied"}, NEW q, NEW how,
           \/ q = r /\ how \in {"cancelled", "lost"}
           \/ r.gate /\ q = Decided(r, d) /\ how \in {d, "lost"}
    PROVE  Later(r, Taken(q, how))
<1>1. how \in Told
    BY DEF Told
<1>2. CASE r.gate /\ q = Decided(r, d) /\ how \in {d, "lost"}
  <2>1. q \in AskRec /\ q.gate = FALSE /\ q.decision = d /\ q.sess = r.sess
      BY <1>2, DecidedParts
  <2>2. /\ Taken(q, how) \in AskRec
        /\ Taken(q, how).pending = FALSE /\ Taken(q, how).told = how
        /\ Taken(q, how).gate = FALSE /\ Taken(q, how).decision = d
        /\ Taken(q, how).sess = r.sess
      BY <1>1, <2>1, TakenParts
  <2>3. Fine(Taken(q, how))
      BY <1>2, <2>2 DEF Fine
  <2>4. ~ (r.told = "no" /\ ~ r.pending)
      OBVIOUS
  <2>. QED  BY <2>2, <2>3, <2>4 DEF Later
<1>3. CASE q = r /\ how \in {"cancelled", "lost"}
    BY <1>1, <1>3, TakenParts, TurnsAssumption, ZenonT(40) DEF Later, Fine
<1>. QED  BY <1>2, <1>3

\* Resolved takes the approvals of A, and leaves the others.
LEMMA ResolvedIs ==
    ASSUME NEW K, NEW A, NEW F, NEW how, NEW a \in Approval
    PROVE  /\ Resolved(K, A, F, how) = [b \in Approval |->
                  IF b \in A THEN Taken(K[b], IF b \in F THEN "lost" ELSE how) ELSE K[b]]
           /\ Resolved(K, A, F, how)[a] =
                  IF a \in A THEN Taken(K[a], IF a \in F THEN "lost" ELSE how) ELSE K[a]
BY DEF Resolved, Taken

\* cancelTurn, a failed interaction and the end of a turn settle what is pending
\* as cancelled.
LEMMA CancelledLater ==
    ASSUME Inv, NEW A, \A a \in A : ask[a].pending, A \subseteq Approval, NEW F
    PROVE  LET L == Resolved(ask, A, F, "cancelled")
           IN  L \in [Approval -> AskRec] /\ \A a \in Approval : Later(ask[a], L[a])
<1>. DEFINE L == Resolved(ask, A, F, "cancelled")
<1>1. \A a \in Approval : ask[a] \in AskRec /\ Fine(ask[a])
    BY Fields DEF Inv, Types, Asks
<1>2. ASSUME NEW a \in Approval
      PROVE  Later(ask[a], L[a])
  <2>1. CASE a \in A
    <3>1. L[a] = Taken(ask[a], IF a \in F THEN "lost" ELSE "cancelled")
        BY <2>1, ResolvedIs
    <3>. DEFINE how == IF a \in F THEN "lost" ELSE "cancelled"
    <3>2. how \in {"cancelled", "lost"}
        OBVIOUS
    <3>. HIDE DEF how, L
    <3>3. "denied" \in {"approved", "denied"}
        OBVIOUS
    <3>4. Later(ask[a], Taken(ask[a], how))
        BY <1>1, <2>1, <3>2, <3>3, SettledLater
    <3>. QED  BY <3>1, <3>4 DEF how
  <2>2. CASE a \notin A
    <3>1. L[a] = ask[a]
        BY <2>2, ResolvedIs
    <3>. QED  BY <1>1, <3>1 DEF Later
  <2>. QED  BY <2>1, <2>2
<1>3. L \in [Approval -> AskRec]
  <2>1. DOMAIN L = Approval /\ L = [a \in Approval |-> L[a]]
      BY DEF Resolved
  <2>2. \A a \in Approval : L[a] \in AskRec
      BY <1>2 DEF Later
  <2>. HIDE DEF L
  <2>. QED  BY <2>1, <2>2
<1>. QED  BY <1>2, <1>3

-----------------------------------------------------------------------------
(* The sessions, the turns and the failures.                               *)

\* A session that is cancelled or closed: its turn goes on to its end.
Rested(r, q) ==
    /\ q \in SessRec
    /\ q.turn = r.turn /\ q.claimed = r.claimed
    /\ q.at = r.at \/ (r.at = "live" /\ q.at = "jobs")
    /\ q.aborted => r.aborted \/ r.turn # None

SessionsCalm == \A s \in Session : Rested(sess[s], sess'[s])

\* Its record, aborted and perhaps closed.
Halted(r, at, b) == [r EXCEPT !.at = at, !.aborted = b]

\* A session whose close goes for its jobs.
LEMMA StoppingParts ==
    ASSUME NEW r \in SessRec, NEW b \in BOOLEAN
    PROVE  /\ Halted(r, "jobs", b) \in SessRec
           /\ Halted(r, "jobs", b).at = "jobs" /\ Halted(r, "jobs", b).aborted = b
           /\ Halted(r, "jobs", b).turn = r.turn /\ Halted(r, "jobs", b).claimed = r.claimed
BY DEF SessRec, Halted

\* A turn that was aborted while it runs.
LEMMA AbortRests ==
    ASSUME TypeOK, NEW s \in Session, sess[s].turn # None
    PROVE  LET S == [sess EXCEPT ![s].aborted = TRUE]
           IN  S \in [Session -> SessRec] /\ \A r \in Session : Rested(sess[r], S[r])
<1>. DEFINE S == [sess EXCEPT ![s].aborted = TRUE]
<1>1. sess \in [Session -> SessRec]
    BY DEF TypeOK, SessRec
<1>2. S \in [Session -> SessRec]
    BY <1>1 DEF SessRec
<1>3. \A r \in Session : r # s => S[r] = sess[r]
    BY <1>1
<1>4. /\ S[s].turn = sess[s].turn /\ S[s].claimed = sess[s].claimed
      /\ S[s].at = sess[s].at
    BY <1>1 DEF SessRec
<1>. HIDE DEF S
<1>5. \A r \in Session : Rested(sess[r], S[r])
    BY <1>1, <1>2, <1>3, <1>4 DEF Rested
<1>. QED  BY <1>2, <1>5 DEF S

\* cancel and close do it, or nothing.
LEMMA SessionRests ==
    ASSUME TypeOK
    PROVE  sess \in [Session -> SessRec] /\ \A r \in Session : Rested(sess[r], sess[r])
<1>1. sess \in [Session -> SessRec]
    BY DEF TypeOK, SessRec
<1>. QED  BY <1>1 DEF Rested

\* A cancellation leaves every session where it was, or nearer its end.
LEMMA CancelRests ==
    ASSUME TypeOK, NEW s \in Session
    PROVE  /\ CancelledSession(s) \in [Session -> SessRec]
           /\ \A r \in Session : Rested(sess[r], CancelledSession(s)[r])
<1>1. CASE sess[s].turn = None
    BY <1>1, SessionRests DEF CancelledSession
<1>2. CASE sess[s].turn # None
    BY <1>2, AbortRests DEF CancelledSession
<1>. QED  BY <1>1, <1>2

\* So does a close, after which the session is not live.
LEMMA CloseRests ==
    ASSUME TypeOK, NEW s \in Session \cup {0}
    PROVE  /\ ClosedSession(s) \in [Session -> SessRec]
           /\ \A r \in Session : Rested(sess[r], ClosedSession(s)[r])
           /\ s # 0 => ClosedSession(s)[s].at # "live"
<1>1. CASE s = 0 \/ sess[s].at # "live"
    BY <1>1, SessionRests DEF ClosedSession
<1>2. CASE ~ (s = 0 \/ sess[s].at # "live")
  <2>. DEFINE S == ClosedSession(s)
              b == sess[s].aborted \/ sess[s].turn # None
  <2>1. sess \in [Session -> SessRec] /\ s \in Session
      BY <1>2 DEF TypeOK, SessRec
  <2>2. b \in BOOLEAN
      BY <2>1 DEF SessRec
  <2>3. S = [sess EXCEPT ![s].at = "jobs", ![s].aborted = b]
      BY <1>2, <2>1 DEF ClosedSession, SessRec
  <2>4. b => sess[s].aborted \/ sess[s].turn # None
      OBVIOUS
  <2>. HIDE DEF b, S
  <2>5. S = [sess EXCEPT ![s] = Halted(sess[s], "jobs", b)]
      BY <2>1, <2>3 DEF Halted
  <2>6. sess[s] \in SessRec
      BY <2>1
  <2>7. /\ Halted(sess[s], "jobs", b) \in SessRec
        /\ Halted(sess[s], "jobs", b).at = "jobs" /\ Halted(sess[s], "jobs", b).aborted = b
        /\ Halted(sess[s], "jobs", b).turn = sess[s].turn
        /\ Halted(sess[s], "jobs", b).claimed = sess[s].claimed
      BY <2>2, <2>6, StoppingParts, Zenon
  <2>8. S \in [Session -> SessRec] /\ S[s] = Halted(sess[s], "jobs", b)
        /\ \A r \in Session : r # s => S[r] = sess[r]
      BY <2>1, <2>5, <2>7
  <2>9. \A r \in Session : Rested(sess[r], S[r])
      BY <1>2, <2>1, <2>4, <2>7, <2>8 DEF Rested
  <2>10. S[s].at # "live"
      BY <2>7, <2>8
  <2>. QED  BY <2>8, <2>9, <2>10 DEF S
<1>. QED  BY <1>1, <1>2

\* A turn that goes on as it was, but for what will be said of its end.
TurnsCalm ==
    \A t \in Turn :
        /\ turn'[t].sess = turn[t].sess /\ turn'[t].own = turn[t].own
        /\ turn'[t].told = turn[t].told /\ turn'[t].thrown = turn[t].thrown
        /\ turn[t].terminal # None => turn'[t].terminal # None

\* The failures stay within their bound.
LEMMA FaultsBounded ==
    ASSUME TypeOK, NEW A, IsFiniteSet(A), NEW own, NEW F \in Failures(A, own)
    PROVE  F \subseteq A /\ Faulted(F, own) \in 0 .. MaxFaults
<1>1. CASE own # ownership
    BY <1>1 DEF Failures, Faulted, TypeOK
<1>2. CASE own = ownership
  <2>1. F \subseteq A /\ faults + Cardinality(F) <= MaxFaults
      BY <1>2 DEF Failures
  <2>2. Cardinality(F) \in Nat
      BY <2>1, FS_Subset, FS_CardinalityType
  <2>3. faults \in Nat /\ MaxFaults \in Nat
      BY TurnsAssumption DEF TypeOK
  <2>. DEFINE n == Cardinality(F)
  <2>4. faults + n \in 0 .. MaxFaults
    <3>. HIDE DEF n
    <3>1. n \in Nat /\ faults + n <= MaxFaults
        BY <2>1, <2>2 DEF n
    <3>. QED  BY <2>3, <3>1, SMT
  <2>. QED  BY <1>2, <2>1, <2>4 DEF Faulted
<1>. QED  BY <1>1, <1>2

-----------------------------------------------------------------------------
(* What the parts of the invariant need.                                   *)

CallsCalm == \A c \in Call : call'[c] = call[c] \/ call'[c] = "done"

\* A cancelled or closed session is in its place as before.
LEMMA SessionsKept ==
    ASSUME Inv, SessionsCalm, UNCHANGED <<current, ownership>>
    PROVE  Sessions'
<1>1. ASSUME NEW s \in Session
      PROVE  /\ s # current <=> sess'[s].at \in {"none", "closed"}
             /\ sess'[s].claimed <=> s = current
             /\ sess'[s].turn # None => sess'[s].at \in {"live", "jobs"}
  <2>1. Rested(sess[s], sess'[s])
      BY DEF SessionsCalm
  <2>2. /\ s # current <=> sess[s].at \in {"none", "closed"}
        /\ sess[s].claimed <=> s = current
        /\ sess[s].turn # None => sess[s].at \in {"live", "jobs"}
      BY DEF Inv, Sessions
  <2>. QED  BY <2>1, <2>2 DEF Rested
<1>. QED  BY <1>1 DEF Inv, Sessions

\* What an opening relies on is there while sessions and calls only rest.
LEMMA OpeningsKept ==
    ASSUME Inv, SessionsCalm, CallsCalm, UNCHANGED <<current, opening>>
    PROVE  Openings'
<1>1. ASSUME NEW c \in Call, call'[c] = "opened"
      PROVE  current # 0 /\ sess'[current].at \in {"live", "jobs"}
  <2>1. current # 0 /\ sess[current].at \in {"live", "jobs"}
      BY <1>1 DEF CallsCalm, Inv, Openings
  <2>2. current \in Session
      BY <2>1 DEF Inv, Types, TypeOK
  <2>. QED  BY <2>1, <2>2 DEF SessionsCalm, Rested
<1>2. \A c \in Call : call'[c] = "opening" => opening'
    BY DEF CallsCalm, Inv, Openings
<1>. QED  BY <1>1, <1>2 DEF Inv, Openings

\* A turn that was accepted is told once, while its session is remembered.
LEMMA JobsKept ==
    ASSUME Inv, TurnsCalm, UNCHANGED <<active, job, current>>
    PROVE  Jobs'
<1>1. \A t \in Turn : turn'[t].told = "started" <=> job'.turn = t
    BY DEF TurnsCalm, Inv, Jobs
<1>2. \A t \in Turn : turn'[t].thrown => turn'[t].terminal # None
    BY DEF TurnsCalm, Inv, Jobs
<1>3. job.turn # None => job.turn \in Turn
    BY DEF Inv, Types, TypeOK
<1>4. job.turn # None =>
         /\ active = None => job.failed
         /\ current # 0
         /\ turn'[job.turn].sess = current /\ turn'[job.turn].own = current
    BY <1>3 DEF TurnsCalm, Inv, Jobs
<1>. QED  BY <1>1, <1>2, <1>4 DEF Inv, Jobs

\* What is known of the approvals stays true of their later states.
LEMMA AsksKept ==
    ASSUME Inv, AsksCalm, UNCHANGED job
    PROVE  Asks'
BY DEF Inv, Asks, AsksCalm, Later

\* Where the approvals are asked for.
LEMMA EventsKept ==
    ASSUME Inv, AsksCalm, UNCHANGED queue
    PROVE  Events'
<1>1. \A t, i, a : Waits(t, i, a)' <=> Waits(t, i, a)
    BY DEF Waits
<1>2. ASSUME NEW t \in Turn, NEW a \in Approval, NEW i \in Nat, Waits(t, i, a)
      PROVE  /\ ask'[a].told = "no" /\ ~ ask'[a].pending /\ ask'[a].sess # 0
             /\ \A u \in Turn, j \in Nat : Waits(u, j, a) => u = t /\ j = i
  <2>1. ask[a].told = "no" /\ ~ ask[a].pending /\ ask[a].sess # 0
      BY <1>2 DEF Inv, Events
  <2>2. Later(ask[a], ask'[a])
      BY DEF AsksCalm
  <2>3. \A u \in Turn, j \in Nat : Waits(u, j, a) => u = t /\ j = i
      BY <1>2 DEF Inv, Events
  <2>. QED  BY <2>1, <2>2, <2>3 DEF Later
<1>. QED  BY <1>1, <1>2 DEF Events

\* A session whose turn has ended is not aborted any more.
LEMMA RunningKept ==
    ASSUME Inv, SessionsCalm, TurnsCalm, UNCHANGED <<active, queue>>
    PROVE  Running'
<1>. SUFFICES ASSUME active' # None, ~ turn'[active'].thrown
              PROVE  Run(active)'
    BY DEF Running
<1>1. active # None /\ active \in Turn /\ turn[active].sess \in Session
    BY ActiveFacts
<1>2. ~ turn[active].thrown /\ turn'[active].sess = turn[active].sess
      /\ (turn[active].terminal # None => turn'[active].terminal # None)
    BY <1>1 DEF TurnsCalm
<1>3. Run(active)
    BY <1>1, <1>2 DEF Inv, Running
<1>4. Rested(sess[turn[active].sess], sess'[turn[active].sess])
    BY <1>1 DEF SessionsCalm
<1>. QED  BY <1>1, <1>2, <1>3, <1>4 DEF Run, Rested

\* The thread as it was, and perhaps the service on its way to be closed.
LEMMA TeardownsKept ==
    ASSUME Inv, SessionsCalm, AsksCalm, CallsCalm,
           UNCHANGED <<threads, active, job>>, closeAt' \in {closeAt, "calls"}
    PROVE  Teardowns'
<1>1. down = NoDown <=> down.at = "none"
    BY DEF Inv, Teardowns
<1>2. down.at = "session" =>
         /\ ~ opening /\ current \in {0, down.sess}
         /\ down.sess # 0 => sess'[down.sess].at \notin {"none", "live"}
  <2>1. down.sess # 0 => down.sess \in Session
      BY DEF Inv, Types, DownRec
  <2>. QED  BY <2>1 DEF Inv, Teardowns, SessionsCalm, Rested
<1>3. deleted => Quiet' /\ current = 0 /\ ~ opening
  <2>1. deleted => Quiet /\ current = 0 /\ ~ opening
      BY DEF Inv, Teardowns
  <2>2. Quiet => Quiet'
      BY DEF Quiet, SessionsCalm, Rested, AsksCalm, Later
  <2>. QED  BY <2>1, <2>2
<1>4. closeAt' \in {"sessions", "closed", "failed"} =>
         /\ ~ opening /\ down.at \in {"none", "failed"}
         /\ \A c \in Call : call'[c] \in {"idle", "done"}
  <2>1. closeAt \in {"sessions", "closed", "failed"} =>
         /\ ~ opening /\ down.at \in {"none", "failed"}
         /\ \A c \in Call : call[c] \in {"idle", "done"}
      BY DEF Inv, Teardowns
  <2>2. closeAt' \in {"sessions", "closed", "failed"} => closeAt \in {"sessions", "closed", "failed"}
      OBVIOUS
  <2>. QED  BY <2>1, <2>2 DEF CallsCalm
<1>. QED  BY <1>1, <1>2, <1>3, <1>4 DEF Teardowns, threads, NoDown

\* The types, when only this has changed.
LEMMA TypesKept ==
    ASSUME Inv, UNCHANGED <<threads, active, job, queue>>,
           call' \in [Call -> {"idle", "opening", "opened", "done"}],
           closeAt' \in {closeAt, "calls"},
           turn' \in [Turn -> TurnRec], sess' \in [Session -> SessRec],
           ask' \in [Approval -> AskRec], faults' \in 0 .. MaxFaults,
           settled' \in Seq(Turn), Len(settled') <= CacheSize
    PROVE  Types'
<1>1. \A i \in DOMAIN settled' : settled'[i] \in Turn
    BY ElementOfSeq, LenProperties
<1>2. closeAt' \in {"no", "calls", "sessions", "closed", "failed"}
    BY DEF Inv, Types, TypeOK
<1>. QED
    BY <1>1, <1>2 DEF Inv, Types, TypeOK, threads, TurnRec, SessRec, AskRec

\* Whatever cancels a turn, settles its approvals and says nothing else keeps the
\* invariant.
LEMMA CalmKeeps ==
    ASSUME Inv, UNCHANGED <<threads, active, job, queue>>,
           call' \in [Call -> {"idle", "opening", "opened", "done"}], CallsCalm,
           closeAt' \in {closeAt, "calls"},
           turn' \in [Turn -> TurnRec], TurnsCalm,
           sess' \in [Session -> SessRec], SessionsCalm,
           ask' \in [Approval -> AskRec], AsksCalm,
           faults' \in 0 .. MaxFaults,
           settled' \in Seq(Turn), Len(settled') <= CacheSize
    PROVE  Inv'
<1>1. Types'
    BY TypesKept
<1>2. UNCHANGED <<current, ownership, opening>>
    BY DEF threads
<1>3. Sessions' /\ Openings' /\ Jobs' /\ Asks' /\ Events' /\ Running' /\ Teardowns'
    BY <1>2, SessionsKept, OpeningsKept, JobsKept, AsksKept, EventsKept, RunningKept,
       TeardownsKept
<1>. QED  BY <1>1, <1>3 DEF Inv

-----------------------------------------------------------------------------
(* The owners of settled turns.                                            *)

Recorded(t) == \E i \in DOMAIN settled : settled[i] = t

\* Without leaves one entry of t out, and the others in their order.
LEMMA WithoutIs ==
    ASSUME settled \in Seq(Turn), NEW t
    PROVE  /\ Without(t) \in Seq(Turn)
           /\ Len(Without(t)) = IF Recorded(t) THEN Len(settled) - 1 ELSE Len(settled)
           /\ ~ Recorded(t) => Without(t) = settled
           /\ Recorded(t) => \E j \in DOMAIN settled :
                 settled[j] = t /\ \A i \in 1 .. Len(settled) - 1 :
                     Without(t)[i] = settled[IF i < j THEN i ELSE i + 1]
<1>. DEFINE n == Len(settled)
<1>1. n \in Nat /\ DOMAIN settled = 1 .. n /\ \A i \in 1 .. n : settled[i] \in Turn
    BY LenProperties, ElementOfSeq
<1>2. CASE ~ Recorded(t)
    BY <1>2 DEF Without, Recorded
<1>3. CASE Recorded(t)
  <2>. DEFINE j == CHOOSE i \in DOMAIN settled : settled[i] = t
              f == [i \in 1 .. n - 1 |-> settled[IF i < j THEN i ELSE i + 1]]
  <2>1. j \in DOMAIN settled /\ settled[j] = t
      BY <1>3 DEF Recorded
  <2>2. Without(t) = f
      BY <1>3 DEF Without, Recorded
  <2>. HIDE DEF j
  <2>3. n - 1 \in Nat
      BY <1>1, <2>1, SMT
  <2>4. \A i \in 1 .. n - 1 : (IF i < j THEN i ELSE i + 1) \in 1 .. n
      BY <1>1, <2>1, SMT
  <2>5. f \in [1 .. n - 1 -> Turn]
      BY <1>1, <2>4
  <2>. HIDE DEF n
  <2>6. f \in Seq(Turn) /\ Len(f) = n - 1
      BY <2>3, <2>5, SMT
  <2>7. \A i \in 1 .. n - 1 : f[i] = settled[IF i < j THEN i ELSE i + 1]
      OBVIOUS
  <2>. HIDE DEF f
  <2>. QED  BY <1>3, <2>1, <2>2, <2>6, <2>7 DEF n
<1>. QED  BY <1>2, <1>3

\* Latest puts t at the end, and the sequence grows only by a turn that is new.
LEMMA LatestIs ==
    ASSUME settled \in Seq(Turn), NEW t \in Turn
    PROVE  /\ Latest(t) \in Seq(Turn)
           /\ Len(Latest(t)) = Len(Without(t)) + 1
           /\ \A i \in 1 .. Len(Without(t)) : Latest(t)[i] = Without(t)[i]
           /\ Latest(t)[Len(Without(t)) + 1] = t
<1>1. Without(t) \in Seq(Turn)
    BY WithoutIs
<1>. DEFINE w == Without(t)
<1>. HIDE DEF w
<1>2. w \in Seq(Turn) => /\ Append(w, t) \in Seq(Turn) /\ Len(Append(w, t)) = Len(w) + 1
                         /\ \A i \in 1 .. Len(w) : Append(w, t)[i] = w[i]
                         /\ Append(w, t)[Len(w) + 1] = t
    BY SMT
<1>. QED  BY <1>1, <1>2 DEF Latest, w

\* A turn that is found is the latest, and one that settles may push the oldest
\* out.
LEMMA OwnersTyped ==
    ASSUME Types, NEW t \in Turn
    PROVE  /\ Found(t) \in Seq(Turn) /\ Len(Found(t)) <= CacheSize
           /\ Settle(t) \in Seq(Turn) /\ Len(Settle(t)) <= CacheSize
<1>1. settled \in Seq(Turn) /\ Len(settled) \in Nat /\ Len(settled) <= CacheSize
    BY LenProperties DEF Types, TypeOK
<1>. DEFINE q == Latest(t)
            m == IF Len(q) > CacheSize THEN Len(q) - CacheSize + 1 ELSE 1
<1>2. q \in Seq(Turn) /\ Len(q) \in Nat /\ Len(q) = Len(Without(t)) + 1
    BY <1>1, LatestIs, LenProperties
<1>3. Found(t) \in Seq(Turn) /\ Len(Found(t)) <= CacheSize
  <2>1. CASE active # t /\ Known(t)
    <3>1. Recorded(t)
        BY <2>1 DEF Known, Recorded
    <3>2. Len(q) = Len(settled)
        BY <1>1, <1>2, <3>1, WithoutIs, SMT
    <3>. QED  BY <1>1, <1>2, <2>1, <3>2 DEF Found
  <2>2. CASE ~ (active # t /\ Known(t))
      BY <1>1, <2>2 DEF Found
  <2>. QED  BY <2>1, <2>2
<1>4. SubSeq(q, m, Len(q)) \in Seq(Turn) /\ Len(SubSeq(q, m, Len(q))) <= CacheSize
  <2>1. m \in 1 .. Len(q) + 1 /\ m \in Int /\ Len(q) \in Int
      BY <1>2, TurnsAssumption, SMT
  <2>2. \A i \in m .. Len(q) : q[i] \in Turn
    <3>. HIDE DEF q, m
    <3>1. \A i \in m .. Len(q) : i \in 1 .. Len(q)
        BY <1>2, <2>1, SMT
    <3>. QED  BY <1>2, <3>1, ElementOfSeq
  <2>3. /\ SubSeq(q, m, Len(q)) \in Seq(Turn)
        /\ Len(SubSeq(q, m, Len(q))) = IF m <= Len(q) THEN Len(q) - m + 1 ELSE 0
    <3>. HIDE DEF q, m
    <3>. QED  BY <2>1, <2>2, SubSeqProperties
  <2>4. (IF m <= Len(q) THEN Len(q) - m + 1 ELSE 0) <= CacheSize
    <3>. DEFINE n == Len(q)
    <3>1. n \in Nat /\ CacheSize \in Nat \ {0}
        BY <1>2, TurnsAssumption
    <3>. HIDE DEF n
    <3>2. LET k == IF n > CacheSize THEN n - CacheSize + 1 ELSE 1
          IN  (IF k <= n THEN n - k + 1 ELSE 0) <= CacheSize
        BY <3>1, SMT
    <3>. QED  BY <3>2 DEF n
  <2>. HIDE DEF q, m
  <2>. QED  BY <2>3, <2>4
<1>5. Settle(t) \in Seq(Turn) /\ Len(Settle(t)) <= CacheSize
    BY <1>1, <1>4 DEF Settle
<1>. QED  BY <1>3, <1>5

-----------------------------------------------------------------------------
(* The steps that cancel.                                                  *)

\* What stays as it is keeps its type, and goes on.
LEMMA NothingChanged ==
    ASSUME Inv
    PROVE  /\ call \in [Call -> {"idle", "opening", "opened", "done"}]
           /\ turn \in [Turn -> TurnRec] /\ sess \in [Session -> SessRec]
           /\ ask \in [Approval -> AskRec] /\ queue \in [Turn -> QueueRec]
           /\ faults \in 0 .. MaxFaults
           /\ settled \in Seq(Turn) /\ Len(settled) <= CacheSize
           /\ closeAt \in {closeAt, "calls"}
           /\ UNCHANGED call => CallsCalm
           /\ UNCHANGED turn => TurnsCalm
           /\ UNCHANGED sess => SessionsCalm
           /\ UNCHANGED ask => AsksCalm
<1>1. /\ call \in [Call -> {"idle", "opening", "opened", "done"}]
      /\ turn \in [Turn -> TurnRec] /\ sess \in [Session -> SessRec]
      /\ ask \in [Approval -> AskRec] /\ queue \in [Turn -> QueueRec]
      /\ faults \in 0 .. MaxFaults
      /\ settled \in Seq(Turn) /\ Len(settled) <= CacheSize
    BY DEF Inv, Types, TypeOK, TurnRec, SessRec, AskRec
<1>2. UNCHANGED ask => AsksCalm
  <2>1. Calm(ask, ask)
      BY <1>1, SameCalm
  <2>. QED  BY <2>1, CalmIsLater
<1>3. UNCHANGED sess => SessionsCalm
    BY SessionRests DEF SessionsCalm, Inv, Types
<1>. QED  BY <1>1, <1>2, <1>3 DEF CallsCalm, TurnsCalm

\* A step that changes nothing.
LEMMA StutterKeeps == ASSUME Inv, UNCHANGED vars PROVE Inv'
<1>1. /\ UNCHANGED <<threads, active, job, queue>> /\ UNCHANGED <<call, turn, sess, ask>>
      /\ UNCHANGED <<faults, settled, closeAt>>
    BY DEF vars
<1>. QED  BY <1>1, NothingChanged, CalmKeeps

\* The turn's timer: the turn is aborted, its approvals are denied.
LEMMA ExpireKeeps ==
    ASSUME Inv, NEW s \in Session, ExpireTurn(s)
    PROVE  Inv'
<1>1. sess' \in [Session -> SessRec] /\ SessionsCalm
    BY AbortRests DEF ExpireTurn, Inv, Types, SessionsCalm
<1>2. Calm(ask, ask')
    BY CloseCalm DEF ExpireTurn, Inv, Types
<1>3. AsksCalm /\ ask' \in [Approval -> AskRec]
    BY <1>2, CalmIsLater
<1>4. UNCHANGED <<threads, active, job, queue>> /\ UNCHANGED <<call, turn, faults, settled, closeAt>>
    BY DEF ExpireTurn
<1>. QED  BY <1>1, <1>3, <1>4, NothingChanged, CalmKeeps

\* A cancelled session, after approvals were settled.
LEMMA CancelledTable ==
    ASSUME Inv, NEW K \in [Approval -> AskRec], \A a \in Approval : Later(ask[a], K[a]),
           NEW L, Calm(K, L), ask' = L
    PROVE  ask' \in [Approval -> AskRec] /\ AsksCalm
BY LaterCalm DEF Calm, AsksCalm

\* cancelTurn tells its approvals to be cancelled, then aborts the turn.
LEMMA CancelTurnKeeps ==
    ASSUME Inv, NEW t \in Turn, CancelTurn(t)
    PROVE  Inv'
<1>. DEFINE A == Pending(t)
            s == turn[t].sess
<1>1. A \subseteq Approval /\ IsFiniteSet(A) /\ \A a \in A : ask[a].pending
    BY FS_Subset, TurnsAssumption DEF Pending
<1>2. t # None /\ active = t
    BY TurnsAssumption DEF CancelTurn
<1>3. s \in Session
    BY <1>2, ActiveFacts
<1>4. PICK F \in Failures(A, turn[t].own) :
        /\ faults' = Faulted(F, turn[t].own)
        /\ ask' = CancelledAsks(Resolved(ask, A, F, "cancelled"), s)
    BY DEF CancelTurn
<1>. HIDE DEF A, s
<1>5. faults' \in 0 .. MaxFaults
    BY <1>1, <1>4, FaultsBounded DEF Inv, Types
<1>6. ask' \in [Approval -> AskRec] /\ AsksCalm
  <2>. DEFINE K == Resolved(ask, A, F, "cancelled")
  <2>1. K \in [Approval -> AskRec] /\ \A a \in Approval : Later(ask[a], K[a])
      BY <1>1, CancelledLater
  <2>. HIDE DEF K
  <2>2. Calm(K, CancelledAsks(K, s))
      BY <2>1, CancelCalm
  <2>. QED  BY <1>4, <2>1, <2>2, CancelledTable DEF K
<1>7. sess' \in [Session -> SessRec] /\ SessionsCalm
    BY <1>3, CancelRests DEF CancelTurn, Inv, Types, SessionsCalm, s
<1>8. UNCHANGED <<threads, active, job, queue>> /\ UNCHANGED <<call, turn, settled, closeAt>>
    BY DEF CancelTurn
<1>. QED  BY <1>5, <1>6, <1>7, <1>8, NothingChanged, CalmKeeps

\* notifyFatalError cancels the session of the active turn, if any.
LEMMA FatalRests ==
    ASSUME Inv, NEW F, sess' = FatalSession(F)
    PROVE  sess' \in [Session -> SessRec] /\ SessionsCalm
<1>1. CASE F = {} \/ active = None
  <2>1. UNCHANGED sess
      BY <1>1 DEF FatalSession
  <2>. QED  BY <2>1, NothingChanged
<1>2. CASE ~ (F = {} \/ active = None)
  <2>1. turn[active].sess \in Session
      BY <1>2, ActiveFacts
  <2>2. sess' = CancelledSession(turn[active].sess)
      BY <1>2 DEF FatalSession
  <2>. QED  BY <2>1, <2>2, CancelRests DEF Inv, Types, SessionsCalm
<1>. QED  BY <1>1, <1>2

\* A client's decision goes to the gate, and what the gate made of it is told.
LEMMA RespondKeeps ==
    ASSUME Inv, NEW a \in Approval, NEW d \in {"approved", "denied"}, Respond(a, d)
    PROVE  Inv'
<1>. DEFINE known == ask[a].gate
            answered == IF known THEN [ask EXCEPT ![a].gate = FALSE, ![a].decision = d] ELSE ask
            how == IF ~ known THEN "cancelled" ELSE d
            own == ask[a].own
<1>1. /\ ask[a].pending
      /\ \E F \in Failures({a}, own) :
           /\ faults' = Faulted(F, own)
           /\ ask' = FatalAsks(Resolved(answered, {a}, F, how), F)
           /\ sess' = FatalSession(F)
      /\ UNCHANGED <<call, threads, active, turn, job, settled, queue, closeAt>>
    BY DEF Respond
<1>2. PICK F \in Failures({a}, own) :
           /\ faults' = Faulted(F, own)
           /\ ask' = FatalAsks(Resolved(answered, {a}, F, how), F)
           /\ sess' = FatalSession(F)
    BY <1>1
<1>3. faults' \in 0 .. MaxFaults
    BY <1>2, FaultsBounded, FS_Singleton DEF Inv, Types
<1>4. sess' \in [Session -> SessRec] /\ SessionsCalm
    BY <1>2, FatalRests
<1>5. ask \in [Approval -> AskRec] /\ \A b \in Approval : ask[b] \in AskRec /\ Fine(ask[b])
    BY NothingChanged DEF Inv, Asks
<1>. DEFINE q == IF known THEN Decided(ask[a], d) ELSE ask[a]
            told == IF a \in F THEN "lost" ELSE how
            K == Resolved(answered, {a}, F, how)
<1>6. K = [ask EXCEPT ![a] = Taken(q, told)]
  <2>1. answered = [ask EXCEPT ![a] = q]
      BY <1>5 DEF Decided
  <2>2. answered[a] = q /\ \A b \in Approval : b # a => answered[b] = ask[b]
      BY <1>5, <2>1
  <2>. HIDE DEF answered, q, how
  <2>3. K = [b \in Approval |-> IF b \in {a} THEN Taken(answered[b], IF b \in F THEN "lost" ELSE how)
                                ELSE answered[b]]
      BY ResolvedIs
  <2>. HIDE DEF K
  <2>. QED  BY <1>5, <2>2, <2>3
<1>7. Later(ask[a], Taken(q, told))
  <2>1. \/ q = ask[a] /\ told \in {"cancelled", "lost"}
        \/ ask[a].gate /\ q = Decided(ask[a], d) /\ told \in {d, "lost"}
      OBVIOUS
  <2>. HIDE DEF q, told
  <2>. QED  BY <1>1, <1>5, <2>1, SettledLater
<1>. HIDE DEF q, told, known, answered, how, own
<1>8. K \in [Approval -> AskRec] /\ \A b \in Approval : Later(ask[b], K[b])
  <2>1. Taken(q, told) \in AskRec
      BY <1>7 DEF Later
  <2>2. K \in [Approval -> AskRec] /\ K[a] = Taken(q, told)
        /\ \A b \in Approval : b # a => K[b] = ask[b]
      BY <1>5, <1>6, <2>1
  <2>. HIDE DEF K
  <2>3. \A b \in Approval : Later(ask[b], ask[b])
      BY <1>5 DEF Later
  <2>. QED  BY <1>7, <2>2, <2>3
<1>9. ask' \in [Approval -> AskRec] /\ AsksCalm
  <2>1. ask' = FatalAsks(K, F)
      BY <1>2
  <2>. HIDE DEF K
  <2>2. Calm(K, FatalAsks(K, F))
      BY <1>8, CancelCalm
  <2>. QED  BY <1>8, <2>1, <2>2, CancelledTable
<1>. QED  BY <1>1, <1>3, <1>4, <1>9, NothingChanged, CalmKeeps

\* An approval that clients could not be asked for fails the turn.
LEMMA FailKeeps ==
    ASSUME Inv, NEW a \in Approval, FailInteraction(a)
    PROVE  Inv'
<1>. DEFINE t == ask[a].turn
            s == ask[a].sess
<1>1. ask[a] \in AskRec /\ ask[a].pending /\ {a} \subseteq Approval /\ IsFiniteSet({a})
    BY NothingChanged, FS_Singleton DEF FailInteraction
<1>2. s \in Session
    BY <1>1 DEF Inv, Asks, Fine, AskRec
<1>3. turn' = IF active = t THEN [turn EXCEPT ![t].failure = TRUE] ELSE turn
    BY DEF FailInteraction
<1>4. PICK F \in Failures({a}, ask[a].own) :
        /\ faults' = Faulted(F, ask[a].own)
        /\ ask' = CancelledAsks(Resolved(ask, {a}, F, "cancelled"), s)
    BY DEF FailInteraction
<1>5. faults' \in 0 .. MaxFaults
    BY <1>1, <1>4, FaultsBounded DEF Inv, Types
<1>6. ask' \in [Approval -> AskRec] /\ AsksCalm
  <2>. DEFINE K == Resolved(ask, {a}, F, "cancelled")
  <2>1. \A b \in {a} : ask[b].pending
      BY <1>1
  <2>2. K \in [Approval -> AskRec] /\ \A b \in Approval : Later(ask[b], K[b])
      BY <1>1, <2>1, CancelledLater
  <2>. HIDE DEF K, s
  <2>3. Calm(K, CancelledAsks(K, s))
      BY <2>2, CancelCalm
  <2>. QED  BY <1>4, <2>2, <2>3, CancelledTable DEF K
<1>7. sess' \in [Session -> SessRec] /\ SessionsCalm
    BY <1>2, CancelRests DEF FailInteraction, Inv, Types, SessionsCalm
<1>8. turn' \in [Turn -> TurnRec] /\ TurnsCalm
  <2>1. turn \in [Turn -> TurnRec]
      BY NothingChanged
  <2>. HIDE DEF t
  <2>2. turn' \in [Turn -> TurnRec]
      BY <1>3, <2>1 DEF TurnRec
  <2>3. TurnsCalm
      BY <1>3, <2>1 DEF TurnsCalm, TurnRec
  <2>. QED  BY <2>2, <2>3
<1>9. UNCHANGED <<threads, active, job, queue>> /\ UNCHANGED <<call, settled, closeAt>>
    BY DEF FailInteraction
<1>. QED  BY <1>5, <1>6, <1>7, <1>8, <1>9, NothingChanged, CalmKeeps

\* close, which cancels the turn that runs.
LEMMA CloseServiceKeeps ==
    ASSUME Inv, CloseService
    PROVE  Inv'
<1>1. closeAt' \in {closeAt, "calls"} /\ UNCHANGED <<threads, active, job, queue>>
      /\ UNCHANGED <<call, turn, settled, faults>>
    BY DEF CloseService
<1>2. sess' \in [Session -> SessRec] /\ SessionsCalm
      /\ ask' \in [Approval -> AskRec] /\ AsksCalm
  <2>1. CASE active = None
      BY <2>1, NothingChanged DEF CloseService
  <2>2. CASE active # None
    <3>. DEFINE s == turn[active].sess
    <3>1. s \in Session /\ ask' = CancelledAsks(ask, s) /\ sess' = CancelledSession(s)
        BY <2>2, ActiveFacts DEF CloseService
    <3>. HIDE DEF s
    <3>2. sess' \in [Session -> SessRec] /\ SessionsCalm
        BY <3>1, CancelRests DEF Inv, Types, SessionsCalm
    <3>3. Calm(ask, ask')
        BY <3>1, CancelCalm, NothingChanged
    <3>. QED  BY <3>2, <3>3, CalmIsLater
  <2>. QED  BY <2>1, <2>2
<1>. QED  BY <1>1, <1>2, NothingChanged, CalmKeeps

-----------------------------------------------------------------------------
(* The steps that open a session, and accept a turn.                       *)

\* The request or openThread goes to the engine, or has its session.
LEMMA OpeningKeeps ==
    ASSUME Inv, ThreadOpen, ~ deleted, Openings',
           call' \in [Call -> {"idle", "opening", "opened", "done"}], opening' \in BOOLEAN,
           settled' \in Seq(Turn), Len(settled') <= CacheSize,
           UNCHANGED <<current, ownership, down, deleted, active, turn, job, queue, sess, ask,
                       closeAt, faults>>
    PROVE  Inv'
<1>1. Types'
  <2>1. \A i \in DOMAIN settled' : settled'[i] \in Turn
      BY ElementOfSeq, LenProperties
  <2>. QED  BY <2>1 DEF Inv, Types, TypeOK
<1>2. UNCHANGED <<current, ownership>> /\ UNCHANGED <<active, job, current>>
      /\ UNCHANGED <<active, queue>> /\ UNCHANGED <<sess, turn, ask>>
    OBVIOUS
<1>3. SessionsCalm /\ TurnsCalm /\ AsksCalm
    BY <1>2, NothingChanged
<1>4. Sessions' /\ Jobs' /\ Asks' /\ Events' /\ Running'
    BY <1>2, <1>3, SessionsKept, JobsKept, AsksKept, EventsKept, RunningKept
<1>5. Teardowns'
    BY DEF Inv, Teardowns, ThreadOpen, Open, NoDown
<1>. QED  BY <1>1, <1>4, <1>5 DEF Inv

\* turn.start, up to its await.
LEMMA BeginStartKeeps ==
    ASSUME Inv, NEW c \in Call, BeginStart(c)
    PROVE  Inv'
<1>. DEFINE t == TurnOf[c]
<1>1. t \in Turn
    BY TurnsAssumption
<1>2. settled' \in Seq(Turn) /\ Len(settled') <= CacheSize
    BY <1>1, OwnersTyped DEF BeginStart, Inv, Types
<1>3. call \in [Call -> {"idle", "opening", "opened", "done"}]
    BY NothingChanged
<1>4. CASE /\ call' = [call EXCEPT ![c] = "done"]
           /\ UNCHANGED opening
  <2>1. call' \in [Call -> {"idle", "opening", "opened", "done"}] /\ CallsCalm
      BY <1>3, <1>4 DEF CallsCalm
  <2>2. UNCHANGED <<threads, active, job, queue>> /\ UNCHANGED <<turn, sess, ask, faults, closeAt>>
      BY <1>4 DEF BeginStart, threads
  <2>. QED  BY <1>2, <2>1, <2>2, NothingChanged, CalmKeeps
<1>5. CASE /\ ThreadOpen /\ current # 0 /\ sess[current].at = "live"
           /\ call' = [call EXCEPT ![c] = "opened"]
           /\ UNCHANGED opening
  <2>1. call' \in [Call -> {"idle", "opening", "opened", "done"}] /\ opening' \in BOOLEAN
      BY <1>3, <1>5 DEF Inv, Types, TypeOK
  <2>2. UNCHANGED <<current, sess>>
      BY DEF BeginStart
  <2>3. Openings'
      BY <1>3, <1>5, <2>2 DEF Inv, Openings
  <2>. QED  BY <1>2, <1>5, <2>1, <2>3, OpeningKeeps DEF BeginStart
<1>6. CASE /\ ThreadOpen /\ current = 0
           /\ call' = [call EXCEPT ![c] = "opening"]
           /\ opening' = TRUE
  <2>1. call' \in [Call -> {"idle", "opening", "opened", "done"}] /\ opening' \in BOOLEAN
      BY <1>3, <1>6
  <2>2. UNCHANGED <<current, sess>>
      BY DEF BeginStart
  <2>3. Openings'
      BY <1>3, <1>6, <2>2 DEF Inv, Openings
  <2>. QED  BY <1>2, <1>6, <2>1, <2>3, OpeningKeeps DEF BeginStart
<1>. QED  BY <1>4, <1>5, <1>6 DEF BeginStart

\* openThread.
LEMMA OpenThreadKeeps ==
    ASSUME Inv, OpenThread
    PROVE  Inv'
<1>1. opening' = TRUE /\ current = 0 /\ UNCHANGED <<call, current, sess, settled>>
    BY DEF OpenThread
<1>2. Openings'
    BY <1>1 DEF Inv, Openings
<1>3. /\ call' \in [Call -> {"idle", "opening", "opened", "done"}] /\ opening' \in BOOLEAN
      /\ settled' \in Seq(Turn) /\ Len(settled') <= CacheSize
    BY <1>1, NothingChanged
<1>. QED  BY <1>2, <1>3, OpeningKeeps DEF OpenThread

\* The session that is opened.
Remembered(r) == [r EXCEPT !.at = "live", !.claimed = TRUE]

\* What a session is that was opened.
LEMMA RememberedParts ==
    ASSUME NEW r \in SessRec
    PROVE  /\ Remembered(r) \in SessRec
           /\ Remembered(r).at = "live" /\ Remembered(r).claimed = TRUE
           /\ Remembered(r).turn = r.turn
BY DEF SessRec, Remembered

\* An opening is over: no teardown has begun to close the session, no thread was
\* deleted and the service does not close its sessions yet.
LEMMA OpenedKeeps ==
    ASSUME Inv, Opened
    PROVE  Inv'
<1>1. /\ opening /\ opening' = FALSE
      /\ UNCHANGED <<down, deleted, active, turn, job, settled, queue, ask, closeAt, faults>>
    BY DEF Opened
<1>2. current = 0 /\ ownership = 0
    BY <1>1 DEF Inv, Openings, Sessions
<1>3. Quiet
    BY <1>2, NothingLeft
<1>4. Teardowns'
    BY <1>1 DEF Inv, Teardowns
<1>5. \A c \in Call : call[c] # "opened"
    BY <1>2 DEF Inv, Openings
<1>6. Jobs'
    BY <1>1, <1>3 DEF Inv, Jobs, Quiet, NoJob
<1>7. AsksCalm
    BY <1>1, NothingChanged
<1>8. Asks' /\ Events' /\ Running'
    BY <1>1, <1>3, <1>7, AsksKept, EventsKept DEF Quiet, Running
<1>9. call \in [Call -> {"idle", "opening", "opened", "done"}] /\ sess \in [Session -> SessRec]
    BY NothingChanged
<1>10. ASSUME NEW s \in Session,
              sess[s].at = "none",
              sess' = [sess EXCEPT ![s].at = "live", ![s].claimed = TRUE],
              current' = s, ownership' = IF ownership = 0 THEN s ELSE ownership,
              call' = [c \in Call |-> IF call[c] # "opening" THEN call[c]
                                      ELSE IF ThreadOpen THEN "opened" ELSE "done"]
       PROVE  Inv'
  <2>1. sess' = [sess EXCEPT ![s] = Remembered(sess[s])]
      BY <1>9, <1>10 DEF Remembered
  <2>2. /\ sess' \in [Session -> SessRec]
        /\ sess'[s].at = "live" /\ sess'[s].claimed = TRUE /\ sess'[s].turn = sess[s].turn
        /\ \A r \in Session : r # s => sess'[r] = sess[r]
      BY <1>9, <2>1, RememberedParts
  <2>3. current' = s /\ ownership' = s /\ s # 0
      BY <1>2, <1>10, Fields DEF Inv, Types
  <2>4. Sessions'
    <3>1. ASSUME NEW r \in Session
          PROVE  /\ r # s <=> sess'[r].at \in {"none", "closed"}
                 /\ sess'[r].claimed <=> r = s
                 /\ sess'[r].turn # None => sess'[r].at \in {"live", "jobs"}
      <4>1. /\ r # current <=> sess[r].at \in {"none", "closed"}
            /\ sess[r].claimed <=> r = current
            /\ sess[r].turn # None => sess[r].at \in {"live", "jobs"}
          BY DEF Inv, Sessions
      <4>2. r # current
          BY <1>2, Fields DEF Inv, Types
      <4>. QED  BY <2>2, <4>1, <4>2
    <3>. QED  BY <2>3, <3>1 DEF Sessions
  <2>5. call' \in [Call -> {"idle", "opening", "opened", "done"}]
      BY <1>9, <1>10
  <2>6. Openings'
    <3>1. \A c \in Call : call'[c] # "opening"
        BY <1>10
    <3>. QED  BY <1>1, <2>2, <2>3, <3>1 DEF Openings
  <2>7. Types'
      BY <1>1, <2>2, <2>3, <2>5 DEF Inv, Types, TypeOK, SessRec
  <2>. QED  BY <1>4, <1>6, <1>8, <2>4, <2>6, <2>7 DEF Inv
<1>11. ASSUME call' = [c \in Call |-> IF call[c] = "opening" THEN "done" ELSE call[c]],
              UNCHANGED <<sess, current, ownership>>
       PROVE  Inv'
  <2>1. call' \in [Call -> {"idle", "opening", "opened", "done"}]
        /\ \A c \in Call : call'[c] \notin {"opening", "opened"}
      BY <1>5, <1>9, <1>11
  <2>2. Openings'
      BY <1>1, <2>1 DEF Openings
  <2>3. Types'
      BY <1>1, <1>11, <2>1 DEF Inv, Types, TypeOK
  <2>4. Sessions'
      BY <1>11 DEF Inv, Sessions
  <2>. QED  BY <1>4, <1>6, <1>8, <2>2, <2>3, <2>4 DEF Inv
<1>. QED  BY <1>10, <1>11 DEF Opened

\* The turn that is accepted, and its session.
Accepted(s, own, runs) ==
    [NoTurn EXCEPT !.sess = s, !.own = own, !.thrown = ~ runs,
                   !.terminal = IF runs THEN None ELSE "failed", !.told = "started"]
Begun(r, t) == [r EXCEPT !.turn = t, !.aborted = FALSE, !.emit = t]

\* What a turn is that was accepted.
LEMMA AcceptedParts ==
    ASSUME NEW s \in Session \cup {0}, NEW own \in Session \cup {0}, NEW runs \in BOOLEAN
    PROVE  /\ Accepted(s, own, runs) \in TurnRec
           /\ Accepted(s, own, runs).sess = s /\ Accepted(s, own, runs).own = own
           /\ Accepted(s, own, runs).told = "started"
           /\ Accepted(s, own, runs).thrown = ~ runs
           /\ Accepted(s, own, runs).terminal = IF runs THEN None ELSE "failed"
BY DEF Accepted, NoTurn, TurnRec

\* What its session is then.
LEMMA BegunParts ==
    ASSUME NEW r \in SessRec, NEW t \in Turn
    PROVE  /\ Begun(r, t) \in SessRec
           /\ Begun(r, t).turn = t /\ Begun(r, t).aborted = FALSE
           /\ Begun(r, t).at = r.at /\ Begun(r, t).claimed = r.claimed
BY DEF Begun, SessRec

\* A turn is accepted: its session is remembered, and no other turn has a job.
LEMMA AcceptKeeps ==
    ASSUME Inv, NEW c \in Call, NEW t \in Turn, call[c] = "opened",
           call' = [call EXCEPT ![c] = "done"],
           settled' \in Seq(Turn), Len(settled') <= CacheSize,
           active = None, job = NoJob, NEW runs \in BOOLEAN,
           runs => sess[current].at = "live" /\ sess[current].turn = None,
           active' = t,
           turn' = [turn EXCEPT ![t] = Accepted(current, ownership, runs)],
           job' = [turn |-> t, failed |-> FALSE],
           queue' = [queue EXCEPT ![t] = [events |-> <<>>, closed |-> FALSE]],
           sess' = IF runs THEN [sess EXCEPT ![current] = Begun(sess[current], t)] ELSE sess,
           UNCHANGED <<ask, faults, threads, closeAt>>
    PROVE  Inv'
<1>1. /\ call \in [Call -> {"idle", "opening", "opened", "done"}]
      /\ turn \in [Turn -> TurnRec] /\ sess \in [Session -> SessRec]
      /\ ask \in [Approval -> AskRec] /\ queue \in [Turn -> QueueRec]
    BY NothingChanged
<1>2. /\ current \in Session /\ current # 0 /\ ownership = current
      /\ sess[current].at \in {"live", "jobs"} /\ t # None
    BY TurnsAssumption DEF Inv, Types, TypeOK, Openings, Sessions
<1>3. UNCHANGED <<current, ownership, opening, down, deleted>>
    BY DEF threads
<1>4. /\ turn' \in [Turn -> TurnRec]
      /\ turn'[t].sess = current /\ turn'[t].own = current /\ turn'[t].told = "started"
      /\ turn'[t].thrown = ~ runs /\ (~ runs => turn'[t].terminal = "failed")
      /\ \A u \in Turn : u # t => turn'[u] = turn[u]
    BY <1>1, <1>2, AcceptedParts
<1>5. /\ sess' \in [Session -> SessRec]
      /\ runs => sess'[current].turn = t /\ ~ sess'[current].aborted
      /\ \A s \in Session : sess'[s].at = sess[s].at /\ sess'[s].claimed = sess[s].claimed
      /\ \A s \in Session : s # current => sess'[s] = sess[s]
      /\ sess'[current] = sess[current] \/ (runs /\ sess'[current].turn = t)
  <2>1. CASE runs
    <3>1. sess' = [sess EXCEPT ![current] = Begun(sess[current], t)]
        BY <2>1
    <3>2. sess[current] \in SessRec
        BY <1>1, <1>2
    <3>3. /\ Begun(sess[current], t) \in SessRec
          /\ Begun(sess[current], t).turn = t /\ Begun(sess[current], t).aborted = FALSE
          /\ Begun(sess[current], t).at = sess[current].at
          /\ Begun(sess[current], t).claimed = sess[current].claimed
        BY <3>2, BegunParts
    <3>. QED  BY <1>1, <1>2, <2>1, <3>1, <3>3
  <2>2. CASE ~ runs
      BY <1>1, <2>2
  <2>. QED  BY <2>1, <2>2
<1>6. /\ queue' \in [Turn -> QueueRec] /\ queue'[t].events = <<>> /\ ~ queue'[t].closed
      /\ \A u \in Turn : u # t => queue'[u] = queue[u]
  <2>1. [events |-> <<>>, closed |-> FALSE] \in QueueRec
      BY EmptySeq DEF QueueRec
  <2>. QED  BY <1>1, <2>1
<1>7. call' \in [Call -> {"idle", "opening", "opened", "done"}] /\ CallsCalm
    BY <1>1 DEF CallsCalm
<1>8. Types'
  <2>1. \A i \in DOMAIN settled' : settled'[i] \in Turn
      BY ElementOfSeq, LenProperties
  <2>2. job' \in [turn : Turn \cup {None}, failed : BOOLEAN]
      OBVIOUS
  <2>3. \A u \in Turn : queue'[u].closed \in BOOLEAN
      BY <1>6 DEF QueueRec
  <2>. QED
      BY <1>3, <1>4, <1>5, <1>6, <1>7, <2>1, <2>2, <2>3
         DEF Inv, Types, TypeOK, TurnRec, SessRec
<1>9. Sessions'
  <2>1. \A s \in Session : sess'[s].turn # None => sess'[s].at \in {"live", "jobs"}
      BY <1>2, <1>5 DEF Inv, Sessions
  <2>. QED  BY <1>3, <1>5, <2>1 DEF Inv, Sessions
<1>10. Openings'
    BY <1>2, <1>3, <1>5, <1>7 DEF Inv, Openings, CallsCalm
<1>11. Teardowns'
  <2>1. ~ deleted
      BY <1>2 DEF Inv, Teardowns
  <2>2. down.sess # 0 => down.sess \in Session
      BY DEF Inv, Types, DownRec
  <2>3. closeAt \notin {"sessions", "closed", "failed"}
      BY DEF Inv, Teardowns
  <2>. QED  BY <1>3, <1>5, <2>1, <2>2, <2>3 DEF Inv, Teardowns, NoDown
<1>12. Jobs'
  <2>1. job'.turn = t /\ ~ job'.failed
      OBVIOUS
  <2>2. \A u \in Turn : turn[u].told # "started"
    <3>1. \A u \in Turn : u # None
        BY TurnsAssumption
    <3>. QED  BY <3>1 DEF Inv, Jobs, NoJob
  <2>3. \A u \in Turn : turn'[u].told = "started" <=> job'.turn = u
      BY <1>4, <2>1, <2>2
  <2>4. \A u \in Turn : turn'[u].thrown => turn'[u].terminal # None
      BY <1>4, TurnsAssumption DEF Inv, Jobs
  <2>. QED  BY <1>2, <1>3, <1>4, <2>1, <2>3, <2>4 DEF Jobs
<1>13. Asks'
    BY DEF Inv, Asks, NoJob
<1>14. Events'
  <2>1. \A u \in Turn, i \in Nat, a \in Approval : Waits(u, i, a)' => u # t /\ Waits(u, i, a)
    <3>1. \A u \in Turn : u # t => queue'[u] = queue[u]
        BY <1>6
    <3>2. DOMAIN queue'[t].events = {}
        BY <1>6, EmptySeq, LenProperties
    <3>. QED  BY <3>1, <3>2 DEF Waits
  <2>2. AsksCalm
      BY NothingChanged
  <2>3. ASSUME NEW u \in Turn, NEW a \in Approval, NEW i \in Nat, Waits(u, i, a)'
        PROVE  /\ ask'[a].told = "no" /\ ~ ask'[a].pending /\ ask'[a].sess # 0
               /\ \A v \in Turn, j \in Nat : Waits(v, j, a)' => v = u /\ j = i
      BY <2>1, <2>3 DEF Inv, Events
  <2>. QED  BY <2>3 DEF Events
<1>15. Running'
  <2>1. runs => Run(t)'
      BY <1>2, <1>4, <1>5, <1>6 DEF Run
  <2>. QED  BY <1>4, <2>1 DEF Running, Run
<1>. QED  BY <1>8, <1>9, <1>10, <1>11, <1>12, <1>13, <1>14, <1>15 DEF Inv

\* turn.start goes on: the turn is accepted, or cannot be told, or is not free.
LEMMA StartTurnKeeps ==
    ASSUME Inv, NEW c \in Call, StartTurn(c)
    PROVE  Inv'
<1>. DEFINE t == TurnOf[c]
            s == current
            runs == sess[s].at = "live" /\ sess[s].turn = None
<1>1. t \in Turn
    BY TurnsAssumption
<1>2. settled' \in Seq(Turn) /\ Len(settled') <= CacheSize
    BY <1>1, OwnersTyped DEF StartTurn, Inv, Types
<1>3. call[c] = "opened" /\ call' = [call EXCEPT ![c] = "done"]
      /\ UNCHANGED <<threads, closeAt>>
    BY DEF StartTurn
<1>4. call' \in [Call -> {"idle", "opening", "opened", "done"}] /\ CallsCalm
    BY <1>3, NothingChanged DEF CallsCalm
<1>5. current \in Session
    BY <1>3 DEF Inv, Types, TypeOK, Openings
<1>6. CASE /\ StillFree(t)
           /\ active' = t
           /\ turn' = [turn EXCEPT ![t] = Accepted(s, ownership, runs)]
           /\ job' = [turn |-> t, failed |-> FALSE]
           /\ queue' = [queue EXCEPT ![t] = [events |-> <<>>, closed |-> FALSE]]
           /\ sess' = IF runs THEN [sess EXCEPT ![s].turn = t, ![s].aborted = FALSE, ![s].emit = t]
                      ELSE sess
           /\ UNCHANGED <<ask, faults>>
  <2>1. runs \in BOOLEAN
      OBVIOUS
  <2>2. runs => sess[current].at = "live" /\ sess[current].turn = None
      OBVIOUS
  <2>. HIDE DEF runs
  <2>3. sess' = IF runs THEN [sess EXCEPT ![current] = Begun(sess[current], t)] ELSE sess
      BY <1>5, <1>6, NothingChanged DEF Begun
  <2>4. active = None /\ job = NoJob /\ UNCHANGED <<ask, faults, threads, closeAt>>
      BY <1>3, <1>6 DEF StillFree
  <2>. HIDE DEF t
  <2>. QED  BY <1>1, <1>2, <1>3, <1>6, <2>1, <2>2, <2>3, <2>4, AcceptKeeps
<1>7. CASE /\ faults < MaxFaults
           /\ faults' = faults + 1
           /\ ask' = CancelledAsks(ask, s)
           /\ sess' = CancelledSession(s)
           /\ UNCHANGED <<active, turn, job, queue>>
  <2>1. sess' \in [Session -> SessRec] /\ SessionsCalm
      BY <1>5, <1>7, CancelRests DEF Inv, Types, SessionsCalm
  <2>2. Calm(ask, ask')
      BY <1>7, CancelCalm, NothingChanged
  <2>3. ask' \in [Approval -> AskRec] /\ AsksCalm
      BY <2>2, CalmIsLater
  <2>4. faults' \in 0 .. MaxFaults
      BY <1>7, NothingChanged, TurnsAssumption, SMT
  <2>. QED  BY <1>2, <1>3, <1>4, <1>7, <2>1, <2>3, <2>4, NothingChanged, CalmKeeps
<1>8. CASE UNCHANGED <<active, turn, job, queue, sess, ask, faults>>
    BY <1>2, <1>3, <1>4, <1>8, NothingChanged, CalmKeeps
<1>. QED  BY <1>6, <1>7, <1>8 DEF StartTurn, Accepted

-----------------------------------------------------------------------------
(* The queues.                                                             *)

\* The event i of the queue of t, in the state q of the queues.
Holds(q, t, i, e) == i \in DOMAIN q[t].events /\ q[t].events[i] = e

\* In q, the event e may have been added at the end of the queue of t.
Added(q, t, e) ==
    /\ q \in [Turn -> QueueRec]
    /\ \A u \in Turn : q[u].closed = queue[u].closed
    /\ \A x : \A u \in Turn, i \in Nat : Holds(queue, u, i, x) => Holds(q, u, i, x)
    /\ \A x : \A u \in Turn, i \in Nat : Holds(q, u, i, x) =>
          \/ Holds(queue, u, i, x)
          \/ x = e /\ u = t /\ i = Len(queue[t].events) + 1

\* An event pushed to a queue that is open is the last.
LEMMA PushedIs ==
    ASSUME queue \in [Turn -> QueueRec], NEW t \in Turn \cup {None}, NEW e \in Event
    PROVE  Added(Pushed(t, e), t, e)
<1>. DEFINE q == Pushed(t, e)
<1>1. CASE t = None \/ queue[t].closed
    BY <1>1 DEF Pushed, Added
<1>2. CASE ~ (t = None \/ queue[t].closed)
  <2>. DEFINE w == queue[t].events
              v == Append(w, e)
  <2>1. t \in Turn /\ w \in Seq(Event)
      BY <1>2 DEF QueueRec
  <2>2. q = [queue EXCEPT ![t].events = v]
      BY <1>2 DEF Pushed
  <2>. HIDE DEF w, q
  <2>3. /\ v \in Seq(Event) /\ Len(w) \in Nat
        /\ DOMAIN w = 1 .. Len(w) /\ DOMAIN v = 1 .. Len(w) + 1
        /\ \A i \in 1 .. Len(w) : v[i] = w[i]
        /\ v[Len(w) + 1] = e
      BY <2>1, SMT
  <2>. HIDE DEF v
  <2>4. /\ q \in [Turn -> QueueRec]
        /\ q[t].events = v /\ q[t].closed = queue[t].closed
        /\ \A u \in Turn : u # t => q[u] = queue[u]
      BY <2>1, <2>2, <2>3 DEF QueueRec
  <2>5. \A i \in 1 .. Len(w) : i \in 1 .. Len(w) + 1
      BY <2>3, SMT
  <2>6. \A i \in 1 .. Len(w) + 1 : i \in 1 .. Len(w) \/ i = Len(w) + 1
      BY <2>3, SMT
  <2>7. \A x : \A u \in Turn, i \in Nat : Holds(queue, u, i, x) => Holds(q, u, i, x)
      BY <2>3, <2>4, <2>5 DEF Holds, w
  <2>8. \A x : \A u \in Turn, i \in Nat : Holds(q, u, i, x) =>
             \/ Holds(queue, u, i, x)
             \/ x = e /\ u = t /\ i = Len(w) + 1
      BY <2>3, <2>4, <2>6 DEF Holds, w
  <2>9. \A u \in Turn : q[u].closed = queue[u].closed
      BY <2>4
  <2>. QED  BY <2>4, <2>7, <2>8, <2>9 DEF w, q, Added
<1>. QED  BY <1>1, <1>2

\* A queue that is finished gets the last events, and is closed.
LEMMA FinishedIs ==
    ASSUME queue \in [Turn -> QueueRec], NEW t \in Turn, NEW last \in Seq(Final)
    PROVE  LET q == Finished(t, last)
           IN  /\ q \in [Turn -> QueueRec]
               /\ q[t].closed
               /\ \A u \in Turn : u # t => q[u] = queue[u]
               /\ \A a : \A u \in Turn, i \in Nat : Holds(q, u, i, <<"ask", a>>) =>
                     Holds(queue, u, i, <<"ask", a>>)
               /\ (~ queue[t].closed /\ Len(last) # 0) =>
                     \E i \in DOMAIN q[t].events : q[t].events[i] \in Final
<1>. DEFINE q == Finished(t, last)
<1>1. CASE queue[t].closed
    BY <1>1 DEF Finished
<1>2. CASE ~ queue[t].closed
  <2>. DEFINE w == queue[t].events
              v == w \o last
  <2>1. w \in Seq(Event) /\ last \in Seq(Event)
      BY SeqMonotonic DEF QueueRec, Event, Final
  <2>2. q = [queue EXCEPT ![t] = [events |-> v, closed |-> TRUE]]
      BY <1>2 DEF Finished
  <2>. HIDE DEF w, q
  <2>3. /\ v \in Seq(Event) /\ Len(v) = Len(w) + Len(last)
        /\ \A i \in 1 .. Len(w) + Len(last) : v[i] = IF i <= Len(w) THEN w[i] ELSE last[i - Len(w)]
      BY <2>1, ConcatProperties
  <2>4. /\ DOMAIN v = 1 .. Len(v) /\ DOMAIN w = 1 .. Len(w) /\ DOMAIN last = 1 .. Len(last)
        /\ Len(w) \in Nat /\ Len(last) \in Nat
        /\ \A i \in 1 .. Len(last) : last[i] \in Final
      BY <2>1, <2>3, LenProperties, ElementOfSeq
  <2>. HIDE DEF v
  <2>5. /\ q \in [Turn -> QueueRec]
        /\ q[t].events = v /\ q[t].closed
        /\ \A u \in Turn : u # t => q[u] = queue[u]
      BY <2>2, <2>3 DEF QueueRec
  <2>6. \A i \in 1 .. Len(w) + Len(last) :
            \/ i \in 1 .. Len(w) /\ v[i] = w[i]
            \/ i - Len(w) \in 1 .. Len(last) /\ v[i] = last[i - Len(w)]
      BY <2>3, <2>4, SMT
  <2>7. \A a : <<"ask", a>> \notin Final
      BY DEF Final
  <2>8. \A a : \A u \in Turn, i \in Nat : Holds(q, u, i, <<"ask", a>>) => Holds(queue, u, i, <<"ask", a>>)
    <3>. SUFFICES ASSUME NEW u \in Turn, NEW i \in Nat, NEW a, Holds(q, u, i, <<"ask", a>>)
                  PROVE  Holds(queue, u, i, <<"ask", a>>)
        OBVIOUS
    <3>1. CASE u # t
        BY <2>5, <3>1 DEF Holds
    <3>2. CASE u = t
      <4>1. i \in 1 .. Len(w) + Len(last) /\ v[i] = <<"ask", a>>
          BY <2>3, <2>4, <2>5, <3>2 DEF Holds
      <4>2. i \in 1 .. Len(w) /\ v[i] = w[i]
          BY <2>4, <2>6, <2>7, <4>1
      <4>. QED  BY <2>4, <3>2, <4>1, <4>2 DEF Holds, w
    <3>. QED  BY <3>1, <3>2
  <2>9. Len(last) # 0 => \E i \in DOMAIN q[t].events : q[t].events[i] \in Final
    <3>. SUFFICES ASSUME Len(last) # 0
                  PROVE  \E i \in DOMAIN v : v[i] \in Final
        BY <2>5
    <3>. DEFINE i == Len(w) + 1
    <3>1. i \in 1 .. Len(w) + Len(last) /\ 1 \in 1 .. Len(last) /\ v[i] = last[1]
        BY <2>3, <2>4, SMT
    <3>. QED  BY <2>3, <2>4, <3>1
  <2>. QED  BY <2>5, <2>8, <2>9 DEF q
<1>. QED  BY <1>1, <1>2

\* The head of a queue is read: each event moves up.
LEMMA TailIs ==
    ASSUME queue \in [Turn -> QueueRec], NEW t \in Turn, queue[t].events # <<>>
    PROVE  LET q == [queue EXCEPT ![t].events = Tail(@)]
           IN  /\ q \in [Turn -> QueueRec]
               /\ \A u \in Turn : q[u].closed = queue[u].closed
               /\ \A u \in Turn : u # t => q[u] = queue[u]
               /\ Holds(queue, t, 1, Head(queue[t].events))
               /\ \A x : \A i \in Nat : Holds(q, t, i, x) => i # 0 /\ Holds(queue, t, i + 1, x)
               /\ \A x : (\E i \in Nat : Holds(queue, t, i, x)) =>
                     x = Head(queue[t].events) \/ \E i \in Nat : Holds(q, t, i, x)
<1>. DEFINE q == [queue EXCEPT ![t].events = Tail(@)]
            w == queue[t].events
            v == Tail(w)
<1>1. w \in Seq(Event) /\ w # <<>>
    BY DEF QueueRec
<1>2. q = [queue EXCEPT ![t].events = v]
    OBVIOUS
<1>. HIDE DEF q, w
<1>3. /\ v \in Seq(Event) /\ Len(v) = Len(w) - 1
      /\ \A i \in 1 .. Len(v) : v[i] = w[i + 1]
    BY <1>1, HeadTailProperties
<1>4. /\ Len(w) \in Nat \ {0} /\ DOMAIN w = 1 .. Len(w) /\ DOMAIN v = 1 .. Len(v)
      /\ Head(w) = w[1]
    BY <1>1, <1>3, EmptySeq, LenProperties
<1>. HIDE DEF v
<1>5. /\ q \in [Turn -> QueueRec]
      /\ q[t].events = v /\ q[t].closed = queue[t].closed
      /\ \A u \in Turn : u # t => q[u] = queue[u]
    BY <1>2, <1>3 DEF QueueRec
<1>6. /\ \A i \in 1 .. Len(v) : i # 0 /\ i + 1 \in 1 .. Len(w)
      /\ \A i \in 1 .. Len(w) : i = 1 \/ (i - 1 \in 1 .. Len(v) /\ (i - 1) + 1 = i)
      /\ 1 \in 1 .. Len(w)
    BY <1>3, <1>4, SMT
<1>7. \A x : \A i \in Nat : Holds(q, t, i, x) => i # 0 /\ Holds(queue, t, i + 1, x)
    BY <1>3, <1>4, <1>5, <1>6 DEF Holds, w
<1>8. ASSUME NEW x, NEW i \in Nat, Holds(queue, t, i, x)
      PROVE  x = Head(w) \/ \E j \in Nat : Holds(q, t, j, x)
  <2>1. i \in 1 .. Len(w) /\ w[i] = x
      BY <1>4, <1>8 DEF Holds, w
  <2>2. CASE i = 1
      BY <1>4, <2>1, <2>2
  <2>3. CASE i # 1
    <3>1. i - 1 \in 1 .. Len(v) /\ (i - 1) + 1 = i /\ i - 1 \in Nat
        BY <1>3, <1>4, <2>1, <2>3, SMT
    <3>2. v[i - 1] = x
        BY <1>3, <2>1, <3>1
    <3>. QED  BY <1>4, <1>5, <3>1, <3>2 DEF Holds
  <2>. QED  BY <2>2, <2>3
<1>9. Holds(queue, t, 1, Head(w))
    BY <1>4, <1>6 DEF Holds, w
<1>. QED  BY <1>5, <1>7, <1>8, <1>9 DEF q, w

-----------------------------------------------------------------------------
(* The steps of a session.                                                 *)

\* An approval is asked for.
Asked(s, by, e) ==
    [NoAsk EXCEPT !.sess = s, !.by = by, !.gate = e # None,
                  !.decision = IF e = None THEN "denied" ELSE None]

\* What an approval is that the engine asks for.
LEMMA AskedParts ==
    ASSUME NEW s \in Session, NEW by \in Turn \cup {None}, NEW e
    PROVE  /\ Asked(s, by, e) \in AskRec /\ Fine(Asked(s, by, e))
           /\ Asked(s, by, e).sess = s /\ Asked(s, by, e).sess # 0
           /\ Asked(s, by, e).told = "no" /\ ~ Asked(s, by, e).pending
<1>. DEFINE b == e # None
            d == IF e = None THEN "denied" ELSE None
            r == Asked(s, by, e)
<1>1. b \in BOOLEAN /\ d \in {None, "approved", "denied"} /\ (b => d = None)
      /\ d # "approved" /\ s # 0
    BY TurnsAssumption DEF Session
<1>2. r = [NoAsk EXCEPT !.sess = s, !.by = by, !.gate = b, !.decision = d]
    BY DEF Asked
<1>. HIDE DEF b, d
<1>3. r \in AskRec
    BY <1>1, <1>2 DEF AskRec, NoAsk, Told
<1>4. /\ r.sess = s /\ r.gate = b /\ r.decision = d
      /\ r.told = "no" /\ r.pending = FALSE
    BY <1>2 DEF NoAsk
<1>. HIDE DEF r
<1>5. Fine(r)
    BY <1>1, <1>4 DEF Fine
<1>. QED  BY <1>1, <1>3, <1>4, <1>5 DEF r

\* requestApproval: nobody was told of this approval before, and it is in no queue.
LEMMA AskKeeps ==
    ASSUME Inv, NEW s \in Session, NEW a \in Approval, Ask(s, a)
    PROVE  Inv'
<1>. DEFINE e == sess[s].emit
<1>1. /\ ask \in [Approval -> AskRec] /\ queue \in [Turn -> QueueRec]
      /\ sess[s] \in SessRec
    BY NothingChanged
<1>2. PICK by \in Turn \cup {None} : ask' = [ask EXCEPT ![a] = Asked(s, by, e)]
    BY <1>1 DEF Ask, Asked, SessRec
<1>3. /\ Asked(s, by, e) \in AskRec /\ Fine(Asked(s, by, e))
      /\ Asked(s, by, e).sess # 0
      /\ Asked(s, by, e).told = "no" /\ ~ Asked(s, by, e).pending
    BY AskedParts
<1>4. /\ ask' \in [Approval -> AskRec]
      /\ Fine(ask'[a]) /\ ask'[a].sess # 0 /\ ask'[a].told = "no" /\ ~ ask'[a].pending
      /\ \A b \in Approval : b # a => ask'[b] = ask[b]
    BY <1>1, <1>2, <1>3
<1>5. <<"ask", a>> \in Event /\ e \in Turn \cup {None} /\ queue' = Pushed(e, <<"ask", a>>)
    BY <1>1 DEF Event, Ask, SessRec
<1>. HIDE DEF e
<1>6. /\ queue' \in [Turn -> QueueRec]
      /\ \A u \in Turn : queue'[u].closed = queue[u].closed
      /\ \A x : \A u \in Turn, i \in Nat : Holds(queue, u, i, x) => Holds(queue', u, i, x)
      /\ \A x : \A u \in Turn, i \in Nat : Holds(queue', u, i, x) =>
            \/ Holds(queue, u, i, x)
            \/ x = <<"ask", a>> /\ u = e /\ i = Len(queue[e].events) + 1
  <2>. DEFINE new == <<"ask", a>>
  <2>1. new \in Event /\ queue' = Pushed(e, new)
      BY <1>5
  <2>. HIDE DEF new
  <2>2. Added(Pushed(e, new), e, new)
      BY <1>1, <1>5, <2>1, PushedIs
  <2>. QED  BY <2>1, <2>2 DEF new, Added
<1>7. UNCHANGED <<threads, active, job, current, ownership>> /\ UNCHANGED <<call, turn, sess, opening>>
      /\ UNCHANGED <<faults, settled, closeAt, down, deleted>>
    BY DEF Ask, threads
<1>8. CallsCalm /\ TurnsCalm /\ SessionsCalm
    BY <1>7, NothingChanged
<1>9. Types'
  <2>1. \A u \in Turn : queue'[u].closed \in BOOLEAN
      BY <1>6 DEF QueueRec
  <2>. QED  BY <1>4, <1>6, <1>7, <2>1 DEF Inv, Types, TypeOK, AskRec
<1>10. Sessions' /\ Openings' /\ Jobs'
    BY <1>7, <1>8, SessionsKept, OpeningsKept, JobsKept
<1>11. Asks'
    BY <1>4, <1>7 DEF Inv, Asks
<1>12. Events'
  <2>1. ASSUME NEW u \in Turn, NEW i \in Nat, Waits(u, i, a)
        PROVE  FALSE
    <3>1. ask[a].sess # 0
        BY <2>1 DEF Inv, Events
    <3>. QED  BY <3>1 DEF Ask, NoAsk
  <2>2. ASSUME NEW u \in Turn, NEW i \in Nat, NEW b \in Approval, Waits(u, i, b)'
        PROVE  IF b = a THEN u = e /\ i = Len(queue[e].events) + 1 ELSE Waits(u, i, b)
    <3>1. Holds(queue', u, i, <<"ask", b>>)
        BY <2>2 DEF Waits, Holds
    <3>2. <<"ask", b>> = <<"ask", a>> => b = a
        OBVIOUS
    <3>. QED  BY <1>6, <2>1, <3>1, <3>2 DEF Waits, Holds
  <2>3. ASSUME NEW u \in Turn, NEW b \in Approval, NEW i \in Nat, Waits(u, i, b)'
        PROVE  /\ ask'[b].told = "no" /\ ~ ask'[b].pending /\ ask'[b].sess # 0
               /\ \A v \in Turn, j \in Nat : Waits(v, j, b)' => v = u /\ j = i
    <3>1. CASE b = a
        BY <1>4, <2>2, <2>3, <3>1
    <3>2. CASE b # a
      <4>1. Waits(u, i, b) /\ \A v \in Turn, j \in Nat : Waits(v, j, b)' => Waits(v, j, b)
          BY <2>2, <2>3, <3>2
      <4>. QED  BY <1>4, <3>2, <4>1 DEF Inv, Events
    <3>. QED  BY <3>1, <3>2
  <2>. QED  BY <2>3 DEF Events
<1>13. Running'
  <2>. SUFFICES ASSUME active # None, ~ turn[active].thrown
                PROVE  Run(active)'
      BY <1>7 DEF Running
  <2>1. active \in Turn /\ Run(active)
      BY ActiveFacts DEF Inv, Running
  <2>2. ASSUME NEW i \in DOMAIN queue[active].events, queue[active].events[i] \in Final
        PROVE  \E j \in DOMAIN queue'[active].events : queue'[active].events[j] \in Final
    <3>1. queue[active].events \in Seq(Event)
        BY <1>1, <2>1 DEF QueueRec
    <3>2. i \in Nat
      <4>. DEFINE w == queue[active].events
      <4>1. DOMAIN w = 1 .. Len(w) /\ Len(w) \in Nat
          BY <3>1, LenProperties
      <4>. QED  BY <2>2, <4>1
    <3>3. Holds(queue', active, i, queue[active].events[i])
        BY <1>6, <2>1, <2>2, <3>2 DEF Holds
    <3>. QED  BY <2>2, <3>3 DEF Holds
  <2>. QED  BY <1>6, <1>7, <2>1, <2>2 DEF Run
<1>14. Teardowns'
  <2>1. Quiet => Quiet'
      BY <1>4, <1>7 DEF Quiet
  <2>. QED  BY <1>7, <2>1 DEF Inv, Teardowns, NoDown
<1>. QED  BY <1>9, <1>10, <1>11, <1>12, <1>13, <1>14 DEF Inv

\* The session of a turn that has ended.
Idle(r, b) == [r EXCEPT !.turn = None, !.stray = b]

\* What a session is whose turn has ended.
LEMMA IdleParts ==
    ASSUME NEW r \in SessRec, NEW b \in BOOLEAN
    PROVE  /\ Idle(r, b) \in SessRec
           /\ Idle(r, b).turn = None /\ Idle(r, b).aborted = r.aborted
           /\ Idle(r, b).at = r.at /\ Idle(r, b).claimed = r.claimed
BY DEF Idle, SessRec

\* The end of runTurn: the queue is closed, and an aborted turn has said so.
LEMMA EndRunKeeps ==
    ASSUME Inv, NEW s \in Session, NEW aborted \in BOOLEAN, EndRun(s, aborted)
    PROVE  Inv'
<1>. DEFINE t == sess[s].turn
<1>1. /\ sess \in [Session -> SessRec] /\ queue \in [Turn -> QueueRec] /\ sess[s] \in SessRec
    BY NothingChanged
<1>2. /\ t \in Turn /\ s = current
      /\ (active # None /\ ~ turn[active].thrown) => t = active
    BY RunFacts DEF EndRun
<1>3. PICK last \in Seq(Final) :
        /\ queue' = Finished(t, last) /\ (aborted => Len(last) # 0)
        /\ sess' = [sess EXCEPT ![s].turn = None, ![s].stray = @ \/ last # <<>>]
  <2>1. PICK last \in IF aborted THEN {<<<<"cancelled">>>>, <<<<"error">>, <<"cancelled">>>>}
                      ELSE {<<>>, <<<<"error">>>>} :
             /\ queue' = Finished(t, last)
             /\ sess' = [sess EXCEPT ![s].turn = None, ![s].stray = @ \/ last # <<>>]
      BY DEF EndRun
  <2>2. /\ <<<<"cancelled">>>> \in Seq(Final) /\ Len(<<<<"cancelled">>>>) # 0
        /\ <<<<"error">>, <<"cancelled">>>> \in Seq(Final) /\ Len(<<<<"error">>, <<"cancelled">>>>) # 0
        /\ <<>> \in Seq(Final) /\ <<<<"error">>>> \in Seq(Final)
      BY DEF Final
  <2>. QED  BY <2>1, <2>2
<1>4. /\ queue' \in [Turn -> QueueRec]
      /\ queue'[t].closed
      /\ \A u \in Turn : u # t => queue'[u] = queue[u]
      /\ \A a : \A u \in Turn, i \in Nat : Holds(queue', u, i, <<"ask", a>>) =>
            Holds(queue, u, i, <<"ask", a>>)
      /\ (~ queue[t].closed /\ Len(last) # 0) =>
            \E i \in DOMAIN queue'[t].events : queue'[t].events[i] \in Final
    BY <1>1, <1>2, <1>3, FinishedIs
<1>5. /\ sess' \in [Session -> SessRec]
      /\ sess'[s].turn = None /\ sess'[s].aborted = sess[s].aborted
      /\ sess'[s].at = sess[s].at /\ sess'[s].claimed = sess[s].claimed
      /\ \A r \in Session : r # s => sess'[r] = sess[r]
  <2>. DEFINE b == sess[s].stray \/ last # <<>>
  <2>1. b \in BOOLEAN
      OBVIOUS
  <2>2. sess' = [sess EXCEPT ![s].turn = None, ![s].stray = b]
      BY <1>1, <1>3 DEF SessRec
  <2>. HIDE DEF b
  <2>3. sess' = [sess EXCEPT ![s] = Idle(sess[s], b)]
      BY <1>1, <2>2 DEF Idle
  <2>4. /\ Idle(sess[s], b) \in SessRec
        /\ Idle(sess[s], b).turn = None /\ Idle(sess[s], b).aborted = sess[s].aborted
        /\ Idle(sess[s], b).at = sess[s].at /\ Idle(sess[s], b).claimed = sess[s].claimed
      BY <1>1, <2>1, IdleParts
  <2>. QED  BY <1>1, <2>3, <2>4
<1>6. sess[s].turn # None /\ sess[s].aborted = aborted
    BY DEF EndRun
<1>7. UNCHANGED <<threads, active, job, current, ownership>> /\ UNCHANGED <<call, turn, ask, opening>>
      /\ UNCHANGED <<faults, settled, closeAt, down, deleted>>
    BY DEF EndRun, threads
<1>8. TurnsCalm /\ AsksCalm
    BY <1>7, NothingChanged
<1>. HIDE DEF t
<1>9. Types'
  <2>1. \A u \in Turn : queue'[u].closed \in BOOLEAN
      BY <1>4 DEF QueueRec
  <2>. QED  BY <1>4, <1>5, <1>7, <2>1 DEF Inv, Types, TypeOK, SessRec
<1>10. Sessions'
  <2>1. \A r \in Session : sess'[r].at = sess[r].at /\ sess'[r].claimed = sess[r].claimed
                           /\ (sess'[r].turn # None => sess[r].turn # None)
      BY <1>5
  <2>. QED  BY <1>7, <2>1 DEF Inv, Sessions
<1>11. Openings'
  <2>1. current \in Session => sess'[current].at = sess[current].at
      BY <1>5
  <2>. QED  BY <1>7, <2>1 DEF Inv, Openings, Types, TypeOK
<1>12. Jobs' /\ Asks'
    BY <1>7, <1>8, JobsKept, AsksKept
<1>13. Events'
  <2>1. \A u \in Turn, i \in Nat, a \in Approval : Waits(u, i, a)' => Waits(u, i, a)
      BY <1>4 DEF Waits, Holds
  <2>2. ASSUME NEW u \in Turn, NEW a \in Approval, NEW i \in Nat, Waits(u, i, a)'
        PROVE  /\ ask'[a].told = "no" /\ ~ ask'[a].pending /\ ask'[a].sess # 0
               /\ \A v \in Turn, j \in Nat : Waits(v, j, a)' => v = u /\ j = i
      BY <1>7, <2>1, <2>2 DEF Inv, Events
  <2>. QED  BY <2>2 DEF Events
<1>14. Running'
  <2>. SUFFICES ASSUME active # None, ~ turn[active].thrown
                PROVE  Run(active)'
      BY <1>7 DEF Running
  <2>1. t = active /\ turn[t].sess = s /\ Run(t)
      BY <1>2, ActiveFacts DEF Inv, Running
  <2>2. ~ queue[t].closed
      BY <1>6, <2>1 DEF Run
  <2>3. sess'[s].aborted => \E i \in DOMAIN queue'[t].events : queue'[t].events[i] \in Final
      BY <1>3, <1>4, <1>5, <1>6, <2>2
  <2>. QED  BY <1>4, <1>5, <1>7, <2>1, <2>3 DEF Run
<1>15. Teardowns'
  <2>1. ~ deleted
      BY <1>6 DEF Inv, Teardowns, Quiet
  <2>2. down.sess # 0 => sess'[down.sess].at = sess[down.sess].at
    <3>1. down.sess # 0 => down.sess \in Session
        BY DEF Inv, Types, DownRec
    <3>. QED  BY <1>5, <3>1
  <2>. QED  BY <1>7, <2>1, <2>2 DEF Inv, Teardowns, NoDown
<1>. QED  BY <1>9, <1>10, <1>11, <1>12, <1>13, <1>14, <1>15 DEF Inv

-----------------------------------------------------------------------------
(* The steps of the loop.                                                  *)

\* The loop forgets what the session emits to, and nothing else of it.
LEMMA EmitRests ==
    ASSUME NEW S \in [Session -> SessRec], \A r \in Session : Rested(sess[r], S[r]),
           NEW s \in Session
    PROVE  LET T == [S EXCEPT ![s].emit = None]
           IN  T \in [Session -> SessRec] /\ \A r \in Session : Rested(sess[r], T[r])
<1>. DEFINE T == [S EXCEPT ![s].emit = None]
<1>1. T \in [Session -> SessRec]
    BY DEF SessRec
<1>2. /\ T[s].turn = S[s].turn /\ T[s].claimed = S[s].claimed
      /\ T[s].at = S[s].at /\ T[s].aborted = S[s].aborted
      /\ \A r \in Session : r # s => T[r] = S[r]
    BY DEF SessRec
<1>. HIDE DEF T
<1>3. \A r \in Session : Rested(sess[r], T[r])
    BY <1>1, <1>2 DEF Rested
<1>. QED  BY <1>1, <1>3 DEF T

\* An approval that is shown to clients, and one that was not.
Pended(r, t, own) == [r EXCEPT !.pending = TRUE, !.turn = t, !.own = own]
Required(r, t, own) == [r EXCEPT !.pending = TRUE, !.turn = t, !.own = own, !.told = "required"]

\* What an approval is that the client is shown.
LEMMA RequiredParts ==
    ASSUME NEW r \in AskRec, NEW t \in Turn, NEW own \in Session \cup {0},
           Fine(r), r.told = "no", r.sess # 0
    PROVE  /\ Pended(r, t, own) \in AskRec /\ Fine(Pended(r, t, own))
           /\ Pended(r, t, own).turn = t
           /\ Required(r, t, own) \in AskRec /\ Fine(Required(r, t, own))
           /\ Required(r, t, own).turn = t
<1>1. /\ Pended(r, t, own) \in AskRec
      /\ Pended(r, t, own).turn = t /\ Pended(r, t, own).pending = TRUE
      /\ Pended(r, t, own).gate = r.gate /\ Pended(r, t, own).decision = r.decision
      /\ Pended(r, t, own).told = r.told /\ Pended(r, t, own).sess = r.sess
    BY DEF Pended, AskRec
<1>2. /\ Required(r, t, own) \in AskRec
      /\ Required(r, t, own).turn = t /\ Required(r, t, own).pending = TRUE
      /\ Required(r, t, own).gate = r.gate /\ Required(r, t, own).decision = r.decision
      /\ Required(r, t, own).told = "required" /\ Required(r, t, own).sess = r.sess
    BY DEF Required, AskRec, Told
<1>. QED  BY <1>1, <1>2 DEF Fine

\* What the loop reads is out of the queue.
LEMMA EventsRead ==
    ASSUME Inv, NEW t \in Turn,
           \A u \in Turn, i \in Nat, b \in Approval :
               Waits(u, i, b)' => Waits(u, IF u = t THEN i + 1 ELSE i, b),
           \A b \in Approval :
               (\E u \in Turn, i \in Nat : Waits(u, i, b)') =>
                   ask'[b].told = ask[b].told /\ ask'[b].pending = ask[b].pending
                                              /\ ask'[b].sess = ask[b].sess
    PROVE  Events'
<1>1. ASSUME NEW u \in Turn, NEW b \in Approval, NEW i \in Nat, Waits(u, i, b)'
      PROVE  /\ ask'[b].told = "no" /\ ~ ask'[b].pending /\ ask'[b].sess # 0
             /\ \A v \in Turn, j \in Nat : Waits(v, j, b)' => v = u /\ j = i
  <2>1. Waits(u, IF u = t THEN i + 1 ELSE i, b) /\ (IF u = t THEN i + 1 ELSE i) \in Nat
      BY <1>1
  <2>2. ask[b].told = "no" /\ ~ ask[b].pending /\ ask[b].sess # 0
      BY <2>1 DEF Inv, Events
  <2>3. ASSUME NEW v \in Turn, NEW j \in Nat, Waits(v, j, b)'
        PROVE  v = u /\ j = i
    <3>1. Waits(v, IF v = t THEN j + 1 ELSE j, b) /\ (IF v = t THEN j + 1 ELSE j) \in Nat
        BY <2>3
    <3>2. v = u /\ (IF v = t THEN j + 1 ELSE j) = (IF u = t THEN i + 1 ELSE i)
        BY <2>1, <3>1 DEF Inv, Events
    <3>. QED  BY <3>2
  <2>. QED  BY <1>1, <2>2, <2>3
<1>. QED  BY <1>1 DEF Events

\* The head of the queue of the active turn.
LEMMA HeadFacts ==
    ASSUME Inv, NEW t \in Turn, Reads(t), queue[t].events # <<>>,
           queue' = [queue EXCEPT ![t].events = Tail(@)]
    PROVE  /\ queue' \in [Turn -> QueueRec]
           /\ \A u \in Turn : queue'[u].closed = queue[u].closed
           /\ Holds(queue, t, 1, Head(queue[t].events))
           /\ \A u \in Turn, i \in Nat, b \in Approval :
                  Waits(u, i, b)' => /\ Waits(u, IF u = t THEN i + 1 ELSE i, b)
                                     /\ u = t => i # 0
           /\ \A i \in DOMAIN queue[t].events : queue[t].events[i] \in Final =>
                  \/ Head(queue[t].events) \in Final
                  \/ \E j \in DOMAIN queue'[t].events : queue'[t].events[j] \in Final
<1>1. queue \in [Turn -> QueueRec]
    BY NothingChanged
<1>2. /\ queue' \in [Turn -> QueueRec]
      /\ \A u \in Turn : queue'[u].closed = queue[u].closed
      /\ \A u \in Turn : u # t => queue'[u] = queue[u]
      /\ Holds(queue, t, 1, Head(queue[t].events))
      /\ \A x : \A i \in Nat : Holds(queue', t, i, x) => i # 0 /\ Holds(queue, t, i + 1, x)
      /\ \A x : (\E i \in Nat : Holds(queue, t, i, x)) =>
             x = Head(queue[t].events) \/ \E i \in Nat : Holds(queue', t, i, x)
    BY <1>1, TailIs
<1>3. \A u \in Turn, i \in Nat, b \in Approval :
          Waits(u, i, b)' => Waits(u, IF u = t THEN i + 1 ELSE i, b) /\ (u = t => i # 0)
  <2>1. ASSUME NEW u \in Turn, NEW i \in Nat, NEW b \in Approval, Waits(u, i, b)'
        PROVE  Waits(u, IF u = t THEN i + 1 ELSE i, b) /\ (u = t => i # 0)
    <3>1. Holds(queue', u, i, <<"ask", b>>)
        BY <2>1 DEF Waits, Holds
    <3>2. CASE u = t
        BY <1>2, <3>1, <3>2 DEF Waits, Holds
    <3>3. CASE u # t
        BY <1>2, <3>1, <3>3 DEF Waits, Holds
    <3>. QED  BY <3>2, <3>3
  <2>. QED  BY <2>1
<1>4. ASSUME NEW i \in DOMAIN queue[t].events, queue[t].events[i] \in Final
      PROVE  \/ Head(queue[t].events) \in Final
             \/ \E j \in DOMAIN queue'[t].events : queue'[t].events[j] \in Final
  <2>. DEFINE w == queue[t].events
  <2>1. w \in Seq(Event)
      BY <1>1 DEF QueueRec
  <2>2. i \in Nat
    <3>1. DOMAIN w = 1 .. Len(w) /\ Len(w) \in Nat
        BY <2>1, LenProperties
    <3>. QED  BY <1>4, <3>1
  <2>3. Holds(queue, t, i, w[i])
      BY <1>4 DEF Holds
  <2>4. w[i] = Head(w) \/ \E j \in Nat : Holds(queue', t, j, w[i])
      BY <1>2, <2>2, <2>3
  <2>. QED  BY <1>4, <2>4 DEF Holds
<1>. QED  BY <1>2, <1>3, <1>4

\* An end is read: it decides, unless something has.
LEMMA ProjectEndKeeps ==
    ASSUME Inv, NEW t \in Turn, NEW e \in {"cancelled", "error"}, ProjectEnd(t, e)
    PROVE  Inv'
<1>1. turn \in [Turn -> TurnRec]
    BY NothingChanged
<1>. DEFINE d == IF turn[t].terminal # None THEN turn[t].terminal
                 ELSE IF e = "error" \/ turn[t].failure THEN "failed" ELSE "cancelled"
<1>2. d \in {None, "cancelled", "failed"} /\ d # None
    BY <1>1, TurnsAssumption DEF TurnRec
<1>3. turn' = [turn EXCEPT ![t].terminal = d]
    BY <1>1 DEF ProjectEnd, TurnRec
<1>. HIDE DEF d
<1>4. /\ turn' \in [Turn -> TurnRec] /\ turn'[t].terminal # None
      /\ \A u \in Turn : /\ turn'[u].sess = turn[u].sess /\ turn'[u].own = turn[u].own
                         /\ turn'[u].told = turn[u].told /\ turn'[u].thrown = turn[u].thrown
      /\ \A u \in Turn : u # t => turn'[u] = turn[u]
    BY <1>1, <1>2, <1>3 DEF TurnRec
<1>5. TurnsCalm
    BY <1>4 DEF TurnsCalm
<1>6. active = t
    BY ReadsFacts DEF ProjectEnd
<1>7. UNCHANGED <<threads, active, job, current, ownership>> /\ UNCHANGED <<call, sess, ask, opening>>
      /\ UNCHANGED <<faults, settled, closeAt, down, deleted>>
    BY DEF ProjectEnd, threads
<1>8. CallsCalm /\ AsksCalm /\ SessionsCalm
    BY <1>7, NothingChanged
<1>9. /\ queue' \in [Turn -> QueueRec]
      /\ \A u \in Turn : queue'[u].closed = queue[u].closed
      /\ \A u \in Turn, i \in Nat, b \in Approval :
             Waits(u, i, b)' => Waits(u, IF u = t THEN i + 1 ELSE i, b)
    BY HeadFacts DEF ProjectEnd
<1>10. Types'
  <2>1. \A u \in Turn : queue'[u].closed \in BOOLEAN
      BY <1>9 DEF QueueRec
  <2>. QED  BY <1>4, <1>7, <1>9, <2>1 DEF Inv, Types, TypeOK, TurnRec
<1>11. Sessions' /\ Openings' /\ Jobs' /\ Asks' /\ Teardowns'
  <2>1. closeAt' \in {closeAt, "calls"}
      BY <1>7
  <2>. QED  BY <1>5, <1>7, <1>8, <2>1, SessionsKept, OpeningsKept, JobsKept, AsksKept, TeardownsKept
<1>12. Events'
    BY <1>7, <1>9, EventsRead
<1>13. Running'
  <2>. SUFFICES ASSUME ~ turn'[active].thrown
                PROVE  Run(active)'
      BY <1>7 DEF Running
  <2>1. Run(t) /\ turn[t].sess \in Session /\ active # None
    <3>1. t # None
        BY TurnsAssumption
    <3>. QED  BY <1>4, <1>6, <3>1, ActiveFacts DEF Inv, Running
  <2>. QED  BY <1>4, <1>6, <1>7, <1>9, <2>1 DEF Run
<1>. QED  BY <1>10, <1>11, <1>12, <1>13 DEF Inv

\* The approval at the head of the queue that is read.
LEMMA HeadAsk ==
    ASSUME Inv, NEW t \in Turn, NEW a \in Approval, Reads(t),
           queue[t].events # <<>>, Head(queue[t].events) = <<"ask", a>>
    PROVE  /\ Waits(t, 1, a)
           /\ ask[a] \in AskRec /\ Fine(ask[a]) /\ ask[a].told = "no" /\ ask[a].sess # 0
           /\ \A u \in Turn, i \in Nat : Waits(u, i, a) => u = t /\ i = 1
<1>1. Waits(t, 1, a)
    BY NothingChanged, TailIs DEF Waits, Holds
<1>2. ask[a] \in AskRec /\ Fine(ask[a])
    BY NothingChanged DEF Inv, Asks
<1>. QED  BY <1>1, <1>2 DEF Inv, Events

\* An approval is shown to clients, and is pending from now on.
LEMMA ShowKeeps ==
    ASSUME Inv, NEW t \in Turn, NEW a \in Approval, Reads(t),
           queue[t].events # <<>>, Head(queue[t].events) = <<"ask", a>>,
           ask' = [ask EXCEPT ![a] = Required(ask[a], t, turn[t].own)],
           queue' = [queue EXCEPT ![t].events = Tail(@)],
           faults' \in 0 .. MaxFaults,
           UNCHANGED <<threads, active, job, current, ownership>>,
           UNCHANGED <<call, turn, sess, opening>>,
           UNCHANGED <<settled, closeAt, down, deleted>>
    PROVE  Inv'
<1>1. ask \in [Approval -> AskRec] /\ turn[t] \in TurnRec
    BY NothingChanged
<1>2. /\ Waits(t, 1, a)
      /\ ask[a] \in AskRec /\ Fine(ask[a]) /\ ask[a].told = "no" /\ ask[a].sess # 0
      /\ \A u \in Turn, i \in Nat : Waits(u, i, a) => u = t /\ i = 1
    BY HeadAsk
<1>3. turn[t].own \in Session \cup {0}
    BY <1>1 DEF TurnRec
<1>4. /\ ask' \in [Approval -> AskRec] /\ Fine(ask'[a]) /\ ask'[a].turn = t
      /\ \A b \in Approval : b # a => ask'[b] = ask[b]
    BY <1>1, <1>2, <1>3, RequiredParts
<1>5. TurnsCalm /\ SessionsCalm /\ CallsCalm
    BY NothingChanged
<1>6. active = t /\ job.turn = t /\ t # None
    BY ReadsFacts, TurnsAssumption DEF Reads
<1>7. /\ queue' \in [Turn -> QueueRec]
      /\ \A u \in Turn : queue'[u].closed = queue[u].closed
      /\ \A u \in Turn, i \in Nat, b \in Approval :
             Waits(u, i, b)' => /\ Waits(u, IF u = t THEN i + 1 ELSE i, b)
                                /\ u = t => i # 0
      /\ \A i \in DOMAIN queue[t].events : queue[t].events[i] \in Final =>
             \/ Head(queue[t].events) \in Final
             \/ \E j \in DOMAIN queue'[t].events : queue'[t].events[j] \in Final
    BY HeadFacts
<1>8. Types'
  <2>1. \A u \in Turn : queue'[u].closed \in BOOLEAN
      BY <1>7 DEF QueueRec
  <2>. QED  BY <1>4, <1>7, <2>1 DEF Inv, Types, TypeOK, AskRec
<1>9. Sessions' /\ Openings' /\ Jobs'
    BY <1>5, SessionsKept, OpeningsKept, JobsKept
<1>10. Asks'
    BY <1>4, <1>6 DEF Inv, Asks
<1>11. Events'
  <2>1. ASSUME NEW u \in Turn, NEW i \in Nat, Waits(u, i, a)'
        PROVE  FALSE
    <3>1. Waits(u, IF u = t THEN i + 1 ELSE i, a) /\ (u = t => i # 0)
        BY <1>7, <2>1
    <3>2. u = t /\ (IF u = t THEN i + 1 ELSE i) = 1
        BY <1>2, <3>1
    <3>. QED  BY <3>1, <3>2
  <2>2. \A b \in Approval : (\E u \in Turn, i \in Nat : Waits(u, i, b)') =>
                   ask'[b].told = ask[b].told /\ ask'[b].pending = ask[b].pending
                                              /\ ask'[b].sess = ask[b].sess
      BY <1>4, <2>1
  <2>. QED  BY <1>7, <2>2, EventsRead
<1>12. Running'
  <2>. SUFFICES ASSUME ~ turn[t].thrown
                PROVE  Run(t)'
      BY <1>6 DEF Running
  <2>1. Run(t)
      BY <1>6 DEF Inv, Running
  <2>2. Head(queue[t].events) \notin Final
      BY DEF Final
  <2>. QED  BY <1>7, <2>1, <2>2 DEF Run
<1>13. Teardowns'
  <2>1. ~ deleted
      BY <1>6 DEF Inv, Teardowns, Quiet
  <2>. QED  BY <2>1 DEF Inv, Teardowns, NoDown
<1>. QED  BY <1>8, <1>9, <1>10, <1>11, <1>12, <1>13 DEF Inv

\* The turn whose loop has thrown.
Thrown(r, d) == [r EXCEPT !.thrown = TRUE, !.terminal = d]

\* What a turn is whose loop threw.
LEMMA ThrownParts ==
    ASSUME NEW r \in TurnRec, NEW d \in {None, "cancelled", "failed"}
    PROVE  /\ Thrown(r, d) \in TurnRec
           /\ Thrown(r, d).thrown = TRUE /\ Thrown(r, d).terminal = d
           /\ Thrown(r, d).sess = r.sess /\ Thrown(r, d).own = r.own
           /\ Thrown(r, d).told = r.told
BY DEF Thrown, TurnRec

\* An event that cannot be told: the loop throws, the turn is cancelled.  The
\* approvals K are fine, and as they were where they wait in another queue.
LEMMA AbandonKeeps ==
    ASSUME Inv, NEW t \in Turn, Reads(t), NEW K \in [Approval -> AskRec],
           \A b \in Approval : Fine(K[b]) /\ (K[b].pending => K[b].turn = t),
           \A u \in Turn, i \in Nat, b \in Approval : (u # t /\ Waits(u, i, b)) =>
                K[b].told = ask[b].told /\ K[b].pending = ask[b].pending /\ K[b].sess = ask[b].sess,
           Abandon(t, K),
           faults' \in 0 .. MaxFaults,
           UNCHANGED <<threads, active, job, current, ownership>>, UNCHANGED <<call, opening>>,
           UNCHANGED <<settled, closeAt, down, deleted>>
    PROVE  Inv'
<1>1. ask \in [Approval -> AskRec] /\ turn \in [Turn -> TurnRec] /\ turn[t] \in TurnRec
      /\ queue \in [Turn -> QueueRec]
    BY NothingChanged
<1>2. /\ queue' = [queue EXCEPT ![t] = [events |-> <<>>, closed |-> TRUE]]
      /\ ask' = CancelledAsks(K, turn[t].sess)
      /\ sess' = [CancelledSession(turn[t].sess) EXCEPT ![turn[t].sess].emit = None]
      /\ turn' = [turn EXCEPT ![t].thrown = TRUE,
                               ![t].terminal = IF @ = None THEN "failed" ELSE @]
    BY DEF Abandon
<1>4. active = t /\ job.turn = t /\ t # None /\ turn[t].sess \in Session
  <2>1. active = t /\ job.turn = t /\ t # None
      BY ReadsFacts, TurnsAssumption DEF Reads
  <2>. QED  BY <2>1, ActiveFacts
<1>6. Calm(K, ask')
    BY <1>2, CancelCalm
<1>7. /\ ask' \in [Approval -> AskRec]
      /\ \A b \in Approval : /\ ask'[b].pending = K[b].pending /\ ask'[b].turn = K[b].turn
                             /\ ask'[b].told = K[b].told /\ ask'[b].sess = K[b].sess
                             /\ Fine(K[b]) => Fine(ask'[b])
    BY <1>6 DEF Calm, Alike
<1>8. sess' \in [Session -> SessRec] /\ SessionsCalm
  <2>. DEFINE s == turn[t].sess
              S == CancelledSession(s)
  <2>1. s \in Session
      BY <1>4
  <2>2. sess' = [S EXCEPT ![s].emit = None]
      BY <1>2
  <2>. HIDE DEF s
  <2>3. S \in [Session -> SessRec] /\ \A r \in Session : Rested(sess[r], S[r])
      BY <2>1, CancelRests DEF Inv, Types
  <2>. HIDE DEF S
  <2>4. /\ [S EXCEPT ![s].emit = None] \in [Session -> SessRec]
        /\ \A r \in Session : Rested(sess[r], [S EXCEPT ![s].emit = None][r])
      BY <2>1, <2>3, EmitRests
  <2>. QED  BY <2>2, <2>4 DEF SessionsCalm
<1>9. CallsCalm
    BY NothingChanged
<1>10. /\ turn' \in [Turn -> TurnRec]
       /\ turn'[t].thrown = TRUE /\ turn'[t].terminal # None
       /\ \A u \in Turn : /\ turn'[u].sess = turn[u].sess /\ turn'[u].own = turn[u].own
                          /\ turn'[u].told = turn[u].told
       /\ \A u \in Turn : u # t => turn'[u] = turn[u]
  <2>. DEFINE d == IF turn[t].terminal = None THEN "failed" ELSE turn[t].terminal
  <2>1. d \in {None, "cancelled", "failed"} /\ d # None
      BY <1>1, TurnsAssumption DEF TurnRec
  <2>2. turn' = [turn EXCEPT ![t].thrown = TRUE, ![t].terminal = d]
      BY <1>1, <1>2 DEF TurnRec
  <2>. HIDE DEF d
  <2>3. turn' = [turn EXCEPT ![t] = Thrown(turn[t], d)]
      BY <1>1, <2>2 DEF Thrown
  <2>4. /\ Thrown(turn[t], d) \in TurnRec
        /\ Thrown(turn[t], d).thrown = TRUE /\ Thrown(turn[t], d).terminal = d
        /\ Thrown(turn[t], d).sess = turn[t].sess /\ Thrown(turn[t], d).own = turn[t].own
        /\ Thrown(turn[t], d).told = turn[t].told
      BY <1>1, <2>1, ThrownParts
  <2>. QED  BY <1>1, <2>1, <2>3, <2>4
<1>11. /\ queue' \in [Turn -> QueueRec] /\ queue'[t].events = <<>>
       /\ \A u \in Turn : u # t => queue'[u] = queue[u]
  <2>1. [events |-> <<>>, closed |-> TRUE] \in QueueRec
      BY EmptySeq DEF QueueRec
  <2>. QED  BY <1>1, <1>2, <2>1
<1>12. Types'
  <2>1. \A u \in Turn : queue'[u].closed \in BOOLEAN
      BY <1>11 DEF QueueRec
  <2>. QED
      BY <1>7, <1>8, <1>10, <1>11, <2>1 DEF Inv, Types, TypeOK, AskRec, SessRec, TurnRec
<1>13. Sessions' /\ Openings'
    BY <1>8, <1>9, SessionsKept, OpeningsKept
<1>14. Jobs'
  <2>1. \A u \in Turn : turn'[u].told = "started" <=> job'.turn = u
      BY <1>10 DEF Inv, Jobs
  <2>2. \A u \in Turn : turn'[u].thrown => turn'[u].terminal # None
      BY <1>10 DEF Inv, Jobs
  <2>. QED  BY <1>4, <1>10, <2>1, <2>2 DEF Inv, Jobs
<1>15. Asks'
  <2>1. ASSUME NEW b \in Approval
        PROVE  Fine(ask'[b]) /\ (ask'[b].pending => job.turn # None /\ ask'[b].turn = job.turn)
    <3>1. Fine(K[b]) /\ (K[b].pending => K[b].turn = job.turn)
        BY <1>4
    <3>. QED  BY <1>4, <1>7, <3>1
  <2>. QED  BY <2>1 DEF Asks
<1>16. Events'
  <2>1. \A u \in Turn, i \in Nat, b \in Approval : Waits(u, i, b)' => u # t /\ Waits(u, i, b)
    <3>1. DOMAIN queue'[t].events = {}
        BY <1>11, EmptySeq, LenProperties
    <3>. QED  BY <1>11, <3>1 DEF Waits
  <2>2. ASSUME NEW u \in Turn, NEW b \in Approval, NEW i \in Nat, Waits(u, i, b)'
        PROVE  /\ ask'[b].told = "no" /\ ~ ask'[b].pending /\ ask'[b].sess # 0
               /\ \A v \in Turn, j \in Nat : Waits(v, j, b)' => v = u /\ j = i
    <3>1. u # t /\ Waits(u, i, b)
        BY <2>1, <2>2
    <3>3. /\ ask'[b].told = ask[b].told /\ ask'[b].pending = ask[b].pending
          /\ ask'[b].sess = ask[b].sess
        BY <1>7, <3>1
    <3>. QED  BY <2>1, <3>1, <3>3 DEF Inv, Events
  <2>. QED  BY <2>2 DEF Events
<1>17. Running'
    BY <1>4, <1>10 DEF Running
<1>18. Teardowns'
  <2>1. ~ deleted
      BY <1>4 DEF Inv, Teardowns, Quiet
  <2>2. down.sess # 0 => down.sess \in Session
      BY DEF Inv, Types, DownRec
  <2>3. (down.at = "session" /\ down.sess # 0) => sess'[down.sess].at \notin {"none", "live"}
      BY <1>8, <2>2 DEF Inv, Teardowns, SessionsCalm, Rested
  <2>. QED  BY <2>1, <2>3 DEF Inv, Teardowns, NoDown
<1>. QED  BY <1>12, <1>13, <1>14, <1>15, <1>16, <1>17, <1>18 DEF Inv

\* "confirmation-required".
LEMMA ProjectAskKeeps ==
    ASSUME Inv, NEW t \in Turn, NEW a \in Approval, ProjectAsk(t, a)
    PROVE  Inv'
<1>. DEFINE asked == [ask EXCEPT ![a].pending = TRUE, ![a].turn = t, ![a].own = turn[t].own]
<1>1. /\ Reads(t) /\ queue[t].events # <<>> /\ Head(queue[t].events) = <<"ask", a>>
      /\ UNCHANGED <<call, threads, active, job, settled, closeAt>>
    BY DEF ProjectAsk
<1>2. PICK F \in Failures({a}, turn[t].own) :
             /\ faults' = Faulted(F, turn[t].own)
             /\ IF F = {}
                THEN /\ ask' = [asked EXCEPT ![a].told = "required"]
                     /\ queue' = [queue EXCEPT ![t].events = Tail(@)]
                     /\ UNCHANGED <<turn, sess>>
                ELSE Abandon(t, asked)
    BY DEF ProjectAsk
<1>3. faults' \in 0 .. MaxFaults
  <2>1. IsFiniteSet({a}) /\ TypeOK
      BY FS_Singleton DEF Inv, Types
  <2>2. F \in Failures({a}, turn[t].own) /\ faults' = Faulted(F, turn[t].own)
      BY <1>2
  <2>. QED  BY <2>1, <2>2, FaultsBounded
<1>4. ask \in [Approval -> AskRec]
    BY NothingChanged
<1>5. asked = [ask EXCEPT ![a] = Pended(ask[a], t, turn[t].own)]
    BY <1>4 DEF Pended
<1>6. [asked EXCEPT ![a].told = "required"] = [ask EXCEPT ![a] = Required(ask[a], t, turn[t].own)]
    BY <1>4 DEF Required
<1>7. UNCHANGED <<threads, active, job, current, ownership>> /\ UNCHANGED <<call, opening>>
      /\ UNCHANGED <<settled, closeAt, down, deleted>>
    BY <1>1 DEF threads
<1>. HIDE DEF asked
<1>8. CASE F = {}
  <2>1. ask' = [ask EXCEPT ![a] = Required(ask[a], t, turn[t].own)]
        /\ queue' = [queue EXCEPT ![t].events = Tail(@)] /\ UNCHANGED <<call, turn, sess, opening>>
      BY <1>2, <1>6, <1>7, <1>8
  <2>. QED  BY <1>1, <1>3, <1>7, <2>1, ShowKeeps
<1>9. CASE F # {}
  <2>1. Abandon(t, asked)
      BY <1>2, <1>9
  <2>2. /\ ask[a] \in AskRec /\ Fine(ask[a]) /\ ask[a].told = "no" /\ ask[a].sess # 0
        /\ \A u \in Turn, i \in Nat : Waits(u, i, a) => u = t /\ i = 1
      BY <1>1, HeadAsk
  <2>3. turn[t].own \in Session \cup {0}
      BY NothingChanged DEF TurnRec
  <2>4. /\ asked \in [Approval -> AskRec] /\ Fine(asked[a]) /\ asked[a].turn = t
        /\ \A b \in Approval : b # a => asked[b] = ask[b]
      BY <1>4, <1>5, <2>2, <2>3, RequiredParts
  <2>5. \A b \in Approval : Fine(asked[b]) /\ (asked[b].pending => asked[b].turn = t)
      BY <1>1, <2>4 DEF Inv, Asks, Reads
  <2>6. \A u \in Turn, i \in Nat, b \in Approval : (u # t /\ Waits(u, i, b)) => asked[b] = ask[b]
      BY <2>2, <2>4
  <2>. QED  BY <1>1, <1>3, <1>7, <2>1, <2>4, <2>5, <2>6, AbandonKeeps
<1>. QED  BY <1>8, <1>9

\* Another event that cannot be told.
LEMMA ProjectOtherKeeps ==
    ASSUME Inv, NEW t \in Turn, ProjectOther(t)
    PROVE  Inv'
<1>1. /\ Reads(t) /\ Abandon(t, ask)
      /\ UNCHANGED <<call, threads, active, job, settled, closeAt>>
    BY DEF ProjectOther
<1>2. faults' \in 0 .. MaxFaults
  <2>1. IsFiniteSet({t}) /\ TypeOK
      BY FS_Singleton DEF Inv, Types
  <2>2. PICK F \in Failures({t}, turn[t].own) : faults' = Faulted(F, turn[t].own)
      BY DEF ProjectOther
  <2>. QED  BY <2>1, <2>2, FaultsBounded
<1>3. ask \in [Approval -> AskRec]
    BY NothingChanged
<1>4. \A b \in Approval : Fine(ask[b]) /\ (ask[b].pending => ask[b].turn = t)
    BY <1>1 DEF Inv, Asks, Reads
<1>5. UNCHANGED <<threads, active, job, current, ownership>> /\ UNCHANGED <<call, opening>>
      /\ UNCHANGED <<settled, closeAt, down, deleted>>
    BY <1>1 DEF threads
<1>. QED  BY <1>1, <1>2, <1>3, <1>4, <1>5, AbandonKeeps

\* The loop is over: what was pending in the turn is settled, and when all of it
\* was told the job is over too.
LEMMA EndTurnKeeps ==
    ASSUME Inv, NEW t \in Turn, EndTurn(t)
    PROVE  Inv'
<1>. DEFINE A == Pending(t)
            s == turn[t].sess
            own == turn[t].own
<1>1. /\ ask \in [Approval -> AskRec] /\ turn \in [Turn -> TurnRec]
      /\ sess \in [Session -> SessRec]
    BY NothingChanged
<1>2. /\ active = t /\ job.turn = t /\ ~ job.failed /\ t # None /\ s \in Session
      /\ current # 0 /\ job = [turn |-> t, failed |-> FALSE]
  <2>1. active = t /\ job.turn = t /\ ~ job.failed /\ t # None
      BY TurnsAssumption DEF EndTurn, Inv, Jobs
  <2>. QED  BY <2>1, ActiveFacts DEF Inv, Jobs
<1>3. /\ active' = None /\ settled' = Settle(t)
      /\ sess' = IF sess[s].emit = t THEN [sess EXCEPT ![s].emit = None] ELSE sess
      /\ UNCHANGED <<call, threads, queue, closeAt>>
    BY <1>2 DEF EndTurn
<1>4. PICK F \in Failures(A \cup {t}, own) :
             /\ faults' = Faulted(F, own)
             /\ \/ ask' = Resolved(ask, A, F, "cancelled")
                \/ t \in F /\ UNCHANGED ask
             /\ IF F = {}
                THEN /\ turn' = [turn EXCEPT ![t] = [NoTurn EXCEPT !.told = "ended"]]
                     /\ job' = NoJob
                ELSE /\ job' = [job EXCEPT !.failed = TRUE]
                     /\ UNCHANGED turn
    BY DEF EndTurn, LeftOver
<1>5. A \subseteq Approval /\ IsFiniteSet(A) /\ \A a \in A : ask[a].pending
    BY FS_Subset, TurnsAssumption DEF Pending
<1>6. faults' \in 0 .. MaxFaults
  <2>. HIDE DEF A, own
  <2>1. IsFiniteSet(A \cup {t}) /\ TypeOK
      BY <1>5, FS_AddElement DEF Inv, Types
  <2>2. F \in Failures(A \cup {t}, own) /\ faults' = Faulted(F, own)
      BY <1>4
  <2>. QED  BY <2>1, <2>2, FaultsBounded
<1>7. settled' \in Seq(Turn) /\ Len(settled') <= CacheSize
    BY <1>3, OwnersTyped DEF Inv, Types
<1>8. sess' \in [Session -> SessRec] /\ SessionsCalm
  <2>. HIDE DEF s
  <2>1. sess \in [Session -> SessRec] /\ \A r \in Session : Rested(sess[r], sess[r])
      BY SessionRests DEF Inv, Types
  <2>2. /\ [sess EXCEPT ![s].emit = None] \in [Session -> SessRec]
        /\ \A r \in Session : Rested(sess[r], [sess EXCEPT ![s].emit = None][r])
      BY <1>2, <2>1, EmitRests
  <2>. QED  BY <1>3, <2>1, <2>2 DEF SessionsCalm
<1>9. ask' \in [Approval -> AskRec] /\ AsksCalm
      /\ (ask' = Resolved(ask, A, F, "cancelled") => \A a \in A : ~ ask'[a].pending)
  <2>. HIDE DEF A
  <2>1. CASE UNCHANGED ask /\ ask' # Resolved(ask, A, F, "cancelled")
      BY <2>1, NothingChanged
  <2>2. CASE ask' = Resolved(ask, A, F, "cancelled")
    <3>. DEFINE K == Resolved(ask, A, F, "cancelled")
    <3>1. K \in [Approval -> AskRec] /\ \A a \in Approval : Later(ask[a], K[a])
        BY <1>5, CancelledLater
    <3>2. \A a \in A : ~ K[a].pending
      <4>. SUFFICES ASSUME NEW a \in A PROVE ~ K[a].pending
          OBVIOUS
      <4>1. a \in Approval /\ ask[a] \in AskRec
          BY <1>1, <1>5
      <4>. DEFINE how == IF a \in F THEN "lost" ELSE "cancelled"
      <4>2. K[a] = Taken(ask[a], how)
          BY <4>1, ResolvedIs
      <4>3. how \in Told
          BY DEF Told
      <4>. HIDE DEF how, K
      <4>. QED  BY <4>1, <4>2, <4>3, TakenParts
    <3>. HIDE DEF K
    <3>. QED  BY <2>2, <3>1, <3>2 DEF K, AsksCalm
  <2>. QED  BY <1>4, <2>1, <2>2
<1>10. UNCHANGED <<current, ownership, opening>> /\ UNCHANGED <<down, deleted, call, queue, closeAt>>
    BY <1>3 DEF threads
<1>11. Sessions' /\ Openings'
    BY <1>8, <1>10, SessionsKept, OpeningsKept DEF CallsCalm
<1>12. Events'
    BY <1>9, <1>10, EventsKept
<1>13. Running'
    BY <1>3 DEF Running
<1>14. Teardowns'
  <2>1. ~ deleted
      BY <1>2 DEF Inv, Teardowns
  <2>2. down.sess # 0 => down.sess \in Session
      BY DEF Inv, Types, DownRec
  <2>3. (down.at = "session" /\ down.sess # 0) => sess'[down.sess].at \notin {"none", "live"}
      BY <1>8, <2>2 DEF Inv, Teardowns, SessionsCalm, Rested
  <2>. QED  BY <1>10, <2>1, <2>3 DEF Inv, Teardowns, NoDown
<1>15. /\ turn' \in [Turn -> TurnRec] /\ job' \in [turn : Turn \cup {None}, failed : BOOLEAN]
       /\ Jobs' /\ Asks'
  <2>. HIDE DEF A, s, own
  <2>1. CASE F = {}
    <3>1. turn' = [turn EXCEPT ![t] = [NoTurn EXCEPT !.told = "ended"]] /\ job' = NoJob
          /\ ask' = Resolved(ask, A, F, "cancelled")
        BY <1>4, <2>1
    <3>2. [NoTurn EXCEPT !.told = "ended"] \in TurnRec
        BY DEF NoTurn, TurnRec
    <3>3. /\ turn' \in [Turn -> TurnRec] /\ turn'[t].told = "ended" /\ ~ turn'[t].thrown
          /\ \A u \in Turn : u # t => turn'[u] = turn[u]
        BY <1>1, <3>1, <3>2 DEF NoTurn
    <3>4. job'.turn = None /\ ~ job'.failed
        BY <3>1 DEF NoJob
    <3>5. Jobs'
      <4>1. \A u \in Turn : turn'[u].told # "started"
          BY <1>2, <3>3 DEF Inv, Jobs
      <4>2. \A u \in Turn : u # None
          BY TurnsAssumption
      <4>3. \A u \in Turn : turn'[u].thrown => turn'[u].terminal # None
          BY <3>3 DEF Inv, Jobs
      <4>. QED  BY <1>3, <3>4, <4>1, <4>2, <4>3 DEF Jobs
    <3>6. Asks'
      <4>1. ASSUME NEW a \in Approval
            PROVE  Fine(ask'[a]) /\ ~ ask'[a].pending
        <5>1. Later(ask[a], ask'[a])
            BY <1>9 DEF AsksCalm
        <5>2. ask[a].pending => a \in A
            BY <1>2 DEF A, Pending, Inv, Asks
        <5>3. a \in A => ~ ask'[a].pending
            BY <1>9, <3>1
        <5>. QED  BY <5>1, <5>2, <5>3 DEF Later
      <4>. QED  BY <4>1 DEF Asks
    <3>7. job' \in [turn : Turn \cup {None}, failed : BOOLEAN]
        BY <3>1 DEF NoJob
    <3>. QED  BY <3>3, <3>5, <3>6, <3>7
  <2>2. CASE F # {}
    <3>1. job' = [turn |-> t, failed |-> TRUE] /\ UNCHANGED turn
        BY <1>2, <1>4, <2>2
    <3>2. turn' \in [Turn -> TurnRec] /\ job' \in [turn : Turn \cup {None}, failed : BOOLEAN]
        BY <1>1, <3>1
    <3>3. Jobs'
        BY <1>2, <1>3, <1>10, <3>1 DEF Inv, Jobs
    <3>4. Asks'
        BY <1>2, <1>9, <3>1 DEF Inv, Asks, AsksCalm, Later
    <3>. QED  BY <3>2, <3>3, <3>4
  <2>. QED  BY <2>1, <2>2
<1>16. Types'
  <2>1. \A i \in DOMAIN settled' : settled'[i] \in Turn
      BY <1>7, ElementOfSeq, LenProperties
  <2>. QED
      BY <1>3, <1>6, <1>7, <1>8, <1>9, <1>10, <1>15, <2>1
         DEF Inv, Types, TypeOK, AskRec, SessRec, TurnRec
<1>. QED  BY <1>11, <1>12, <1>13, <1>14, <1>15, <1>16 DEF Inv

-----------------------------------------------------------------------------
(* The steps that close a session, a thread and the service.               *)

\* A session that is cleaned, without its turn: where it is is all that changes.
LEMMA CleanKeeps ==
    ASSUME Inv, NEW s \in Session, sess[s].at \in {"jobs", "barrier"}, NEW at \in {"barrier", "failed"},
           \A c \in Call : call[c] # "opened", sess[s].turn = None,
           sess' = [sess EXCEPT ![s].at = at], faults' \in 0 .. MaxFaults,
           UNCHANGED <<call, threads, active, turn, job, settled, queue, ask, closeAt>>
    PROVE  Inv'
<1>1. sess \in [Session -> SessRec]
    BY NothingChanged
<1>2. /\ sess' \in [Session -> SessRec] /\ sess'[s].at = at
      /\ \A r \in Session : /\ sess'[r].turn = sess[r].turn /\ sess'[r].aborted = sess[r].aborted
                            /\ sess'[r].claimed = sess[r].claimed
      /\ \A r \in Session : r # s => sess'[r] = sess[r]
    BY <1>1 DEF SessRec
<1>3. UNCHANGED <<current, ownership, opening, down, deleted>>
    BY DEF threads
<1>4. TurnsCalm /\ AsksCalm
    BY NothingChanged
<1>5. Types'
    BY <1>2, <1>3 DEF Inv, Types, TypeOK, SessRec
<1>6. Sessions'
  <2>1. ASSUME NEW r \in Session
        PROVE  /\ r # current <=> sess'[r].at \in {"none", "closed"}
               /\ sess'[r].claimed <=> r = current
               /\ sess'[r].turn # None => sess'[r].at \in {"live", "jobs"}
      BY <1>2 DEF Inv, Sessions
  <2>. QED  BY <1>3, <2>1 DEF Inv, Sessions
<1>7. Openings'
    BY <1>3 DEF Inv, Openings
<1>8. Jobs' /\ Asks' /\ Events'
    BY <1>3, <1>4, JobsKept, AsksKept, EventsKept
<1>9. Running'
  <2>. SUFFICES ASSUME active # None, ~ turn[active].thrown
                PROVE  Run(active)'
      BY DEF Running
  <2>1. turn[active].sess \in Session /\ Run(active)
      BY ActiveFacts DEF Inv, Running
  <2>. QED  BY <1>2, <2>1 DEF Run
<1>10. Teardowns'
  <2>1. down.sess # 0 => down.sess \in Session
      BY DEF Inv, Types, DownRec
  <2>2. Quiet => Quiet'
      BY <1>2 DEF Quiet
  <2>. QED  BY <1>2, <1>3, <2>1, <2>2 DEF Inv, Teardowns, NoDown
<1>. QED  BY <1>5, <1>6, <1>7, <1>8, <1>9, <1>10 DEF Inv

\* The executions are over, and the processes.
LEMMA CleanSessionKeeps ==
    ASSUME Inv, NEW s \in Session, CleanSession(s)
    PROVE  Inv'
<1>1. /\ sess[s].at \in {"jobs", "barrier"} /\ sess[s].turn = None
      /\ \A c \in Call : call[c] # "opened"
      /\ UNCHANGED <<call, threads, active, turn, job, settled, queue, ask, closeAt>>
    BY DEF CleanSession, JobsOver
<1>2. CASE sess' = [sess EXCEPT ![s].at = "barrier"] /\ UNCHANGED faults
    BY <1>1, <1>2, CleanKeeps, NothingChanged
<1>3. CASE /\ faults < MaxFaults /\ faults' = faults + 1
           /\ sess' = [sess EXCEPT ![s].at = "failed"]
  <2>1. faults' \in 0 .. MaxFaults
      BY <1>3, NothingChanged, TurnsAssumption, SMT
  <2>. QED  BY <1>1, <1>3, <2>1, CleanKeeps
<1>. QED  BY <1>2, <1>3 DEF CleanSession

\* A session that is gone.
Gone(r) == [r EXCEPT !.at = "closed", !.claimed = FALSE, !.aborted = FALSE]

\* What a session is that gave its claim back.
LEMMA GoneParts ==
    ASSUME NEW r \in SessRec
    PROVE  /\ Gone(r) \in SessRec
           /\ Gone(r).at = "closed" /\ Gone(r).claimed = FALSE /\ Gone(r).turn = r.turn
BY DEF Gone, SessRec

\* The barrier gives the claim back when no turn has a job.
LEMMA BarrierKeeps ==
    ASSUME Inv, NEW s \in Session, Barrier(s)
    PROVE  Inv'
<1>1. /\ sess[s].at = "barrier" /\ JobOver
      /\ UNCHANGED <<call, opening, down, deleted, active, turn, job, settled, queue, ask,
                     closeAt, faults>>
    BY DEF Barrier
<1>2. s = current /\ sess[s].turn = None /\ current # 0
    BY <1>1, Fields DEF Inv, Types, Sessions
<1>3. \A c \in Call : call[c] # "opened"
    BY <1>1, <1>2 DEF Inv, Openings
<1>4. CASE sess' = [sess EXCEPT ![s].at = "failed"] /\ UNCHANGED <<ownership, current>>
    BY <1>1, <1>2, <1>3, <1>4, CleanKeeps, NothingChanged DEF threads
<1>5. CASE /\ ~ job.failed
           /\ sess' = [sess EXCEPT ![s].at = "closed", ![s].claimed = FALSE, ![s].aborted = FALSE]
           /\ ownership' = 0 /\ current' = 0
  <2>1. sess \in [Session -> SessRec]
      BY NothingChanged
  <2>2. sess' = [sess EXCEPT ![s] = Gone(sess[s])]
      BY <1>5, <2>1 DEF Gone
  <2>3. /\ sess' \in [Session -> SessRec]
        /\ sess'[s].at = "closed" /\ sess'[s].claimed = FALSE /\ sess'[s].turn = None
        /\ \A r \in Session : r # s => sess'[r] = sess[r]
      BY <1>2, <2>1, <2>2, GoneParts
  <2>4. job = NoJob /\ active = None
      BY <1>1, <1>5 DEF JobOver, Inv, Jobs, NoJob
  <2>5. AsksCalm
      BY <1>1, NothingChanged
  <2>6. Types'
      BY <1>1, <1>5, <2>3 DEF Inv, Types, TypeOK, SessRec
  <2>7. Sessions'
    <3>1. ASSUME NEW r \in Session
          PROVE  /\ r # 0 /\ sess'[r].at \in {"none", "closed"}
                 /\ ~ sess'[r].claimed
                 /\ sess'[r].turn = None
      <4>1. r # s => sess[r].at \in {"none", "closed"} /\ ~ sess[r].claimed /\ sess[r].turn = None
          BY <1>2 DEF Inv, Sessions
      <4>2. r # 0
          BY Fields DEF Inv, Types
      <4>. QED  BY <2>3, <4>1, <4>2
    <3>. QED  BY <1>5, <3>1 DEF Sessions
  <2>8. Openings'
      BY <1>1, <1>3, <1>5 DEF Inv, Openings
  <2>9. Jobs'
      BY <1>1, <1>5, <2>4 DEF Inv, Jobs, NoJob
  <2>10. Asks' /\ Events' /\ Running'
      BY <1>1, <2>4, <2>5, AsksKept, EventsKept DEF Running
  <2>11. Teardowns'
    <3>1. down.sess # 0 => down.sess \in Session
        BY DEF Inv, Types, DownRec
    <3>2. (down.at = "session" /\ down.sess # 0) => sess'[down.sess].at \notin {"none", "live"}
        BY <2>3, <3>1 DEF Inv, Teardowns
    <3>3. ~ deleted
        BY <1>2 DEF Inv, Teardowns
    <3>. QED  BY <1>1, <1>5, <3>2, <3>3 DEF Inv, Teardowns, NoDown
  <2>. QED  BY <2>6, <2>7, <2>8, <2>9, <2>10, <2>11 DEF Inv
<1>. QED  BY <1>4, <1>5 DEF Barrier

\* detachThread and deleteThread close the thread to other calls.
LEMMA BeginTeardownKeeps ==
    ASSUME Inv, NEW kind \in {"detach", "delete"}, BeginTeardown(kind)
    PROVE  Inv'
<1>1. /\ down' = [kind |-> kind, at |-> "opening", sess |-> 0] /\ closeAt = "no" /\ ~ deleted
      /\ UNCHANGED <<call, opening, current, ownership, deleted, active, turn, job, settled>>
      /\ UNCHANGED <<queue, sess, ask, closeAt, faults>>
    BY DEF BeginTeardown, ThreadOpen, Open
<1>2. TurnsCalm /\ AsksCalm /\ SessionsCalm /\ CallsCalm
    BY <1>1, NothingChanged
<1>3. Types'
    BY <1>1 DEF Inv, Types, TypeOK, DownRec
<1>4. Sessions' /\ Openings' /\ Jobs' /\ Asks' /\ Events' /\ Running'
    BY <1>1, <1>2, SessionsKept, OpeningsKept, JobsKept, AsksKept, EventsKept, RunningKept
<1>5. Teardowns'
    BY <1>1 DEF Teardowns, NoDown
<1>. QED  BY <1>3, <1>4, <1>5 DEF Inv

\* The remembered session is closed, when no other is being opened.
LEMMA ClosingFacts ==
    ASSUME Inv, sess' = ClosedSession(current), ask' = ClosedAsks(current)
    PROVE  /\ sess' \in [Session -> SessRec] /\ SessionsCalm
           /\ ask' \in [Approval -> AskRec] /\ AsksCalm
           /\ current # 0 => sess'[current].at \notin {"none", "live"}
<1>1. current \in Session \cup {0} /\ TypeOK
    BY DEF Inv, Types, TypeOK
<1>2. sess' \in [Session -> SessRec] /\ SessionsCalm
      /\ (current # 0 => sess'[current].at # "live")
    BY <1>1, CloseRests DEF SessionsCalm
<1>3. Calm(ask, ask')
    BY <1>1, CloseCalm
<1>4. current # 0 => sess'[current].at # "none"
  <2>1. current # 0 => current \in Session /\ sess[current].at # "none"
      BY <1>1 DEF Inv, Sessions
  <2>. QED  BY <1>2, <2>1 DEF SessionsCalm, Rested
<1>. QED  BY <1>2, <1>3, <1>4, CalmIsLater

\* The teardown has its session.
LEMMA TeardownSessionKeeps ==
    ASSUME Inv, TeardownSession
    PROVE  Inv'
<1>1. /\ sess' \in [Session -> SessRec] /\ SessionsCalm
      /\ ask' \in [Approval -> AskRec] /\ AsksCalm
      /\ current # 0 => sess'[current].at \notin {"none", "live"}
    BY ClosingFacts DEF TeardownSession
<1>2. /\ down.at = "opening" /\ ~ opening
      /\ UNCHANGED <<call, opening, current, ownership, deleted, active, turn, job, settled>>
      /\ UNCHANGED <<queue, closeAt, faults>>
    BY DEF TeardownSession, OpeningOver
<1>3. TurnsCalm /\ CallsCalm
    BY <1>2, NothingChanged
<1>4. down \in DownRec /\ current \in Session \cup {0}
    BY DEF Inv, Types, TypeOK
<1>5. /\ down' \in DownRec
      /\ down' = NoDown \/ (down'.at = "session" /\ down'.sess = current)
      /\ down'.at # "failed" /\ (down'.at = "none" <=> down' = NoDown)
  <2>1. CASE down' = NoDown
      BY <2>1 DEF NoDown, DownRec
  <2>2. CASE down' = [down EXCEPT !.at = "session", !.sess = current]
    <3>1. down' \in DownRec /\ down'.at = "session" /\ down'.sess = current
        BY <1>4, <2>2 DEF DownRec
    <3>. QED  BY <3>1 DEF NoDown
  <2>. QED  BY <2>1, <2>2 DEF TeardownSession
<1>6. Types'
    BY <1>1, <1>2, <1>5 DEF Inv, Types, TypeOK, SessRec, AskRec
<1>7. Sessions' /\ Openings' /\ Jobs' /\ Asks' /\ Events' /\ Running'
    BY <1>1, <1>2, <1>3, SessionsKept, OpeningsKept, JobsKept, AsksKept, EventsKept, RunningKept
<1>8. Teardowns'
  <2>1. closeAt \notin {"sessions", "closed", "failed"}
      BY <1>2 DEF Inv, Teardowns
  <2>2. deleted => Quiet' /\ current = 0
    <3>1. Quiet => Quiet'
        BY <1>1, <1>2 DEF Quiet, SessionsCalm, Rested, AsksCalm, Later
    <3>. QED  BY <3>1 DEF Inv, Teardowns
  <2>. QED  BY <1>1, <1>2, <1>5, <2>1, <2>2 DEF Teardowns, NoDown
<1>. QED  BY <1>6, <1>7, <1>8 DEF Inv

\* A teardown is over: the thread is free, or deleted, when its session is gone.
LEMMA EndTeardownKeeps ==
    ASSUME Inv, EndTeardown
    PROVE  Inv'
<1>. DEFINE failed == (down.sess # 0 /\ sess[down.sess].at = "failed") \/ job.failed
<1>1. /\ down.at = "session"
      /\ down.sess # 0 => sess[down.sess].at \in {"closed", "failed"}
      /\ UNCHANGED <<call, opening, active, turn, job, settled, queue, sess, ask, closeAt, faults>>
    BY DEF EndTeardown
<1>2. TurnsCalm /\ AsksCalm /\ SessionsCalm /\ CallsCalm
    BY <1>1, NothingChanged
<1>3. down \in DownRec /\ ownership = current /\ ~ opening
    BY <1>1 DEF Inv, Types, Sessions, Teardowns
<1>4. closeAt \notin {"sessions", "closed", "failed"}
    BY <1>1 DEF Inv, Teardowns
<1>5. CASE /\ down' = [down EXCEPT !.at = "failed"]
           /\ UNCHANGED <<current, ownership, deleted>>
  <2>1. down' \in DownRec /\ down'.at = "failed"
      BY <1>3, <1>5 DEF DownRec
  <2>2. down' # NoDown
      BY <2>1 DEF NoDown
  <2>3. Types'
      BY <1>1, <1>5, <2>1 DEF Inv, Types, TypeOK
  <2>4. Sessions' /\ Openings' /\ Jobs' /\ Asks' /\ Events' /\ Running'
      BY <1>1, <1>2, <1>5, SessionsKept, OpeningsKept, JobsKept, AsksKept, EventsKept, RunningKept
  <2>5. Teardowns'
      BY <1>1, <1>4, <1>5, <2>1, <2>2 DEF Inv, Teardowns, Quiet
  <2>. QED  BY <2>3, <2>4, <2>5 DEF Inv
<1>6. CASE /\ ~ failed
           /\ down' = NoDown /\ current' = 0 /\ ownership' = 0
           /\ deleted' \in {deleted, down.kind = "delete"}
  <2>1. current = 0
    <3>1. down.sess # 0 => down.sess \in Session /\ sess[down.sess].at = "closed"
        BY <1>1, <1>3, <1>6 DEF DownRec
    <3>2. current \in {0, down.sess}
        BY <1>1 DEF Inv, Teardowns
    <3>. QED  BY <3>1, <3>2 DEF Inv, Sessions
  <2>2. UNCHANGED <<current, ownership>> /\ Quiet
      BY <1>3, <1>6, <2>1, NothingLeft
  <2>3. Types'
    <3>1. deleted' \in BOOLEAN /\ NoDown \in DownRec
        BY <1>6 DEF Inv, Types, TypeOK, NoDown, DownRec
    <3>. QED  BY <1>1, <1>6, <3>1 DEF Inv, Types, TypeOK
  <2>4. Sessions' /\ Openings' /\ Jobs' /\ Asks' /\ Events' /\ Running'
      BY <1>1, <1>2, <2>2, SessionsKept, OpeningsKept, JobsKept, AsksKept, EventsKept, RunningKept
  <2>5. Teardowns'
    <3>1. Quiet'
        BY <1>1, <2>2 DEF Quiet
    <3>. QED  BY <1>1, <1>3, <1>4, <1>6, <3>1 DEF Teardowns, NoDown
  <2>. QED  BY <2>3, <2>4, <2>5 DEF Inv
<1>. QED  BY <1>5, <1>6 DEF EndTeardown

\* close closes the remembered session when the calls are over.
LEMMA CloseSessionsKeeps ==
    ASSUME Inv, CloseSessions
    PROVE  Inv'
<1>1. /\ sess' \in [Session -> SessRec] /\ SessionsCalm
      /\ ask' \in [Approval -> AskRec] /\ AsksCalm
    BY ClosingFacts DEF CloseSessions
<1>2. /\ CallsOver /\ ~ opening /\ closeAt' = "sessions"
      /\ UNCHANGED <<call, opening, current, ownership, down, deleted, active, turn, job, settled>>
      /\ UNCHANGED <<queue, faults>>
    BY DEF CloseSessions, threads
<1>3. TurnsCalm /\ CallsCalm
    BY <1>2, NothingChanged
<1>4. Types'
    BY <1>1, <1>2 DEF Inv, Types, TypeOK, SessRec, AskRec
<1>5. Sessions' /\ Openings' /\ Jobs' /\ Asks' /\ Events' /\ Running'
    BY <1>1, <1>2, <1>3, SessionsKept, OpeningsKept, JobsKept, AsksKept, EventsKept, RunningKept
<1>6. Teardowns'
  <2>1. Quiet => Quiet'
      BY <1>1, <1>2 DEF Quiet, SessionsCalm, Rested, AsksCalm, Later
  <2>2. down.at # "session"
      BY <1>2 DEF CallsOver
  <2>. QED  BY <1>2, <2>1, <2>2 DEF Inv, Teardowns, NoDown, CallsOver
<1>. QED  BY <1>4, <1>5, <1>6 DEF Inv

\* An approval that close() drops, when nothing was pending any more.
Dropped(r) == [r EXCEPT !.pending = FALSE]

\* What an approval is that nobody waits for any more.
LEMMA DroppedParts ==
    ASSUME NEW r \in AskRec, Fine(r), ~ r.pending
    PROVE  Later(r, Dropped(r))
<1>1. /\ Dropped(r) \in AskRec /\ Dropped(r).pending = FALSE
      /\ Dropped(r).sess = r.sess /\ Dropped(r).told = r.told
      /\ Dropped(r).gate = r.gate /\ Dropped(r).decision = r.decision
    BY DEF Dropped, AskRec
<1>. QED  BY <1>1 DEF Later, Fine

\* close is over.
LEMMA EndCloseKeeps ==
    ASSUME Inv, EndClose
    PROVE  Inv'
<1>. DEFINE failed == (current # 0 /\ sess[current].at = "failed") \/ job.failed
<1>1. /\ closeAt = "sessions"
      /\ current # 0 => sess[current].at = "failed"
      /\ UNCHANGED <<call, opening, down, deleted, active, turn, job, queue, sess, faults>>
    BY DEF EndClose
<1>2. TurnsCalm /\ SessionsCalm /\ CallsCalm
    BY <1>1, NothingChanged
<1>3. CASE /\ closeAt' = "failed"
           /\ UNCHANGED <<current, ownership, ask, settled>>
  <2>1. AsksCalm
      BY <1>3, NothingChanged
  <2>2. Types'
      BY <1>1, <1>3 DEF Inv, Types, TypeOK
  <2>3. Sessions' /\ Openings' /\ Jobs' /\ Asks' /\ Events' /\ Running'
      BY <1>1, <1>2, <1>3, <2>1, SessionsKept, OpeningsKept, JobsKept, AsksKept, EventsKept, RunningKept
  <2>4. Teardowns'
      BY <1>1, <1>3 DEF Inv, Teardowns, NoDown, Quiet
  <2>. QED  BY <2>2, <2>3, <2>4 DEF Inv
<1>4. CASE /\ ~ failed
           /\ closeAt' = "closed" /\ settled' = <<>>
           /\ current' = 0 /\ ownership' = 0
           /\ ask' = [a \in Approval |-> [ask[a] EXCEPT !.pending = FALSE]]
  <2>1. current = 0 /\ ownership = 0 /\ Quiet
      BY <1>1, <1>4, NothingLeft DEF Inv, Sessions
  <2>2. UNCHANGED <<current, ownership>>
      BY <1>4, <2>1
  <2>3. AsksCalm /\ ask' \in [Approval -> AskRec]
    <3>1. ask' = [a \in Approval |-> Dropped(ask[a])]
        BY <1>4 DEF Dropped
    <3>2. ASSUME NEW a \in Approval
          PROVE  Later(ask[a], Dropped(ask[a]))
      <4>1. ask[a] \in AskRec /\ Fine(ask[a]) /\ ~ ask[a].pending
          BY <2>1, NothingChanged DEF Inv, Asks, Quiet
      <4>. QED  BY <4>1, DroppedParts
    <3>3. \A a \in Approval : Dropped(ask[a]) \in AskRec
        BY <3>2 DEF Later
    <3>. QED  BY <3>1, <3>2, <3>3 DEF AsksCalm
  <2>4. Types'
    <3>1. settled' \in Seq(Turn) /\ Len(settled') <= CacheSize /\ DOMAIN settled' = {}
        BY <1>4, EmptySeq, LenProperties, TurnsAssumption
    <3>. QED  BY <1>1, <1>4, <2>3, <3>1 DEF Inv, Types, TypeOK, AskRec
  <2>5. Sessions' /\ Openings' /\ Jobs' /\ Asks' /\ Events' /\ Running'
      BY <1>1, <1>2, <2>2, <2>3, SessionsKept, OpeningsKept, JobsKept, AsksKept, EventsKept, RunningKept
  <2>6. Teardowns'
    <3>1. Quiet => Quiet'
        BY <1>1, <2>3 DEF Quiet, AsksCalm, Later
    <3>. QED  BY <1>1, <1>4, <2>1, <3>1 DEF Inv, Teardowns, NoDown
  <2>. QED  BY <2>4, <2>5, <2>6 DEF Inv
<1>. QED  BY <1>3, <1>4 DEF EndClose

-----------------------------------------------------------------------------
(* The invariant.                                                          *)

\* At first no session is open and no turn has a job.
LEMMA InitInv == Init => Inv
<1>. SUFFICES ASSUME Init PROVE Inv
    OBVIOUS
<1>1. Types
  <2>1. 0 \in 0 .. MaxFaults /\ 0 \in Session \cup {0} /\ Len(<<>>) <= CacheSize
      BY TurnsAssumption, EmptySeq, SMT
  <2>2. turn \in [Turn -> TurnRec]
      BY DEF Init, TurnRec, NoTurn
  <2>3. sess \in [Session -> SessRec]
      BY DEF Init, SessRec, NoSession
  <2>4. ask \in [Approval -> AskRec]
      BY DEF Init, AskRec, NoAsk, Told
  <2>5. queue \in [Turn -> QueueRec] /\ \A t \in Turn : queue[t].closed \in BOOLEAN
      BY EmptySeq DEF Init, QueueRec
  <2>6. /\ call \in [Call -> {"idle", "opening", "opened", "done"}]
        /\ opening \in BOOLEAN /\ deleted \in BOOLEAN
        /\ current \in Session \cup {0} /\ ownership \in Session \cup {0}
        /\ active \in Turn \cup {None}
        /\ job \in [turn : Turn \cup {None}, failed : BOOLEAN]
        /\ down \in DownRec
        /\ closeAt \in {"no", "calls", "sessions", "closed", "failed"}
        /\ faults \in 0 .. MaxFaults
      BY <2>1 DEF Init, NoJob, NoDown, DownRec
  <2>7. /\ Len(settled) <= CacheSize /\ \A i \in DOMAIN settled : settled[i] \in Turn
        /\ settled \in Seq(Turn)
    <3>1. settled = <<>> /\ DOMAIN settled = {}
        BY EmptySeq, LenProperties DEF Init
    <3>. QED  BY <2>1, <3>1, EmptySeq
  <2>. QED
      BY <2>2, <2>3, <2>4, <2>5, <2>6, <2>7 DEF Types, TypeOK, TurnRec, SessRec, AskRec
<1>2. Sessions /\ Openings
    BY DEF Init, Sessions, Openings, NoSession, Session
<1>3. Teardowns
    BY DEF Init, Teardowns, NoDown
<1>4. Jobs
    BY TurnsAssumption DEF Init, Jobs, NoJob, NoTurn
<1>5. Asks
    BY TurnsAssumption DEF Init, Asks, Fine, NoAsk
<1>6. Events
    BY EmptySeq, LenProperties DEF Init, Events, Waits
<1>7. Running
    BY DEF Init, Running
<1>. QED  BY <1>1, <1>2, <1>3, <1>4, <1>5, <1>6, <1>7 DEF Inv

\* Every step keeps it.
LEMMA NextInv == Inv /\ [Next]_vars => Inv'
<1>. SUFFICES ASSUME Inv, [Next]_vars PROVE Inv'
    OBVIOUS
<1>1. ASSUME Accept PROVE Inv'
    BY <1>1, BeginStartKeeps, StartTurnKeeps, OpenThreadKeeps, OpenedKeeps DEF Accept
<1>2. ASSUME Produce PROVE Inv'
  <2>1. TRUE \in BOOLEAN /\ FALSE \in BOOLEAN
      OBVIOUS
  <2>. QED  BY <1>2, <2>1, ExpireKeeps, EndRunKeeps, AskKeeps DEF Produce
<1>3. ASSUME Drive PROVE Inv'
    BY <1>3, EndTurnKeeps, ProjectAskKeeps, ProjectEndKeeps DEF Drive
<1>4. ASSUME Interrupt PROVE Inv'
    BY <1>4, CancelTurnKeeps, ProjectOtherKeeps, FailKeeps, RespondKeeps DEF Interrupt
<1>5. ASSUME Release PROVE Inv'
    BY <1>5, CleanSessionKeeps, BarrierKeeps, BeginTeardownKeeps, TeardownSessionKeeps,
       EndTeardownKeeps, CloseServiceKeeps, CloseSessionsKeeps, EndCloseKeeps DEF Release
<1>. QED  BY <1>1, <1>2, <1>3, <1>4, <1>5, StutterKeeps DEF Next

\* The invariant holds in every reachable state.
LEMMA Invariance == Spec => []Inv
BY InitInv, NextInv, PTL DEF Spec

-----------------------------------------------------------------------------
(* The results.                                                            *)

\* The parts of the invariant that the runs check under their own names.
LEMMA InvBrackets == Inv => TurnBrackets
<1>. SUFFICES ASSUME Inv PROVE TurnBrackets
    OBVIOUS
<1>1. OneOpenTurn
    BY DEF Inv, Jobs, OneOpenTurn
<1>2. ApprovalsSettled
  <2>1. ASSUME NEW a \in Approval, ask[a].told = "required"
        PROVE  ask[a].pending /\ turn[ask[a].turn].told = "started"
    <3>1. ask[a].pending
        BY <2>1 DEF Inv, Asks, Fine
    <3>2. job.turn \in Turn /\ ask[a].turn = job.turn
        BY <3>1 DEF Inv, Types, TypeOK, Asks
    <3>. QED  BY <3>1, <3>2 DEF Inv, Jobs
  <2>. QED  BY <2>1 DEF ApprovalsSettled
<1>3. AbortedIsTold
  <2>1. ASSUME NEW t \in Turn, active = t, Ended(t), sess[turn[t].sess].aborted
        PROVE  turn[t].terminal # None
    <3>1. CASE turn[t].thrown
        BY <3>1 DEF Inv, Jobs
    <3>2. CASE ~ turn[t].thrown
      <4>1. active # None /\ Run(t) /\ queue[t].closed /\ queue[t].events = <<>>
          BY <2>1, <3>2, TurnsAssumption DEF Inv, Running, Ended
      <4>2. DOMAIN queue[t].events = {}
          BY <4>1, EmptySeq, LenProperties
      <4>. QED  BY <2>1, <4>1, <4>2 DEF Run
    <3>. QED  BY <3>1, <3>2
  <2>. QED  BY <2>1 DEF AbortedIsTold
<1>. QED  BY <1>1, <1>2, <1>3 DEF TurnBrackets, Inv, Types

\* driveTurn, abandonTurn and settlePending: one turn at a time is told to have
\* started, its approvals are resolved before it ends, and a turn that was
\* aborted is not told to be completed.
THEOREM Brackets == Spec => []TurnBrackets
BY Invariance, InvBrackets, PTL

\* resolvePendingApproval, cancelTurn and the timers: clients are told of an
\* approval what the call of the tool was told.
THEOREM Agreed == Spec => []DecisionAgreed
<1>1. Inv => DecisionAgreed
    BY DEF Inv, Asks, Fine, DecisionAgreed
<1>. QED  BY <1>1, Invariance, PTL

\* The claim of the thread is given back, and the thread deleted, with nothing of
\* a turn left to run or to be told.
THEOREM Released == Spec => []ReleasedQuiet
<1>1. Inv => ReleasedQuiet
  <2>. SUFFICES ASSUME Inv PROVE ReleasedQuiet
      OBVIOUS
  <2>1. ~ Retained => current = 0
      BY DEF Inv, Sessions, Retained
  <2>. QED  BY <2>1, NothingLeft DEF Inv, Teardowns, ReleasedQuiet
<1>. QED  BY <1>1, Invariance, PTL

-----------------------------------------------------------------------------
(* What the service remembers of turns that have ended.                    *)

\* No turn is recorded twice, and while the service is open every turn that was
\* told to have ended is recorded.
Unique(w) == \A i, j \in DOMAIN w : w[i] = w[j] => i = j
Memory ==
    /\ Unique(settled)
    /\ Open => \A t \in Turn : turn[t].told = "ended" => Recorded(t)

\* There are no more entries than turns.
LEMMA UniqueIsShort ==
    ASSUME IsFiniteSet(Turn), NEW w \in Seq(Turn), Unique(w)
    PROVE  Len(w) <= Cardinality(Turn)
<1>. DEFINE n == Len(w)
<1>1. n \in Nat /\ w \in [1 .. n -> Turn] /\ DOMAIN w = 1 .. n
    BY LenProperties
<1>2. w \in Injection(1 .. n, Turn)
    BY <1>1 DEF Injection, IsInjective, Unique
<1>3. Cardinality(1 .. n) <= Cardinality(Turn)
    BY <1>2, FS_Injection
<1>4. Cardinality(1 .. n) = n
    BY <1>1, FS_Interval, SMT
<1>. QED  BY <1>3, <1>4

\* A turn that becomes the latest is recorded once, and all others still are.
LEMMA LatestUnique ==
    ASSUME settled \in Seq(Turn), Unique(settled), NEW t \in Turn
    PROVE  /\ Latest(t) \in Seq(Turn) /\ Unique(Latest(t))
           /\ \E i \in DOMAIN Latest(t) : Latest(t)[i] = t
           /\ \A u : Recorded(u) => \E i \in DOMAIN Latest(t) : Latest(t)[i] = u
<1>. DEFINE v == Without(t)
            q == Latest(t)
            n == Len(settled)
            m == Len(v)
<1>1. n \in Nat /\ DOMAIN settled = 1 .. n
    BY LenProperties
<1>2. v \in Seq(Turn) /\ m \in Nat /\ DOMAIN v = 1 .. m
    BY WithoutIs, LenProperties
<1>3. /\ \A i, j \in 1 .. m : v[i] = v[j] => i = j
      /\ \A i \in 1 .. m : v[i] # t
      /\ \A u : Recorded(u) /\ u # t => \E i \in 1 .. m : v[i] = u
  <2>1. CASE ~ Recorded(t)
    <3>1. v = settled
        BY <2>1, WithoutIs
    <3>. QED  BY <1>1, <2>1, <3>1 DEF Recorded, Unique
  <2>2. CASE Recorded(t)
    <3>1. PICK k \in DOMAIN settled : settled[k] = t /\ \A i \in 1 .. n - 1 :
                     v[i] = settled[IF i < k THEN i ELSE i + 1]
        BY <2>2, WithoutIs
    <3>2. m = n - 1
        BY <2>2, WithoutIs
    <3>. HIDE DEF v, n, m
    <3>3. \A i \in 1 .. m : (IF i < k THEN i ELSE i + 1) \in 1 .. n
                            /\ (IF i < k THEN i ELSE i + 1) # k
        BY <1>1, <3>1, <3>2, SMT
    <3>4. \A i, j \in 1 .. m :
              (IF i < k THEN i ELSE i + 1) = (IF j < k THEN j ELSE j + 1) => i = j
        BY <1>1, <1>2, <3>1, <3>2, SMT
    <3>5. \A i, j \in 1 .. m : v[i] = v[j] => i = j
      <4>. SUFFICES ASSUME NEW i \in 1 .. m, NEW j \in 1 .. m, v[i] = v[j] PROVE i = j
          OBVIOUS
      <4>1. settled[IF i < k THEN i ELSE i + 1] = settled[IF j < k THEN j ELSE j + 1]
          BY <3>1, <3>2
      <4>2. (IF i < k THEN i ELSE i + 1) = (IF j < k THEN j ELSE j + 1)
          BY <1>1, <3>3, <4>1 DEF Unique
      <4>. QED  BY <3>4, <4>2
    <3>6. ASSUME NEW i \in 1 .. m PROVE v[i] # t
      <4>1. v[i] = settled[IF i < k THEN i ELSE i + 1]
          BY <3>1, <3>2
      <4>. QED  BY <1>1, <3>1, <3>3, <4>1 DEF Unique
    <3>7. ASSUME NEW u, Recorded(u), u # t PROVE \E i \in 1 .. m : v[i] = u
      <4>1. PICK j \in 1 .. n : settled[j] = u
          BY <1>1, <3>7 DEF Recorded
      <4>2. j # k
          BY <3>1, <3>7, <4>1
      <4>. DEFINE i == IF j < k THEN j ELSE j - 1
      <4>3. i \in 1 .. m /\ (IF i < k THEN i ELSE i + 1) = j
          BY <1>1, <3>1, <3>2, <4>1, <4>2, SMT
      <4>. QED  BY <3>1, <3>2, <4>1, <4>3
    <3>. QED  BY <3>5, <3>6, <3>7
  <2>. QED  BY <2>1, <2>2
<1>4. /\ q \in Seq(Turn) /\ Len(q) = m + 1
      /\ \A i \in 1 .. m : q[i] = v[i]
      /\ q[m + 1] = t
    BY LatestIs
<1>5. DOMAIN q = 1 .. m + 1
    BY <1>4, LenProperties
<1>. HIDE DEF v, q, m
<1>6. /\ \A i \in 1 .. m + 1 : i \in 1 .. m \/ i = m + 1
      /\ \A i \in 1 .. m : i \in 1 .. m + 1
      /\ m + 1 \in 1 .. m + 1
    BY <1>2, SMT
<1>7. Unique(q)
    BY <1>3, <1>4, <1>5, <1>6 DEF Unique
<1>8. \E i \in DOMAIN q : q[i] = t
    BY <1>4, <1>5, <1>6
<1>9. \A u : Recorded(u) => \E i \in DOMAIN q : q[i] = u
    BY <1>3, <1>4, <1>5, <1>6, <1>8
<1>. QED  BY <1>4, <1>7, <1>8, <1>9 DEF q

\* What is recorded stays so, whoever is found or settles, when the cache holds
\* as many owners as there are turns.
LEMMA OwnersKept ==
    ASSUME IsFiniteSet(Turn), Cardinality(Turn) <= CacheSize, Inv, Unique(settled),
           NEW t \in Turn, settled' = Found(t) \/ (Open /\ settled' = Settle(t))
    PROVE  /\ Unique(settled)'
           /\ \A u : Recorded(u) => Recorded(u)'
           /\ (Open /\ settled' = Settle(t)) => Recorded(t)'
<1>1. settled \in Seq(Turn)
    BY DEF Inv, Types
<1>2. /\ Latest(t) \in Seq(Turn) /\ Unique(Latest(t))
      /\ \E i \in DOMAIN Latest(t) : Latest(t)[i] = t
      /\ \A u : Recorded(u) => \E i \in DOMAIN Latest(t) : Latest(t)[i] = u
    BY <1>1, LatestUnique
<1>3. CASE Open /\ settled' = Settle(t)
  <2>. DEFINE q == Latest(t)
  <2>1. Len(q) <= Cardinality(Turn) /\ Len(q) \in Nat /\ Cardinality(Turn) \in Nat
      BY <1>2, UniqueIsShort, LenProperties, FS_CardinalityType
  <2>. HIDE DEF q
  <2>2. ~ (Len(q) > CacheSize)
    <3>. DEFINE k == Cardinality(Turn)
    <3>1. Len(q) <= k /\ k <= CacheSize /\ Len(q) \in Nat /\ k \in Nat /\ CacheSize \in Nat
        BY <2>1, TurnsAssumption
    <3>. HIDE DEF k
    <3>. QED  BY <3>1, SMT
  <2>3. settled' = SubSeq(q, 1, Len(q))
      BY <1>3, <2>2 DEF Settle, q
  <2>4. settled' = q
      BY <1>2, <2>3, SubSeqFull DEF q
  <2>. QED  BY <1>2, <2>4 DEF Recorded, q, Unique
<1>4. CASE settled' = Found(t)
  <2>1. settled' = settled \/ settled' = Latest(t)
      BY <1>4 DEF Found
  <2>2. /\ Unique(settled)'
        /\ \A u : Recorded(u) => Recorded(u)'
      BY <1>2, <2>1 DEF Recorded, Unique
  <2>. QED  BY <1>3, <2>2
<1>. QED  BY <1>3, <1>4

\* A step that ends no turn, and forgets none.
Silent ==
    /\ UNCHANGED settled /\ (Open' => Open)
    /\ \A t \in Turn : turn'[t].told = turn[t].told

\* The steps that do more: a request is looked up, a turn is accepted or ends,
\* the service is closed.
LEMMA Silence ==
    ASSUME Inv, [Next]_vars
    PROVE  \/ Silent
           \/ \E c \in Call : BeginStart(c) \/ StartTurn(c)
           \/ \E t \in Turn : EndTurn(t)
           \/ EndClose
<1>1. turn \in [Turn -> TurnRec]
    BY NothingChanged
<1>2. ASSUME UNCHANGED <<settled, turn>>, UNCHANGED closeAt PROVE Silent
    BY <1>2 DEF Silent, Open
<1>3. ASSUME NEW t \in Turn, NEW e \in {"cancelled", "error"}, ProjectEnd(t, e) PROVE Silent
  <2>1. \A u \in Turn : turn'[u].told = turn[u].told
      BY <1>1, <1>3 DEF ProjectEnd, TurnRec
  <2>. QED  BY <1>3, <2>1 DEF ProjectEnd, Silent, Open
<1>4. ASSUME NEW t \in Turn, ProjectOther(t) \/ \E a \in Approval : ProjectAsk(t, a) PROVE Silent
  <2>1. UNCHANGED <<settled, closeAt>>
      BY <1>4 DEF ProjectAsk, ProjectOther
  <2>2. UNCHANGED turn \/ \E d : turn' = [turn EXCEPT ![t] = Thrown(turn[t], d)]
    <3>1. \/ UNCHANGED turn
          \/ turn' = [turn EXCEPT ![t].thrown = TRUE,
                                  ![t].terminal = IF @ = None THEN "failed" ELSE @]
        BY <1>4 DEF ProjectAsk, ProjectOther, Abandon
    <3>. DEFINE d == IF turn[t].terminal = None THEN "failed" ELSE turn[t].terminal
    <3>2. CASE turn' = [turn EXCEPT ![t].thrown = TRUE,
                                    ![t].terminal = IF @ = None THEN "failed" ELSE @]
      <4>1. turn' = [turn EXCEPT ![t].thrown = TRUE, ![t].terminal = d]
          BY <1>1, <3>2 DEF TurnRec
      <4>. HIDE DEF d
      <4>2. turn' = [turn EXCEPT ![t] = Thrown(turn[t], d)]
          BY <1>1, <4>1 DEF Thrown
      <4>. QED  BY <4>2
    <3>. QED  BY <3>1, <3>2
  <2>3. \A d : Thrown(turn[t], d).told = turn[t].told
      BY <1>1 DEF Thrown, TurnRec
  <2>4. \A u \in Turn : turn'[u].told = turn[u].told
      BY <1>1, <2>2, <2>3
  <2>. QED  BY <2>1, <2>4 DEF Silent, Open
<1>5. ASSUME NEW a \in Approval, FailInteraction(a) PROVE Silent
  <2>1. \A u \in Turn : turn'[u].told = turn[u].told
      BY <1>1, <1>5 DEF FailInteraction, TurnRec
  <2>. QED  BY <1>5, <2>1 DEF FailInteraction, Silent, Open
<1>6. ASSUME CloseService \/ CloseSessions PROVE Silent
    BY <1>6 DEF CloseService, CloseSessions, Silent, Open
<1>7. ASSUME Accept
      PROVE  Silent \/ \E c \in Call : BeginStart(c) \/ StartTurn(c)
    BY <1>2, <1>7 DEF Accept, OpenThread, Opened
<1>8. ASSUME Produce PROVE Silent
    BY <1>2, <1>8 DEF Produce, ExpireTurn, EndRun, Ask
<1>9. ASSUME Drive PROVE Silent \/ \E t \in Turn : EndTurn(t)
    BY <1>3, <1>4, <1>9 DEF Drive
<1>10. ASSUME Interrupt PROVE Silent
    BY <1>2, <1>4, <1>5, <1>10 DEF Interrupt, CancelTurn, Respond
<1>11. ASSUME Release PROVE Silent \/ EndClose
    BY <1>2, <1>6, <1>11 DEF Release, CleanSession, Barrier, BeginTeardown, TeardownSession, EndTeardown
<1>12. ASSUME UNCHANGED vars PROVE Silent
    BY <1>2, <1>12 DEF vars
<1>. QED  BY <1>7, <1>8, <1>9, <1>10, <1>11, <1>12 DEF Next

\* A turn that is accepted is not remembered, and one that ends is.
LEMMA MemoryKept ==
    ASSUME IsFiniteSet(Turn), Cardinality(Turn) <= CacheSize, Inv, Memory, [Next]_vars
    PROVE  /\ Memory'
           /\ \A t \in Turn : turn[t].told = "ended" => turn'[t].told = "ended"
<1>1. turn \in [Turn -> TurnRec] /\ Unique(settled)
    BY NothingChanged DEF Memory
<1>2. CASE Silent
    BY <1>2 DEF Silent, Memory, Recorded, Open, Unique
<1>3. ASSUME NEW c \in Call, BeginStart(c)
      PROVE  /\ Memory'
             /\ \A t \in Turn : turn[t].told = "ended" => turn'[t].told = "ended"
  <2>1. TurnOf[c] \in Turn /\ settled' = Found(TurnOf[c]) /\ UNCHANGED <<turn, closeAt>>
      BY <1>3, TurnsAssumption DEF BeginStart
  <2>2. Unique(settled)' /\ \A u : Recorded(u) => Recorded(u)'
      BY <1>1, <2>1, OwnersKept
  <2>. QED  BY <2>1, <2>2 DEF Memory, Open
<1>4. ASSUME NEW c \in Call, StartTurn(c)
      PROVE  /\ Memory'
             /\ \A t \in Turn : turn[t].told = "ended" => turn'[t].told = "ended"
  <2>. DEFINE t == TurnOf[c]
  <2>1. t \in Turn /\ settled' = Found(t) /\ UNCHANGED closeAt
      BY <1>4, TurnsAssumption DEF StartTurn
  <2>. HIDE DEF t
  <2>2. Unique(settled)' /\ \A u : Recorded(u) => Recorded(u)'
      BY <1>1, <2>1, OwnersKept
  <2>3. \/ UNCHANGED turn
        \/ StillFree(t) /\ \E r : turn' = [turn EXCEPT ![t] = [r EXCEPT !.told = "started"]]
                                 /\ turn'[t].told = "started"
    <3>1. CASE UNCHANGED turn
        BY <3>1
    <3>2. CASE /\ StillFree(t)
               /\ turn' = [turn EXCEPT ![t] =
                    Accepted(current, ownership, sess[current].at = "live" /\ sess[current].turn = None)]
      <4>. DEFINE runs == sess[current].at = "live" /\ sess[current].turn = None
                  r == Accepted(current, ownership, runs)
      <4>1. r.told = "started" /\ r = [r EXCEPT !.told = "started"]
          BY DEF Accepted, NoTurn
      <4>2. turn' = [turn EXCEPT ![t] = r]
          BY <3>2
      <4>. HIDE DEF r
      <4>. QED  BY <1>1, <2>1, <3>2, <4>1, <4>2
    <3>. QED  BY <1>4, <3>1, <3>2 DEF StartTurn, Accepted, t
  <2>4. ASSUME StillFree(t) PROVE turn[t].told # "ended"
    <3>1. Open /\ ~ Recorded(t)
        BY <2>4 DEF StillFree, Known, ThreadOpen, Recorded
    <3>. QED  BY <2>1, <3>1 DEF Memory
  <2>5. \A u \in Turn : (turn'[u].told = "ended" <=> turn[u].told = "ended")
      BY <1>1, <2>1, <2>3, <2>4
  <2>. QED  BY <2>1, <2>2, <2>5 DEF Memory, Open
<1>5. ASSUME NEW t \in Turn, EndTurn(t)
      PROVE  /\ Memory'
             /\ \A u \in Turn : turn[u].told = "ended" => turn'[u].told = "ended"
  <2>1. settled' = Settle(t) /\ UNCHANGED closeAt
      BY <1>5 DEF EndTurn
  <2>2. \/ UNCHANGED turn
        \/ turn' = [turn EXCEPT ![t] = [NoTurn EXCEPT !.told = "ended"]]
      BY <1>5 DEF EndTurn
  <2>3. \A u \in Turn : /\ turn[u].told = "ended" => turn'[u].told = "ended"
                        /\ u # t /\ turn'[u].told = "ended" => turn[u].told = "ended"
      BY <1>1, <2>2 DEF NoTurn
  <2>4. CASE Open
    <3>1. Unique(settled)' /\ (\A u : Recorded(u) => Recorded(u)') /\ Recorded(t)'
        BY <1>1, <2>1, <2>4, OwnersKept
    <3>2. \A u \in Turn : turn'[u].told = "ended" => Recorded(u)'
        BY <2>3, <2>4, <3>1 DEF Memory
    <3>. QED  BY <2>3, <3>1, <3>2 DEF Memory
  <2>5. CASE ~ Open
      BY <2>1, <2>3, <2>5 DEF Memory, Open, Settle, Unique
  <2>. QED  BY <2>4, <2>5
<1>6. ASSUME EndClose
      PROVE  /\ Memory'
             /\ \A t \in Turn : turn[t].told = "ended" => turn'[t].told = "ended"
  <2>1. UNCHANGED turn /\ ~ Open' /\ (settled' = settled \/ settled' = <<>>)
      BY <1>6 DEF EndClose, Open
  <2>2. Unique(<<>>)
      BY DEF Unique
  <2>. QED  BY <2>1, <2>2 DEF Memory, Unique
<1>. QED  BY <1>2, <1>3, <1>4, <1>5, <1>6, Silence

\* findTurnOwner and settleTurnOwner: while no more turns are named than the cache
\* has entries, a turn that has ended does not run again, however often its
\* request is repeated and whatever the thread goes through.
THEOREM Once ==
    ASSUME IsFiniteSet(Turn), Cardinality(Turn) <= CacheSize
    PROVE  Spec => TurnOnce
<1>1. Init => Memory
  <2>. SUFFICES ASSUME Init PROVE Memory
      OBVIOUS
  <2>1. settled = <<>> /\ \A t \in Turn : turn[t].told # "ended"
      BY DEF Init, NoTurn
  <2>. QED  BY <2>1 DEF Memory, Unique
<1>2. Inv /\ Memory /\ [Next]_vars => Memory'
    BY MemoryKept
<1>3. Inv /\ Memory /\ [Next]_vars =>
          [\A t \in Turn : turn[t].told = "ended" => turn'[t].told = "ended"]_vars
    BY MemoryKept
<1>. QED  BY <1>1, <1>2, <1>3, Invariance, PTL DEF Spec, TurnOnce
=============================================================================
