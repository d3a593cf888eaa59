---------------------------- MODULE ClientRequests ----------------------------
(***************************************************************************)
(* The requests the Runtime sends to its client (an approval, a form to    *)
(* fill in): RuntimeClientRequestCoordinator and the interaction lifecycle *)
(* it is built on, as the protocol adapter drives them.                    *)
(*                                                                         *)
(* Every method of the coordinator is synchronous, so one call is one      *)
(* action.  What interleaves are the calls: answers of the client, timers, *)
(* detachment of a connection, a change of the capabilities, and the       *)
(* commit of that change, which runs only after the response to            *)
(* client.capabilities.set was written.                                    *)
(*                                                                         *)
(* A send throws on an attachment that is broken, and may throw for one    *)
(* message on any other (its frame cannot be built).  A key may be used    *)
(* again once its interaction is settled; nth[k] counts its uses and       *)
(* stands for the identity of the interaction object.                      *)
(***************************************************************************)
EXTENDS Integers, FiniteSets

CONSTANTS Request,      \* keys of logical interactions
          Responder,    \* ids of client responders
          Attachment,   \* attachment objects, one per attachResponder call
          Method,       \* server request methods
          Scope,        \* runtime instance ids
          Timed,        \* the requests that carry an expiresAt
          None,         \* the absence of an attachment or a responder
          MaxUses,      \* bound: interactions created under one key
          MaxDeliveries,\* bound: deliveries begun
          MaxEpoch      \* bound: capability sets of one attachment

ASSUME RequestsAssumption ==
    /\ IsFiniteSet(Request) /\ Timed \subseteq Request
    /\ None \notin Attachment \cup Responder
    /\ MaxUses \in Nat /\ MaxDeliveries \in Nat /\ MaxEpoch \in Nat

VARIABLES
    responders,  \* the map responder id -> attachment
    att,         \* the attachment objects
    req,         \* the interaction of each key
    nth,         \* how many interactions each key has had
    sent,        \* every delivery begun: id |-> [req, nth, att]
    deliveries,  \* the map of deliveries that may be answered, by id
    timers,      \* armed expiry timers, <<key, nth>>
    overdue,     \* deadlines that have passed, <<key, nth>>
    commits,     \* responses to capability sets not yet written
    told,        \* ghost: epochs the client of an attachment was told of
    prompts      \* client side: deliveries shown and neither answered nor withdrawn

vars == <<responders, att, req, nth, sent, deliveries, timers, overdue,
          commits, told, prompts>>

Settled  == {"response", "cancelled", "expired", "failed"}
Pending  == {"waiting", "delivered"}
Delivery == 1..MaxDeliveries

NoRequest == [state |-> "absent", owner |-> None, scope |-> None,
              method |-> None, dl |-> 0]

TypeOK ==
    /\ responders \in [Responder -> Attachment \cup {None}]
    /\ att \in [Attachment -> [owner : Responder \cup {None},
                               scope : Scope \cup {None},
                               methods : SUBSET Method, acked : BOOLEAN,
                               epoch : 0..MaxEpoch, broken : BOOLEAN]]
    /\ req \in [Request -> [state : {"absent"} \cup Pending \cup Settled,
                            owner : Responder \cup {None},
                            scope : Scope \cup {None},
                            method : Method \cup {None},
                            dl : 0..MaxDeliveries]]
    /\ \A k \in Request : req[k].state = "waiting" => req[k].dl = 0
    /\ nth \in [Request -> 0..MaxUses]
    /\ DOMAIN sent \subseteq Delivery
    /\ \A d \in DOMAIN sent :
          sent[d] \in [req : Request, nth : 1..MaxUses, att : Attachment]
    /\ deliveries \subseteq DOMAIN sent
    /\ timers \subseteq Request \X (1..MaxUses)
    /\ overdue \subseteq Request \X (1..MaxUses)
    /\ commits \subseteq Attachment \X (1..MaxEpoch)
    /\ told \in [Attachment -> SUBSET (0..MaxEpoch)]
    /\ prompts \in [Attachment -> SUBSET Delivery]

Init ==
    /\ responders = [r \in Responder |-> None]
    /\ att = [a \in Attachment |->
                 [owner |-> None, scope |-> None, methods |-> {}, acked |-> FALSE,
                  epoch |-> 0, broken |-> FALSE]]
    /\ req = [k \in Request |-> NoRequest]
    /\ nth = [k \in Request |-> 0]
    /\ sent = <<>>
    /\ deliveries = {}
    /\ timers = {}
    /\ overdue = {}
    /\ commits = {}
    /\ told = [a \in Attachment |-> {}]
    /\ prompts = [a \in Attachment |-> {}]

-----------------------------------------------------------------------------
(* The interaction lifecycle.                                              *)

\* The map holds an interaction from register until settle.
pending == {k \in Request : req[k].state \in Pending}

Bound(a) == att[a].owner # None /\ responders[att[a].owner] = a

IsExpired(k) == <<k, nth[k]>> \in overdue

\* (bug) the timer outlives its interaction
Settle_keepsTimer(K, out) ==
    /\ req' = [k \in Request |->
                  IF k \in K THEN [req[k] EXCEPT !.state = out] ELSE req[k]]
    /\ deliveries' = deliveries \ {req[k].dl : k \in K}
    /\ UNCHANGED timers

\* settle for each of the interactions K, with the outcome out[k]: the entry
\* leaves both maps and the timer is cleared.
Settle(K, out) ==
    /\ req' = [k \in Request |->
                  IF k \in K THEN [req[k] EXCEPT !.state = out] ELSE req[k]]
    /\ deliveries' = deliveries \ {req[k].dl : k \in K}
    /\ timers' = {t \in timers : t[1] \notin K}

\* What is left of the prompts once the deliveries D were withdrawn from the
\* clients that show them; a broken transport swallows the notice.
Withdrawn(D) == [a \in Attachment |->
                    IF att[a].broken THEN prompts[a] ELSE prompts[a] \ D]

DeliveriesOf(K) == {req[k].dl : k \in {j \in K : req[j].state = "delivered"}}

\* (bug) the client is not told
SettleAndWithdraw_silent(K, out) ==
    /\ Settle(K, out)
    /\ UNCHANGED prompts

\* settle and sendCancellation: how cancel, expire, a detached responder and a
\* revoked method end an interaction.
SettleAndWithdraw(K, out) ==
    /\ Settle(K, out)
    /\ prompts' = Withdrawn(DeliveriesOf(K))

\* rejectInteraction: the interaction fails and no notice is sent.
Reject(K) == Settle(K, "failed") /\ UNCHANGED prompts

\* The fate of a new interaction handed to deliver, in the order of its checks;
\* whether its deadline is past was asked just before.  The send may throw.
Fate(owner, scope, method, throws) ==
    LET a == responders[owner]
    IN  IF a = None THEN "failed"
        ELSE IF att[a].scope # scope THEN "failed"
        ELSE IF ~att[a].acked THEN "waiting"
        ELSE IF method \in att[a].methods /\ ~att[a].broken /\ ~throws
             THEN "delivered"
        ELSE "failed"

-----------------------------------------------------------------------------
(* Calls of the adapter and of the server.                                 *)

\* attachResponder, and beginCapabilityNegotiation where the protocol version
\* negotiates: then nothing is accepted before the first capability set.
AttachResponder(r, a, s, negotiates) ==
    /\ responders[r] = None
    /\ att[a].owner = None
    /\ responders' = [responders EXCEPT ![r] = a]
    /\ att' = [att EXCEPT ![a].owner = r,
                          ![a].scope = s,
                          ![a].methods = IF negotiates THEN {} ELSE Method,
                          ![a].acked = ~negotiates]
    /\ told' = [told EXCEPT ![a] = IF negotiates THEN {} ELSE {0}]
    /\ UNCHANGED <<req, nth, sent, deliveries, timers, overdue, commits, prompts>>

\* (bug) what is undelivered is left for the next connection
DetachResponder_deliveredOnly(a) ==
    /\ Bound(a)
    /\ responders' = [responders EXCEPT ![att[a].owner] = None]
    /\ SettleAndWithdraw({k \in pending : /\ req[k].owner = att[a].owner
                                         /\ req[k].state = "delivered"}, "cancelled")
    /\ UNCHANGED <<att, nth, sent, overdue, commits, told>>

\* (bug) what was delivered waits for the next connection, its id not cleared
DetachResponder_requeues(a) ==
    /\ Bound(a)
    /\ responders' = [responders EXCEPT ![att[a].owner] = None]
    /\ req' = [k \in Request |->
                  IF k \in pending /\ req[k].owner = att[a].owner
                  THEN [req[k] EXCEPT !.state = "waiting"] ELSE req[k]]
    /\ UNCHANGED <<att, nth, sent, overdue, commits, told, deliveries, timers, prompts>>

\* The closure attachResponder returned: everything the responder id is
\* eligible for is cancelled.
DetachResponder(a) ==
    /\ Bound(a)
    /\ responders' = [responders EXCEPT ![att[a].owner] = None]
    /\ SettleAndWithdraw({k \in pending : req[k].owner = att[a].owner}, "cancelled")
    /\ UNCHANGED <<att, nth, sent, overdue, commits, told>>

\* (bug) an interaction that waits for the acknowledgement gets no timer
Armed_deliveredOnly(k, fate) == k \in Timed /\ fate = "delivered"

\* scheduleExpiration: whatever is still pending after it has its timer.
Armed(k, fate) == k \in Timed /\ fate \in Pending

\* request: register, scheduleExpiration (a deadline already in the past
\* expires at once), deliver.  The deadline is in the past when late.
MakeRequest(k, r, s, m, late, throws) ==
    /\ k \notin pending
    /\ nth[k] < MaxUses
    /\ Cardinality(DOMAIN sent) < MaxDeliveries
    /\ late => k \in Timed
    /\ LET id    == <<k, nth[k] + 1>>
           d     == Cardinality(DOMAIN sent) + 1
           fate  == IF late THEN "expired" ELSE Fate(r, s, m, throws)
           begun == responders[r] # None /\ fate = "delivered"
       IN  /\ nth' = [nth EXCEPT ![k] = @ + 1]
           /\ req' = [req EXCEPT ![k] =
                         [state |-> fate, owner |-> r, scope |-> s, method |-> m,
                          dl |-> IF begun THEN d ELSE 0]]
           /\ timers' = IF Armed(k, fate) THEN timers \cup {id} ELSE timers
           /\ overdue' = IF late THEN overdue \cup {id} ELSE overdue
           /\ IF begun
              THEN /\ sent' = [e \in DOMAIN sent \cup {d} |->
                                  IF e = d THEN [req |-> k, nth |-> nth[k] + 1,
                                                 att |-> responders[r]]
                                  ELSE sent[e]]
                   /\ deliveries' = deliveries \cup {d}
                   /\ prompts' = [prompts EXCEPT ![responders[r]] = @ \cup {d}]
              ELSE UNCHANGED <<sent, deliveries, prompts>>
    /\ UNCHANGED <<responders, att, commits, told>>

\* cancel: by the resolution of the approval or of the form elsewhere.
Cancel(k) ==
    /\ k \in pending
    /\ SettleAndWithdraw({k}, "cancelled")
    /\ UNCHANGED <<responders, att, nth, sent, overdue, commits, told>>

\* cancelAll: the server is closing.
CancelAll ==
    /\ pending # {}
    /\ SettleAndWithdraw(pending, "cancelled")
    /\ UNCHANGED <<responders, att, nth, sent, overdue, commits, told>>

\* setServerRequestMethods: methods no longer accepted take their interactions
\* with them, and deliveries stop until the response was written.
SetServerRequestMethods(a, ms) ==
    /\ Bound(a)
    /\ att[a].epoch < MaxEpoch
    /\ LET removed == att[a].methods \ ms
       IN  SettleAndWithdraw({k \in pending : /\ req[k].owner = att[a].owner
                                              /\ req[k].method \in removed},
                             "cancelled")
    /\ att' = [att EXCEPT ![a].methods = ms, ![a].acked = FALSE, ![a].epoch = @ + 1]
    /\ commits' = commits \cup {<<a, att[a].epoch + 1>>}
    /\ UNCHANGED <<responders, nth, sent, overdue, told>>

-----------------------------------------------------------------------------
(* The commit of a capability set.                                         *)

\* The interactions that wait for the attachment, and what deliver does to each.
WaitingFor(a) == {k \in pending : req[k].owner = att[a].owner /\ req[k].state = "waiting"}

\* (bug) a send that throws is left for the next commit
CommitFate_waitsOn(k, a, lost) ==
    IF IsExpired(k) THEN "expired"
    ELSE IF k \in lost THEN "waiting"
    ELSE IF req[k].method \in att[a].methods /\ ~att[a].broken
    THEN "delivered" ELSE "failed"

\* deliver, for an interaction that waits: as Fate, the acknowledgement given.
\* The sends of the interactions lost throw.
CommitFate(k, a, lost) ==
    IF IsExpired(k) THEN "expired"
    ELSE IF /\ att[a].scope = req[k].scope
            /\ req[k].method \in att[a].methods
            /\ ~att[a].broken
            /\ k \notin lost
    THEN "delivered" ELSE "failed"

\* (bug) the commit of a set that a later one replaced
Commits_anySet(a, e) == ~att[a].broken /\ Bound(a)

\* The commit has an effect: its response was written, the attachment is still
\* the current one and no later set replaced the methods it belongs to.
Commits(a, e) == ~att[a].broken /\ Bound(a) /\ att[a].epoch = e

\* afterResponse(sent): a response that could not be written leaves the set
\* uncommitted; otherwise the commit runs.  A send that throws on the way fails
\* its own interaction, and the loop goes on to the next.
ResponseWritten(a, e, lost) ==
    /\ <<a, e>> \in commits
    /\ commits' = commits \ {<<a, e>>}
    /\ told' = IF att[a].broken THEN told ELSE [told EXCEPT ![a] = @ \cup {e}]
    /\ IF Commits(a, e)
       THEN LET W   == WaitingFor(a)
                go  == {k \in W : CommitFate(k, a, lost) = "delivered"}
                n   == Cardinality(DOMAIN sent)
                new == (n + 1)..(n + Cardinality(go))
            IN  /\ n + Cardinality(go) <= MaxDeliveries
                /\ \E id \in [go -> new] :
                      /\ \A j, k \in go : id[j] = id[k] => j = k
                      /\ req' = [k \in Request |->
                                   IF k \notin W THEN req[k]
                                   ELSE [req[k] EXCEPT
                                            !.state = CommitFate(k, a, lost),
                                            !.dl = IF k \in go THEN id[k] ELSE @]]
                      /\ sent' = [d \in DOMAIN sent \cup new |->
                                   IF d \in DOMAIN sent THEN sent[d]
                                   ELSE LET k == CHOOSE j \in go : id[j] = d
                                        IN  [req |-> k, nth |-> nth[k], att |-> a]]
                /\ att' = [att EXCEPT ![a].acked = TRUE]
                /\ deliveries' = deliveries \cup new
                /\ prompts' = [prompts EXCEPT ![a] = @ \cup new]
                /\ timers' = {t \in timers : t[1] \notin W \ go}
       ELSE UNCHANGED <<att, req, sent, deliveries, prompts, timers>>
    /\ UNCHANGED <<responders, nth, overdue>>

\* (bug) the previous delivery stays in the map
Redeliver_keepsPrevious(k, r, throws) ==
    LET a == responders[r]
        d == Cardinality(DOMAIN sent) + 1
    IN  /\ k \in pending /\ a # None /\ ~throws
        /\ req[k].owner = r /\ att[a].acked
        /\ req[k].state = "delivered" /\ d \in Delivery
        /\ sent' = [e \in DOMAIN sent \cup {d} |->
                       IF e = d THEN [req |-> k, nth |-> nth[k], att |-> a] ELSE sent[e]]
        /\ req' = [req EXCEPT ![k].dl = d]
        /\ deliveries' = deliveries \cup {d}
        /\ prompts' = [prompts EXCEPT ![a] = @ \cup {d}]
        /\ UNCHANGED <<responders, att, nth, timers, overdue, commits, told>>

\* redeliver: the same interaction under a new delivery id; the previous
\* delivery is withdrawn first, also when the send of the new one then throws.
Redeliver(k, r, throws) ==
    LET a == responders[r]
        d == Cardinality(DOMAIN sent) + 1
    IN  /\ k \in pending /\ a # None
        /\ req[k].owner = r
        /\ att[a].scope = req[k].scope
        /\ att[a].acked
        /\ req[k].method \in att[a].methods
        /\ ~IsExpired(k)
        /\ req[k].state = "delivered"
        /\ d \in Delivery
        /\ sent' = [e \in DOMAIN sent \cup {d} |->
                       IF e = d THEN [req |-> k, nth |-> nth[k], att |-> a] ELSE sent[e]]
        /\ IF att[a].broken \/ throws
           THEN SettleAndWithdraw({k}, "failed")
           ELSE /\ req' = [req EXCEPT ![k].dl = d]
                /\ deliveries' = (deliveries \ {req[k].dl}) \cup {d}
                /\ prompts' = [Withdrawn({req[k].dl}) EXCEPT ![a] = @ \cup {d}]
                /\ UNCHANGED timers
        /\ UNCHANGED <<responders, att, nth, overdue, commits, told>>

\* redeliver of an interaction that is overdue expires it, whoever asks.
RedeliverOverdue(k) ==
    /\ k \in pending /\ IsExpired(k)
    /\ SettleAndWithdraw({k}, "expired")
    /\ UNCHANGED <<responders, att, nth, sent, overdue, commits, told>>

-----------------------------------------------------------------------------
(* Messages of the client, and time.                                       *)

\* (bug) any connected client may answer a delivery it knows the id of
Correlated_anyone(a, d) == Bound(a) /\ d \in deliveries

\* The delivery an answer is for, found in the map: it was made to this very
\* attachment, which is still its responder's.
Correlated(a, d) ==
    /\ Bound(a) /\ d \in deliveries
    /\ sent[d].att = a
    /\ att[a].scope = req[sent[d].req].scope

\* The client behind an attachment answers a delivery: one it was shown, now
\* or earlier, or the id of another client's.  ok tells a result from an error.
HandleResponse(a, d, ok) ==
    /\ att[a].owner # None /\ ~att[a].broken
    /\ d \in DOMAIN sent
    /\ LET k    == sent[d].req
           seen == [prompts EXCEPT ![a] = @ \ {d}]
       IN  IF ~Correlated(a, d) THEN /\ d \in prompts[a]
                         /\ prompts' = seen
                         /\ UNCHANGED <<req, deliveries, timers>>
           ELSE /\ Settle({k}, IF IsExpired(k) THEN "expired"
                               ELSE IF ok THEN "response" ELSE "failed")
                /\ prompts' = seen
    /\ UNCHANGED <<responders, att, nth, sent, overdue, commits, told>>

\* A message without an id: nothing can be correlated any more, so whatever
\* this attachment was asked fails and the connection is closed.
HandleNullResponse(a) ==
    /\ Bound(a) /\ ~att[a].broken
    /\ responders' = [responders EXCEPT ![att[a].owner] = None]
    /\ Reject({k \in pending : /\ req[k].owner = att[a].owner
                               /\ req[k].scope = att[a].scope
                               /\ req[k].state = "delivered" => sent[req[k].dl].att = a})
    /\ att' = [att EXCEPT ![a].broken = TRUE]
    /\ UNCHANGED <<nth, sent, overdue, commits, told>>

\* The clock passes a deadline.
DeadlinePasses(k) ==
    /\ k \in Timed /\ k \in pending
    /\ ~IsExpired(k)
    /\ overdue' = overdue \cup {<<k, nth[k]>>}
    /\ UNCHANGED <<responders, att, req, nth, sent, deliveries, timers, commits,
                   told, prompts>>

\* The expiry timer: of an interaction that is still in the map and overdue it
\* makes an expired one; it is armed again when the clock says it is early.
TimerFires(t) ==
    /\ t \in timers
    /\ t \in overdue
    /\ IF t[1] \in pending /\ t[2] = nth[t[1]]
       THEN SettleAndWithdraw({t[1]}, "expired")
       ELSE /\ timers' = timers \ {t}
            /\ UNCHANGED <<req, deliveries, prompts>>
    /\ UNCHANGED <<responders, att, nth, sent, overdue, commits, told>>

\* The transport of an attachment fails: from now on its sends throw.
TransportBreaks(a) ==
    /\ att[a].owner # None /\ ~att[a].broken
    /\ att' = [att EXCEPT ![a].broken = TRUE]
    /\ UNCHANGED <<responders, req, nth, sent, deliveries, timers, overdue,
                   commits, told, prompts>>

-----------------------------------------------------------------------------
Next ==
    \/ \E r \in Responder, a \in Attachment, s \in Scope, n \in BOOLEAN :
          AttachResponder(r, a, s, n)
    \/ \E a \in Attachment :
          \/ DetachResponder(a) \/ HandleNullResponse(a) \/ TransportBreaks(a)
          \/ \E ms \in SUBSET Method : SetServerRequestMethods(a, ms)
          \/ \E e \in 1..MaxEpoch, lost \in SUBSET Request : ResponseWritten(a, e, lost)
          \/ \E d \in DOMAIN sent, ok \in BOOLEAN : HandleResponse(a, d, ok)
    \/ \E k \in Request :
          \/ Cancel(k) \/ DeadlinePasses(k) \/ RedeliverOverdue(k)
          \/ \E r \in Responder, throws \in BOOLEAN : Redeliver(k, r, throws)
          \/ \E r \in Responder, s \in Scope, m \in Method,
                late \in BOOLEAN, throws \in BOOLEAN :
                MakeRequest(k, r, s, m, late, throws)
    \/ \E t \in timers : TimerFires(t)
    \/ CancelAll

\* A timer that is due fires, time passes, and a response is written: the three
\* things the event loop and the clock do without anyone asking.
Fairness ==
    /\ \A k \in Request : WF_vars(DeadlinePasses(k))
    /\ \A k \in Request, n \in 1..MaxUses : WF_vars(TimerFires(<<k, n>>))
    /\ \A a \in Attachment, e \in 1..MaxEpoch : 
          WF_vars(\E lost \in SUBSET Request : ResponseWritten(a, e, lost))

Spec == Init /\ [][Next]_vars
FairSpec == Spec /\ Fairness

-----------------------------------------------------------------------------
(* Safety.                                                                 *)

\* An interaction waits only while its responder is attached and has a
\* capability set to acknowledge: no path (a stale commit, a detachment, a new
\* attachment under the same id) leaves a request that nothing will deliver.
NeverStranded ==
    \A k \in Request : req[k].state = "waiting" =>
        LET a == responders[req[k].owner]
        IN  a # None /\ ~att[a].acked /\ att[a].scope = req[k].scope

\* The map of deliveries holds exactly the current delivery of each delivered
\* interaction, each made to the attachment its responder has now, for this
\* use of the key: settle, replaceDelivery and detach leave no stale entry by
\* which an old answer could reach a newer interaction.
DeliveriesExact ==
    /\ deliveries = DeliveriesOf(pending)
    /\ \A k \in Request : req[k].state = "delivered" =>
          sent[req[k].dl] = [req |-> k, nth |-> nth[k], att |-> responders[req[k].owner]]

\* What a client still shows can still be answered: an interaction that ends
\* in any way but by this client's answer is withdrawn from the client.
NoOrphanPrompt ==
    \A a \in Attachment : ~att[a].broken => prompts[a] \subseteq deliveries

\* Deliveries are enabled only under the capability set the client was told
\* of, whatever order sets, responses, detachments and new attachments take.
AckedMeansTold ==
    \A a \in Attachment : att[a].acked => att[a].epoch \in told[a]

\* Exactly the pending interactions with a deadline have a timer: none is lost
\* and none survives its interaction into the next use of the key.
TimersExact == timers = {<<k, nth[k]>> : k \in pending \cap Timed}

\* The maps of the coordinator and of the lifecycle agree with one another, and
\* with what each client was told.
MapsAgree == TypeOK /\ DeliveriesExact /\ TimersExact /\ AckedMeansTold

\* A result counts only from the client that shows this very delivery (and shows
\* it no more), while it still accepts the method and before the deadline.
AnswerAccepted ==
    [][\A k \in Request :
          (req'[k].state = "response" /\ req[k].state # "response") =>
              \E a \in Attachment : /\ Bound(a)
                                   /\ req[k].method \in att[a].methods
                                   /\ req[k].dl \in prompts[a] \ prompts'[a]
                                   /\ sent[req[k].dl].nth = nth[k]
                                   /\ ~IsExpired(k)]_vars

-----------------------------------------------------------------------------
(* Liveness.                                                               *)

\* A request with a deadline never stays open: whatever the client does, its
\* promise is settled, by the timer if by nothing else.
DeadlineSettles ==
    \A k \in Timed : (k \in pending) ~> (k \notin pending)
=============================================================================
