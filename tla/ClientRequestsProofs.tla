------------------------- MODULE ClientRequestsProofs -------------------------
(***************************************************************************)
(* Theorems about ClientRequests, for any keys, responders, attachments    *)
(* and methods: the maps of the coordinator and of the lifecycle agree, no *)
(* request is stranded, no prompt outlives its request, and a result is    *)
(* accepted only from the client that shows the delivery.                  *)
(***************************************************************************)
EXTENDS ClientRequests, FiniteSetTheorems, TLAPS

(* The parts of the invariant.                                             *)

\* Delivery ids are given out one after the other.
Numbered == \E n \in 0..MaxDeliveries : DOMAIN sent = 1..n

\* What a responder id leads to was attached under that id, and an attachment
\* nobody attached yet has had no capability set.
Attached ==
    /\ \A r \in Responder : responders[r] # None => att[responders[r]].owner = r
    /\ \A a \in Attachment : att[a].owner = None => att[a].epoch = 0

\* What the coordinator still owes to an interaction that is in the map: its
\* responder is attached, for the same runtime instance; while it waits, the
\* methods are not acknowledged; once delivered, its delivery is on record and
\* the method is still accepted.
Served(k) ==
    LET a == responders[req[k].owner]
    IN  /\ req[k].owner \in Responder /\ a # None
        /\ att[a].scope = req[k].scope
        /\ nth[k] # 0
        /\ req[k].state = "waiting" => ~att[a].acked
        /\ req[k].state = "delivered" =>
              /\ req[k].method \in att[a].methods
              /\ req[k].dl \in DOMAIN sent
              /\ sent[req[k].dl] = [req |-> k, nth |-> nth[k], att |-> a]

Live == \A k \in pending : Served(k)

\* The map of deliveries, from the interactions.
Mapped == deliveries = DeliveriesOf(pending)

\* A client shows what was delivered to it, and every delivery that may still
\* be answered.
Shown ==
    /\ \A a \in Attachment : \A d \in prompts[a] : d \in DOMAIN sent /\ sent[d].att = a
    /\ \A d \in deliveries : d \in prompts[sent[d].att]

Inv ==
    /\ TypeOK /\ Numbered /\ Attached /\ Live /\ Mapped /\ Shown
    /\ NoOrphanPrompt /\ TimersExact /\ AckedMeansTold

AttRec == [owner : Responder \cup {None}, scope : Scope \cup {None},
           methods : SUBSET Method, acked : BOOLEAN,
           epoch : 0..MaxEpoch, broken : BOOLEAN]

ReqRec == [state : {"absent"} \cup Pending \cup Settled,
           owner : Responder \cup {None}, scope : Scope \cup {None},
           method : Method \cup {None}, dl : 0..MaxDeliveries]

SentRec == [req : Request, nth : 1..MaxUses, att : Attachment]

-----------------------------------------------------------------------------
(* Facts.                                                                  *)

\* The ids 1..n are n ids.
LEMMA Count ==
    ASSUME NEW n \in Nat
    PROVE  Cardinality(1..n) = n
BY FS_Interval, SMT

\* The types, field by field.
LEMMA Fields ==
    ASSUME TypeOK
    PROVE  /\ \A r \in Responder : responders[r] \in Attachment \cup {None}
           /\ \A a \in Attachment : att[a] \in AttRec
           /\ \A k \in Request : req[k] \in ReqRec
           /\ \A d \in DOMAIN sent : sent[d] \in SentRec
           /\ \A k \in Request : nth[k] \in 0..MaxUses
BY DEF TypeOK, AttRec, ReqRec, SentRec

\* An interaction that is in the map, and what it has been promised.
LEMMA PendingFacts ==
    ASSUME Inv, NEW k \in pending
    PROVE  /\ k \in Request /\ req[k].owner \in Responder
           /\ responders[req[k].owner] \in Attachment
           /\ att[responders[req[k].owner]].owner = req[k].owner
           /\ Served(k)
           /\ req[k].state \in Pending
           /\ nth[k] \in 1..MaxUses
           /\ req[k].state = "waiting" => req[k].dl = 0
<1>1. k \in Request /\ req[k].state \in Pending
    BY DEF pending
<1>2. Served(k)
    BY DEF Inv, Live
<1>3. req[k].owner \in Responder /\ responders[req[k].owner] # None /\ nth[k] # 0
    BY <1>2 DEF Served
<1>4. responders[req[k].owner] \in Attachment
    BY <1>3, Fields DEF Inv
<1>5. att[responders[req[k].owner]].owner = req[k].owner
    BY <1>3 DEF Inv, Attached
<1>6. nth[k] \in 1..MaxUses
    BY <1>1, <1>3, Fields, RequestsAssumption, SMT DEF Inv
<1>7. req[k].state = "waiting" => req[k].dl = 0
    BY <1>1 DEF Inv, TypeOK
<1>. QED  BY <1>1, <1>2, <1>3, <1>4, <1>5, <1>6, <1>7

\* Two interactions never have the same delivery.
LEMMA OwnDeliveries ==
    ASSUME Inv, NEW j \in pending, NEW k \in pending,
           req[j].state = "delivered", req[k].dl = req[j].dl
    PROVE  j = k /\ req[k].state = "delivered"
<1>1. Served(j) /\ Served(k) /\ req[j].dl \in DOMAIN sent /\ sent[req[j].dl].req = j
    BY PendingFacts DEF Served
<1>2. req[j].dl # 0
    BY <1>1, RequestsAssumption, SMT DEF Inv, TypeOK, Delivery
<1>3. req[k].state = "delivered"
    BY <1>2, PendingFacts DEF Pending
<1>4. sent[req[k].dl].req = k
    BY <1>1, <1>3 DEF Served
<1>. QED  BY <1>1, <1>3, <1>4

\* Every delivery in the map is the current one of an interaction in the map.
LEMMA Answerable ==
    ASSUME Inv, NEW d \in deliveries
    PROVE  \E k \in pending :
               /\ req[k].state = "delivered" /\ req[k].dl = d
               /\ d \in DOMAIN sent
               /\ sent[d] = [req |-> k, nth |-> nth[k],
                             att |-> responders[req[k].owner]]
<1>1. PICK k \in pending : req[k].state = "delivered" /\ req[k].dl = d
    BY DEF Inv, Mapped, DeliveriesOf
<1>2. Served(k)
    BY PendingFacts
<1>. QED  BY <1>1, <1>2 DEF Served

-----------------------------------------------------------------------------
(* The end of interactions.                                                *)

\* What settle does to the interactions K: they leave both maps with their
\* timers, and the others are not touched.
Settles(K) ==
    /\ req' \in [Request -> ReqRec]
    /\ pending' = pending \ K
    /\ \A k \in Request \ K : req'[k] = req[k]
    /\ \A k \in K : req'[k].state \notin Pending
    /\ deliveries' = deliveries \ DeliveriesOf(K)
    /\ timers' = {t \in timers : t[1] \notin K}

\* A record with another state is of the type, with a settled one.
LEMMA Outcome ==
    ASSUME NEW r \in ReqRec, NEW out \in Settled
    PROVE  /\ [r EXCEPT !.state = out] \in ReqRec
           /\ [r EXCEPT !.state = out].state = out
BY DEF ReqRec

\* Nothing that settled is pending.
LEMMA SettledNotPending ==
    ASSUME NEW out \in Settled
    PROVE  out \notin Pending
BY DEF Settled, Pending

\* settle, on interactions of the map, does that.
LEMMA SettleDoes ==
    ASSUME Inv, NEW K \in SUBSET pending, NEW out \in Settled, Settle(K, out)
    PROVE  Settles(K)
<1>1. K \subseteq Request
    BY DEF pending
<1>2. \A k \in Request : req[k] \in ReqRec
    BY Fields DEF Inv
<1>3. ASSUME NEW k \in Request
      PROVE  req'[k] = IF k \in K THEN [req[k] EXCEPT !.state = out] ELSE req[k]
    BY DEF Settle
<1>4. \A k \in K : req'[k] \in ReqRec /\ req'[k].state = out
  <2>. SUFFICES ASSUME NEW k \in K PROVE req'[k] \in ReqRec /\ req'[k].state = out
      OBVIOUS
  <2>1. req[k] \in ReqRec /\ req'[k] = [req[k] EXCEPT !.state = out]
      BY <1>1, <1>2, <1>3
  <2>. QED  BY <2>1, Outcome, Zenon
<1>5. \A k \in Request \ K : req'[k] = req[k]
    BY <1>3
<1>6. \A k \in Request : req'[k] \in ReqRec
    BY <1>2, <1>4, <1>5
<1>7. req' \in [Request -> ReqRec]
  <2>1. DOMAIN req' = Request /\ req' = [k \in Request |-> req'[k]]
      BY DEF Settle
  <2>. QED  BY <1>6, <2>1
<1>8. \A k \in K : req'[k].state \notin Pending
    BY <1>4, SettledNotPending
<1>9. pending' = pending \ K
    BY <1>1, <1>5, <1>8 DEF pending
<1>10. deliveries \ {req[k].dl : k \in K} = deliveries \ DeliveriesOf(K)
  <2>1. ASSUME NEW d \in deliveries, NEW k \in K, req[k].dl = d
        PROVE  req[k].state = "delivered"
    <3>1. PICK j \in pending : req[j].state = "delivered" /\ req[j].dl = d
        BY Answerable
    <3>. QED  BY <2>1, <3>1, OwnDeliveries
  <2>. QED  BY <2>1 DEF DeliveriesOf
<1>. QED  BY <1>5, <1>7, <1>8, <1>9, <1>10 DEF Settles, Settle

\* What is promised to an interaction stays so.
Kept(k) ==
    LET a == responders[req[k].owner]
    IN  /\ responders'[req[k].owner] = a
        /\ att'[a].scope = att[a].scope
        /\ att'[a].acked => att[a].acked
        /\ (req[k].state = "delivered" /\ req[k].method \in att[a].methods)
              => req[k].method \in att'[a].methods

\* Deliveries are only added to the record.
Recorded ==
    /\ \E n \in 0..MaxDeliveries : DOMAIN sent' = 1..n
    /\ DOMAIN sent \subseteq DOMAIN sent'
    /\ \A d \in DOMAIN sent : sent'[d] = sent[d]
    /\ \A d \in DOMAIN sent' : sent'[d] \in SentRec

\* A notice of withdrawal takes from what a client shows the deliveries that
\* cannot be answered any more, unless its connection is broken.
Withdraws(K) ==
    /\ prompts' \in [Attachment -> SUBSET Delivery]
    /\ \A a \in Attachment : prompts'[a] \subseteq prompts[a]
    /\ \A a \in Attachment : ~att'[a].broken =>
          ~att[a].broken /\ \A d \in prompts'[a] : d \notin DeliveriesOf(K)
    /\ \A d \in deliveries \ DeliveriesOf(K) : d \in prompts'[sent[d].att]

\* The tables of connections after a step.
Connected ==
    /\ responders' \in [Responder -> Attachment \cup {None}]
    /\ att' \in [Attachment -> AttRec]
    /\ commits' \subseteq Attachment \X (1..MaxEpoch)
    /\ told' \in [Attachment -> SUBSET (0..MaxEpoch)]
    /\ Attached'
    /\ AckedMeansTold'

\* Whoever ends the interactions K by settle and a notice, or with the only
\* client that shows them, keeps the invariant.
LEMMA SettlingKeeps ==
    ASSUME Inv, NEW K \in SUBSET pending, Settles(K), Withdraws(K), Connected,
           Recorded, nth' = nth, overdue' = overdue,
           \A k \in pending \ K : Kept(k)
    PROVE  Inv'
<1>1. pending' = pending \ K /\ K \subseteq Request /\ pending \subseteq Request
    BY DEF Settles, pending
<1>2. \A k \in pending' : k \in pending /\ k \notin K /\ req'[k] = req[k] /\ Served(k) /\ Kept(k)
    BY <1>1, PendingFacts DEF Settles
<1>3. \A k \in pending \ K : req'[k] = req[k]
    BY <1>1 DEF Settles
<1>4. Live'
  <2>. SUFFICES ASSUME NEW k \in pending' PROVE Served(k)'
      BY DEF Live
  <2>. DEFINE a == responders[req[k].owner]
  <2>1. /\ req'[k] = req[k] /\ nth'[k] = nth[k]
        /\ responders'[req'[k].owner] = a
        /\ att'[a].scope = att[a].scope
        /\ att'[a].acked => att[a].acked
        /\ (req[k].state = "delivered" /\ req[k].method \in att[a].methods)
              => req[k].method \in att'[a].methods
      BY <1>2, Zenon DEF Kept
  <2>2. /\ req[k].owner \in Responder /\ a # None
        /\ att[a].scope = req[k].scope
        /\ nth[k] # 0
        /\ req[k].state = "waiting" => ~att[a].acked
        /\ req[k].state = "delivered" =>
              /\ req[k].method \in att[a].methods
              /\ req[k].dl \in DOMAIN sent
              /\ sent[req[k].dl] = [req |-> k, nth |-> nth[k], att |-> a]
      BY <1>2, Zenon DEF Served
  <2>3. \A d \in DOMAIN sent : d \in DOMAIN sent' /\ sent'[d] = sent[d]
      BY DEF Recorded
  <2>. HIDE DEF a
  <2>4. req[k].state = "delivered" =>
              /\ req[k].dl \in DOMAIN sent'
              /\ sent'[req[k].dl] = [req |-> k, nth |-> nth[k], att |-> a]
      BY <2>2, <2>3, Zenon
  <2>. QED  BY <2>1, <2>2, <2>4, Zenon DEF Served
<1>5. Mapped'
  <2>1. ASSUME NEW j \in pending, NEW k \in pending,
               req[j].state = "delivered", req[k].state = "delivered",
               req[k].dl = req[j].dl
        PROVE  j = k
      BY <2>1, OwnDeliveries
  <2>2. DeliveriesOf(pending) \ DeliveriesOf(K) = DeliveriesOf(pending \ K)
      BY <2>1 DEF DeliveriesOf
  <2>3. DeliveriesOf(pending)' = DeliveriesOf(pending \ K)
      BY <1>1, <1>3 DEF DeliveriesOf
  <2>. QED  BY <2>2, <2>3 DEF Inv, Mapped, Settles
<1>6. deliveries' \subseteq DOMAIN sent' /\ deliveries' = deliveries \ DeliveriesOf(K)
    BY DEF Settles, Recorded, Inv, TypeOK
<1>7. Shown'
    BY <1>6 DEF Inv, Shown, Withdraws, Recorded, TypeOK
<1>8. NoOrphanPrompt'
    BY <1>6 DEF Inv, NoOrphanPrompt, Withdraws
<1>9. TimersExact'
  <2>1. timers = {<<k, nth[k]>> : k \in pending \cap Timed}
      BY DEF Inv, TimersExact
  <2>2. timers' = {t \in timers : t[1] \notin K}
      BY DEF Settles
  <2>3. timers' = {<<k, nth[k]>> : k \in (pending \ K) \cap Timed}
      BY <2>1, <2>2
  <2>. QED  BY <1>1, <2>3, Zenon DEF TimersExact
<1>10. Numbered'
    BY DEF Numbered, Recorded
<1>11. DOMAIN sent' \subseteq Delivery
    BY RequestsAssumption, SMT DEF Recorded, Delivery
<1>12. \A k \in Request : req'[k].state = "waiting" => req'[k].dl = 0
  <2>1. \A k \in Request : req[k].state = "waiting" => req[k].dl = 0
      BY DEF Inv, TypeOK
  <2>2. \A k \in Request : k \in K \/ req'[k] = req[k]
      BY DEF Settles
  <2>3. \A k \in K : req'[k].state # "waiting"
      BY DEF Settles, Pending
  <2>. QED  BY <2>1, <2>2, <2>3
<1>13. TypeOK'
  <2>1. /\ req' \in [Request -> ReqRec] /\ timers' \subseteq timers
      BY DEF Settles
  <2>2. /\ nth' \in [Request -> 0..MaxUses]
        /\ overdue' \subseteq Request \X (1..MaxUses)
        /\ timers' \subseteq Request \X (1..MaxUses)
      BY <2>1 DEF Inv, TypeOK
  <2>3. /\ responders' \in [Responder -> Attachment \cup {None}]
        /\ att' \in [Attachment -> AttRec]
        /\ commits' \subseteq Attachment \X (1..MaxEpoch)
        /\ told' \in [Attachment -> SUBSET (0..MaxEpoch)]
        /\ prompts' \in [Attachment -> SUBSET Delivery]
        /\ \A d \in DOMAIN sent' : sent'[d] \in SentRec
      BY DEF Connected, Withdraws, Recorded
  <2>. QED  BY <1>6, <1>11, <1>12, <2>1, <2>2, <2>3 DEF TypeOK, AttRec, ReqRec, SentRec
<1>. QED  BY <1>4, <1>5, <1>7, <1>8, <1>9, <1>10, <1>13 DEF Inv, Connected

\* A step that leaves the connections and their sets alone.
LEMMA SameConnections ==
    ASSUME Inv, UNCHANGED <<responders, att, commits, told>>
    PROVE  Connected /\ \A k \in pending : Kept(k)
<1>1. /\ responders \in [Responder -> Attachment \cup {None}]
      /\ att \in [Attachment -> AttRec]
      /\ commits \subseteq Attachment \X (1..MaxEpoch)
      /\ told \in [Attachment -> SUBSET (0..MaxEpoch)]
      /\ Attached /\ AckedMeansTold
    BY DEF Inv, TypeOK, AttRec
<1>2. Attached' /\ AckedMeansTold'
    BY <1>1 DEF Attached, AckedMeansTold
<1>. QED  BY <1>1, <1>2 DEF Connected, Kept

\* A step that begins no delivery.
LEMMA SameRecord ==
    ASSUME Inv, UNCHANGED sent
    PROVE  Recorded
BY DEF Inv, TypeOK, Numbered, Recorded, SentRec

\* A notice of withdrawal, as sendCancellation sends it.
LEMMA WithdrawnDoes ==
    ASSUME Inv, NEW K \in SUBSET pending, prompts' = Withdrawn(DeliveriesOf(K)),
           \A a \in Attachment : att'[a].broken = att[a].broken
    PROVE  Withdraws(K)
<1>1. \A a \in Attachment :
          prompts'[a] = IF att[a].broken THEN prompts[a] ELSE prompts[a] \ DeliveriesOf(K)
    BY DEF Withdrawn
<1>2. prompts \in [Attachment -> SUBSET Delivery]
    BY DEF Inv, TypeOK
<1>3. prompts' \in [Attachment -> SUBSET Delivery]
    BY <1>2 DEF Withdrawn
<1>4. \A d \in deliveries : sent[d].att \in Attachment /\ d \in prompts[sent[d].att]
    BY Fields DEF Inv, Shown, TypeOK, SentRec
<1>. QED  BY <1>1, <1>3, <1>4 DEF Withdraws

\* cancel, cancelAll, the expiry timer and the redelivery of what is overdue.
LEMMA EndsKeep ==
    ASSUME Inv, NEW K \in SUBSET pending, NEW out \in Settled,
           SettleAndWithdraw(K, out),
           UNCHANGED <<responders, att, nth, sent, overdue, commits, told>>
    PROVE  Inv'
<1>1. Settles(K)
    BY SettleDoes DEF SettleAndWithdraw
<1>2. Withdraws(K)
    BY WithdrawnDoes DEF SettleAndWithdraw
<1>3. Connected /\ Recorded /\ \A k \in pending \ K : Kept(k)
    BY SameConnections, SameRecord
<1>. QED  BY <1>1, <1>2, <1>3, SettlingKeeps

\* The owner of a bound attachment, and what it is for.
LEMMA BoundFacts ==
    ASSUME Inv, NEW a \in Attachment, Bound(a)
    PROVE  /\ att[a].owner \in Responder /\ responders[att[a].owner] = a
           /\ \A k \in pending : req[k].owner = att[a].owner <=> responders[req[k].owner] = a
<1>1. att[a].owner \in Responder /\ responders[att[a].owner] = a
    BY Fields DEF Inv, Bound, AttRec
<1>2. \A k \in pending : att[responders[req[k].owner]].owner = req[k].owner
    BY PendingFacts
<1>. QED  BY <1>1, <1>2

\* A responder id that leads nowhere any more.
LEMMA Unbound ==
    ASSUME Inv, NEW r \in Responder, responders' = [responders EXCEPT ![r] = None],
           \A a \in Attachment : att'[a].owner = att[a].owner /\ att'[a].epoch = att[a].epoch
    PROVE  /\ responders' \in [Responder -> Attachment \cup {None}]
           /\ Attached'
           /\ \A q \in Responder : q # r => responders'[q] = responders[q]
<1>1. responders \in [Responder -> Attachment \cup {None}]
    BY DEF Inv, TypeOK
<1>2. \A q \in Responder : responders'[q] = IF q = r THEN None ELSE responders[q]
    BY <1>1
<1>3. Attached'
    BY <1>1, <1>2 DEF Inv, Attached
<1>. QED  BY <1>1, <1>2, <1>3

\* detachResponder cancels whatever the responder id was eligible for.
LEMMA DetachKeeps ==
    ASSUME Inv, NEW a \in Attachment, DetachResponder(a)
    PROVE  Inv'
<1>. DEFINE K == {k \in pending : req[k].owner = att[a].owner}
<1>1. Bound(a) /\ att[a].owner \in Responder
    BY BoundFacts DEF DetachResponder
<1>2. /\ responders' = [responders EXCEPT ![att[a].owner] = None]
      /\ SettleAndWithdraw(K, "cancelled")
      /\ UNCHANGED <<att, nth, sent, overdue, commits, told>>
    BY DEF DetachResponder
<1>3. K \in SUBSET pending /\ "cancelled" \in Settled
    BY DEF Settled
<1>. HIDE DEF K
<1>4. Settles(K)
    BY <1>2, <1>3, SettleDoes DEF SettleAndWithdraw
<1>5. Withdraws(K)
    BY <1>2, <1>3, WithdrawnDoes DEF SettleAndWithdraw
<1>6. Recorded
    BY <1>2, SameRecord
<1>7. /\ responders' \in [Responder -> Attachment \cup {None}]
      /\ Attached'
      /\ \A q \in Responder : q # att[a].owner => responders'[q] = responders[q]
    BY <1>1, <1>2, Unbound
<1>8. Connected
  <2>1. AckedMeansTold'
      BY <1>2 DEF Inv, AckedMeansTold
  <2>. QED  BY <1>2, <1>7, <2>1 DEF Connected, Inv, TypeOK, AttRec
<1>9. ASSUME NEW k \in pending \ K
      PROVE  Kept(k)
  <2>1. req[k].owner \in Responder /\ req[k].owner # att[a].owner
      BY PendingFacts DEF K
  <2>. QED  BY <1>2, <1>7, <2>1 DEF Kept
<1>. QED  BY <1>2, <1>3, <1>4, <1>5, <1>6, <1>8, <1>9, SettlingKeeps

\* A message without an id: all that this attachment was asked fails, which is
\* everything its responder id is eligible for, and only its client shows it.
LEMMA NullKeeps ==
    ASSUME Inv, NEW a \in Attachment, HandleNullResponse(a)
    PROVE  Inv'
<1>. DEFINE K == {k \in pending : /\ req[k].owner = att[a].owner
                                  /\ req[k].scope = att[a].scope
                                  /\ req[k].state = "delivered" => sent[req[k].dl].att = a}
<1>1. Bound(a) /\ att[a].owner \in Responder
    BY BoundFacts DEF HandleNullResponse
<1>2. /\ responders' = [responders EXCEPT ![att[a].owner] = None]
      /\ Settle(K, "failed") /\ UNCHANGED prompts
      /\ att' = [att EXCEPT ![a].broken = TRUE]
      /\ UNCHANGED <<nth, sent, overdue, commits, told>>
    BY DEF HandleNullResponse, Reject
<1>3. K \in SUBSET pending /\ "failed" \in Settled
    BY DEF Settled
<1>4. \A k \in pending : req[k].owner = att[a].owner => k \in K
  <2>. SUFFICES ASSUME NEW k \in pending, req[k].owner = att[a].owner
                PROVE  k \in K
      OBVIOUS
  <2>1. responders[req[k].owner] = a /\ Served(k)
      BY <1>1, BoundFacts, PendingFacts
  <2>2. att[a].scope = req[k].scope
      BY <2>1 DEF Served
  <2>3. req[k].state = "delivered" => sent[req[k].dl].att = a
      BY <2>1 DEF Served
  <2>. QED  BY <2>2, <2>3
<1>5. \A k \in K : req[k].state = "delivered" => sent[req[k].dl].att = a
    OBVIOUS
<1>. HIDE DEF K
<1>6. Settles(K)
    BY <1>2, <1>3, SettleDoes
<1>7. /\ att' \in [Attachment -> AttRec]
      /\ \A b \in Attachment : /\ att'[b].owner = att[b].owner /\ att'[b].epoch = att[b].epoch
                               /\ att'[b].scope = att[b].scope /\ att'[b].acked = att[b].acked
                               /\ att'[b].methods = att[b].methods
                               /\ ~att'[b].broken => b # a /\ ~att[b].broken
  <2>1. att \in [Attachment -> AttRec]
      BY DEF Inv, TypeOK, AttRec
  <2>. QED  BY <1>2, <2>1 DEF AttRec
<1>8. Withdraws(K)
  <2>1. \A b \in Attachment : \A d \in prompts[b] : sent[d].att = b
      BY DEF Inv, Shown
  <2>2. \A d \in DeliveriesOf(K) : sent[d].att = a
      BY <1>5 DEF DeliveriesOf
  <2>3. prompts \in [Attachment -> SUBSET Delivery] /\ \A d \in deliveries : d \in prompts[sent[d].att]
      BY DEF Inv, TypeOK, Shown
  <2>. QED  BY <1>2, <1>7, <2>1, <2>2, <2>3 DEF Withdraws
<1>9. Recorded
    BY <1>2, SameRecord
<1>10. /\ responders' \in [Responder -> Attachment \cup {None}]
       /\ Attached'
       /\ \A q \in Responder : q # att[a].owner => responders'[q] = responders[q]
    BY <1>1, <1>2, <1>7, Unbound
<1>11. Connected
  <2>1. AckedMeansTold'
      BY <1>2, <1>7 DEF Inv, AckedMeansTold
  <2>. QED  BY <1>2, <1>7, <1>10, <2>1 DEF Connected, Inv, TypeOK
<1>12. ASSUME NEW k \in pending \ K
       PROVE  Kept(k)
  <2>1. req[k].owner \in Responder /\ req[k].owner # att[a].owner
        /\ responders[req[k].owner] \in Attachment
      BY <1>4, PendingFacts
  <2>. QED  BY <1>7, <1>10, <2>1 DEF Kept
<1>. QED  BY <1>2, <1>3, <1>6, <1>8, <1>9, <1>11, <1>12, SettlingKeeps

\* A change of the methods takes with it what is no longer accepted, and
\* nothing is acknowledged until its response was written.
LEMMA SetMethodsKeeps ==
    ASSUME Inv, NEW a \in Attachment, NEW ms \in SUBSET Method,
           SetServerRequestMethods(a, ms)
    PROVE  Inv'
<1>. DEFINE K == {k \in pending : /\ req[k].owner = att[a].owner
                                  /\ req[k].method \in att[a].methods \ ms}
<1>1. /\ Bound(a) /\ att[a].epoch < MaxEpoch
      /\ SettleAndWithdraw(K, "cancelled")
      /\ att' = [att EXCEPT ![a].methods = ms, ![a].acked = FALSE, ![a].epoch = @ + 1]
      /\ commits' = commits \cup {<<a, att[a].epoch + 1>>}
      /\ UNCHANGED <<responders, nth, sent, overdue, told>>
    BY DEF SetServerRequestMethods
<1>2. K \in SUBSET pending /\ "cancelled" \in Settled
    BY DEF Settled
<1>3. \A k \in pending \ K : /\ k \in pending
                             /\ req[k].owner = att[a].owner =>
                                   (req[k].method \in att[a].methods => req[k].method \in ms)
    OBVIOUS
<1>. HIDE DEF K
<1>4. att[a].owner \in Responder /\ \A k \in pending : responders[req[k].owner] = a => req[k].owner = att[a].owner
    BY <1>1, BoundFacts
<1>5. att \in [Attachment -> AttRec] /\ att[a].epoch \in 0..MaxEpoch
    BY DEF Inv, TypeOK, AttRec
<1>6. att[a].epoch + 1 \in 1..MaxEpoch
    BY <1>1, <1>5, RequestsAssumption, SMT
<1>7. att' \in [Attachment -> AttRec]
    BY <1>1, <1>5, <1>6 DEF AttRec
<1>8. \A b \in Attachment : /\ att'[b].owner = att[b].owner /\ att'[b].scope = att[b].scope
                            /\ att'[b].broken = att[b].broken
                            /\ att'[b].acked => b # a /\ att[b].acked
                            /\ b # a => att'[b] = att[b]
                            /\ b = a => att'[b].methods = ms
    BY <1>1, <1>5 DEF AttRec
<1>9. Settles(K) /\ Withdraws(K) /\ Recorded
    BY <1>1, <1>2, <1>8, SettleDoes, WithdrawnDoes, SameRecord DEF SettleAndWithdraw
<1>10. Connected
  <2>1. Attached'
      BY <1>1, <1>4, <1>8, RequestsAssumption DEF Inv, Attached, TypeOK
  <2>2. AckedMeansTold'
      BY <1>1, <1>8 DEF Inv, AckedMeansTold
  <2>3. commits' \subseteq Attachment \X (1..MaxEpoch)
      BY <1>1, <1>6 DEF Inv, TypeOK
  <2>. QED  BY <1>1, <1>7, <2>1, <2>2, <2>3 DEF Connected, Inv, TypeOK
<1>11. ASSUME NEW k \in pending \ K
       PROVE  Kept(k)
  <2>1. responders[req[k].owner] \in Attachment
      BY PendingFacts
  <2>. QED  BY <1>1, <1>3, <1>4, <1>8, <2>1 DEF Kept
<1>. QED  BY <1>1, <1>2, <1>9, <1>10, <1>11, SettlingKeeps

\* The interaction that an answer is for, when the answer is correlated.
LEMMA AnswerFacts ==
    ASSUME Inv, NEW a \in Attachment, NEW d, Correlated(a, d)
    PROVE  /\ sent[d].req \in pending
           /\ req[sent[d].req].state = "delivered"
           /\ req[sent[d].req].dl = d
           /\ sent[d].nth = nth[sent[d].req]
           /\ Bound(a) /\ sent[d].att = a
           /\ responders[req[sent[d].req].owner] = a
           /\ req[sent[d].req].method \in att[a].methods
           /\ d \in deliveries /\ d \in prompts[a]
<1>1. Bound(a) /\ d \in deliveries /\ sent[d].att = a
    BY DEF Correlated
<1>2. PICK k \in pending : /\ req[k].state = "delivered" /\ req[k].dl = d
                           /\ sent[d] = [req |-> k, nth |-> nth[k],
                                         att |-> responders[req[k].owner]]
    BY <1>1, Answerable
<1>3. Served(k) /\ responders[req[k].owner] = a /\ sent[d].req = k /\ sent[d].nth = nth[k]
    BY <1>1, <1>2, PendingFacts
<1>4. req[k].method \in att[a].methods
    BY <1>2, <1>3 DEF Served
<1>5. d \in prompts[a]
    BY <1>1 DEF Inv, Shown
<1>. QED  BY <1>1, <1>2, <1>3, <1>4, <1>5

\* A client that shows a delivery of its own, unbroken, may answer it.
LEMMA ShownIsCorrelated ==
    ASSUME Inv, NEW a \in Attachment, ~att[a].broken, NEW d \in prompts[a]
    PROVE  Correlated(a, d)
<1>1. d \in deliveries /\ sent[d].att = a
    BY DEF Inv, NoOrphanPrompt, Shown
<1>2. PICK k \in pending : /\ req[k].state = "delivered" /\ req[k].dl = d
                           /\ sent[d] = [req |-> k, nth |-> nth[k],
                                         att |-> responders[req[k].owner]]
    BY <1>1, Answerable
<1>3. /\ Served(k) /\ responders[req[k].owner] = a /\ sent[d].req = k
      /\ att[a].owner = req[k].owner /\ req[k].owner \in Responder
    BY <1>1, <1>2, PendingFacts
<1>4. att[a].scope = req[k].scope
    BY <1>3 DEF Served
<1>5. Bound(a)
    BY <1>3, RequestsAssumption DEF Bound
<1>. QED  BY <1>1, <1>3, <1>4, <1>5 DEF Correlated

\* An answer settles the interaction it is for.
LEMMA AnswerKeeps ==
    ASSUME Inv, NEW a \in Attachment, NEW d \in DOMAIN sent, NEW ok \in BOOLEAN,
           HandleResponse(a, d, ok)
    PROVE  Inv'
<1>. DEFINE k == sent[d].req
            out == IF IsExpired(k) THEN "expired" ELSE IF ok THEN "response" ELSE "failed"
<1>1. /\ ~att[a].broken
      /\ UNCHANGED <<responders, att, nth, sent, overdue, commits, told>>
      /\ prompts' = [prompts EXCEPT ![a] = @ \ {d}]
    BY DEF HandleResponse
<1>2. Correlated(a, d)
    BY ShownIsCorrelated DEF HandleResponse
<1>3. Settle({k}, out)
    BY <1>2 DEF HandleResponse
<1>4. {k} \in SUBSET pending /\ out \in Settled
    BY <1>2, AnswerFacts DEF Settled
<1>5. DeliveriesOf({k}) = {d}
    BY <1>2, AnswerFacts DEF DeliveriesOf
<1>6. Withdraws({k})
  <2>1. prompts \in [Attachment -> SUBSET Delivery]
      BY DEF Inv, TypeOK
  <2>2. \A b \in Attachment : prompts'[b] = IF b = a THEN prompts[b] \ {d} ELSE prompts[b]
      BY <1>1, <2>1
  <2>3. prompts' \in [Attachment -> SUBSET Delivery]
      BY <1>1, <2>1
  <2>4. \A b \in Attachment : b # a => d \notin prompts'[b]
      BY <1>2, <2>2, AnswerFacts, SMTT(30) DEF Inv, Shown
  <2>5. \A e \in deliveries : e \in prompts[sent[e].att] /\ sent[e].att \in Attachment
      BY Fields DEF Inv, Shown, TypeOK, SentRec
  <2>. QED  BY <1>1, <1>5, <2>2, <2>3, <2>4, <2>5 DEF Withdraws
<1>. HIDE DEF k, out
<1>7. Settles({k})
    BY <1>3, <1>4, SettleDoes
<1>8. Connected /\ Recorded /\ \A j \in pending \ {k} : Kept(j)
    BY <1>1, SameConnections, SameRecord
<1>. QED  BY <1>1, <1>4, <1>6, <1>7, <1>8, SettlingKeeps

\* A timer that is armed belongs to the interaction that is in the map.
LEMMA TimerKeeps ==
    ASSUME Inv, NEW t \in timers, TimerFires(t)
    PROVE  Inv'
<1>1. PICK k \in pending : t = <<k, nth[k]>>
    BY DEF Inv, TimersExact
<1>2. /\ SettleAndWithdraw({k}, "expired")
      /\ UNCHANGED <<responders, att, nth, sent, overdue, commits, told>>
    BY <1>1 DEF TimerFires
<1>3. {k} \in SUBSET pending /\ "expired" \in Settled
    BY DEF Settled
<1>. QED  BY <1>2, <1>3, EndsKeep

-----------------------------------------------------------------------------
(* Steps that end nothing.                                                 *)

\* A step that touches neither the interactions nor what the clients show.
LEMMA EndsNothing ==
    ASSUME Inv, UNCHANGED <<req, nth, sent, deliveries, timers, overdue, prompts>>,
           Connected, \A k \in pending : Kept(k),
           \A a \in Attachment : ~att'[a].broken => ~att[a].broken
    PROVE  Inv'
<1>1. DeliveriesOf({}) = {} /\ {} \in SUBSET pending
    BY DEF DeliveriesOf
<1>2. pending' = pending
    BY DEF pending
<1>3. timers = {t \in timers : t[1] \notin {}}
    OBVIOUS
<1>4. Settles({})
    BY <1>1, <1>2, <1>3 DEF Settles, Inv, TypeOK, ReqRec
<1>5. Withdraws({})
    BY <1>1 DEF Withdraws, Inv, TypeOK, Shown
<1>. QED  BY <1>1, <1>4, <1>5, SameRecord, SettlingKeeps

\* A record that an attachment is given is of the type.
LEMMA NewAttachment ==
    ASSUME NEW x \in AttRec, NEW r \in Responder, NEW s \in Scope,
           NEW ms \in SUBSET Method, NEW b \in BOOLEAN
    PROVE  [x EXCEPT !.owner = r, !.scope = s, !.methods = ms, !.acked = b] \in AttRec
BY DEF AttRec

\* attachResponder: nothing in the map is for a responder id that leads nowhere.
LEMMA AttachKeeps ==
    ASSUME Inv, NEW r \in Responder, NEW a \in Attachment, NEW s \in Scope,
           NEW n \in BOOLEAN, AttachResponder(r, a, s, n)
    PROVE  Inv'
<1>1. /\ responders[r] = None /\ att[a].owner = None
      /\ responders' = [responders EXCEPT ![r] = a]
      /\ att' = [att EXCEPT ![a].owner = r, ![a].scope = s,
                            ![a].methods = IF n THEN {} ELSE Method, ![a].acked = ~n]
      /\ told' = [told EXCEPT ![a] = IF n THEN {} ELSE {0}]
      /\ UNCHANGED <<req, nth, sent, deliveries, timers, overdue, commits, prompts>>
    BY DEF AttachResponder
<1>2. /\ responders \in [Responder -> Attachment \cup {None}]
      /\ att \in [Attachment -> AttRec]
      /\ told \in [Attachment -> SUBSET (0..MaxEpoch)]
      /\ commits \subseteq Attachment \X (1..MaxEpoch)
    BY DEF Inv, TypeOK, AttRec
<1>3. 0 \in 0..MaxEpoch /\ r # None
    BY RequestsAssumption, SMT
<1>4. \A q \in Responder : responders'[q] = IF q = r THEN a ELSE responders[q]
    BY <1>1, <1>2
<1>5. \A b \in Attachment : b # a => att'[b] = att[b] /\ told'[b] = told[b]
    BY <1>1, <1>2
<1>6. /\ att'[a].owner = r /\ att'[a].acked = ~n /\ att'[a].epoch = att[a].epoch
      /\ att'[a].broken = att[a].broken /\ told'[a] = IF n THEN {} ELSE {0}
    BY <1>1, <1>2 DEF AttRec
<1>7. att' \in [Attachment -> AttRec]
  <2>. DEFINE ms == IF n THEN {} ELSE Method
              ack == ~n
  <2>1. att'[a] = [att[a] EXCEPT !.owner = r, !.scope = s, !.methods = ms, !.acked = ack]
      BY <1>1, <1>2, Zenon DEF AttRec
  <2>2. att[a] \in AttRec /\ ms \in SUBSET Method
      BY <1>2
  <2>3. ack \in BOOLEAN
      OBVIOUS
  <2>. HIDE DEF ms, ack
  <2>4. [att[a] EXCEPT !.owner = r, !.scope = s, !.methods = ms, !.acked = ack] \in AttRec
      BY <2>2, <2>3, NewAttachment
  <2>5. att' = [b \in Attachment |-> att'[b]]
      BY <1>1, <1>2
  <2>. QED  BY <1>2, <1>5, <2>1, <2>4, <2>5
<1>8. Connected
  <2>1. att[a].epoch = 0
      BY <1>1 DEF Inv, Attached
  <2>2. \A q \in Responder : q # r => responders[q] # a
      BY <1>1, RequestsAssumption DEF Inv, Attached
  <2>3. Attached'
      BY <1>3, <1>4, <1>5, <1>6, <2>2, <1>2 DEF Inv, Attached
  <2>4. AckedMeansTold'
      BY <1>5, <1>6, <2>1 DEF Inv, AckedMeansTold
  <2>. QED  BY <1>1, <1>2, <1>3, <1>7, <2>3, <2>4 DEF Connected
<1>9. ASSUME NEW k \in pending
      PROVE  Kept(k)
  <2>1. /\ req[k].owner \in Responder /\ responders[req[k].owner] \in Attachment
        /\ att[responders[req[k].owner]].owner = req[k].owner
      BY PendingFacts
  <2>2. req[k].owner # r /\ responders[req[k].owner] # a
      BY <1>1, <1>3, <2>1, RequestsAssumption
  <2>. QED  BY <1>4, <1>5, <2>1, <2>2 DEF Kept
<1>10. \A b \in Attachment : ~att'[b].broken => ~att[b].broken
    BY <1>5, <1>6
<1>. QED  BY <1>1, <1>8, <1>9, <1>10, EndsNothing

\* A transport that fails takes nothing out of the maps.
LEMMA BreakKeeps ==
    ASSUME Inv, NEW a \in Attachment, TransportBreaks(a)
    PROVE  Inv'
<1>1. att' = [att EXCEPT ![a].broken = TRUE]
      /\ UNCHANGED <<responders, req, nth, sent, deliveries, timers, overdue,
                     commits, told, prompts>>
    BY DEF TransportBreaks
<1>2. att \in [Attachment -> AttRec]
    BY DEF Inv, TypeOK, AttRec
<1>3. /\ att' \in [Attachment -> AttRec]
      /\ \A b \in Attachment : /\ att'[b].owner = att[b].owner /\ att'[b].epoch = att[b].epoch
                               /\ att'[b].scope = att[b].scope /\ att'[b].acked = att[b].acked
                               /\ att'[b].methods = att[b].methods
                               /\ ~att'[b].broken => ~att[b].broken
    BY <1>1, <1>2 DEF AttRec
<1>4. Connected
  <2>1. Attached' /\ AckedMeansTold'
      BY <1>1, <1>3, Fields DEF Inv, Attached, AckedMeansTold
  <2>. QED  BY <1>1, <1>3, <2>1 DEF Connected, Inv, TypeOK
<1>5. ASSUME NEW k \in pending
      PROVE  Kept(k)
  <2>1. responders[req[k].owner] \in Attachment
      BY PendingFacts
  <2>. QED  BY <1>1, <1>3, <2>1 DEF Kept
<1>. QED  BY <1>1, <1>3, <1>4, <1>5, EndsNothing

\* A deadline that passes changes no map.
LEMMA DeadlineKeeps ==
    ASSUME Inv, NEW k \in Request, DeadlinePasses(k)
    PROVE  Inv'
<1>1. /\ k \in pending /\ overdue' = overdue \cup {<<k, nth[k]>>}
      /\ UNCHANGED <<responders, att, req, nth, sent, deliveries, timers, commits,
                     told, prompts>>
    BY DEF DeadlinePasses
<1>2. overdue' \subseteq Request \X (1..MaxUses)
    BY <1>1, PendingFacts DEF Inv, TypeOK
<1>3. pending' = pending /\ DeliveriesOf(pending)' = DeliveriesOf(pending)
    BY <1>1 DEF pending, DeliveriesOf
<1>4. \A j \in pending : Served(j)' <=> Served(j)
    BY <1>1 DEF Served
<1>5. TypeOK'
    BY <1>1, <1>2 DEF Inv, TypeOK
<1>6. Numbered' /\ Attached' /\ Shown' /\ NoOrphanPrompt' /\ AckedMeansTold'
    BY <1>1 DEF Inv, Numbered, Attached, Shown, NoOrphanPrompt, AckedMeansTold
<1>7. Live' /\ Mapped' /\ TimersExact'
    BY <1>1, <1>3, <1>4 DEF Inv, Live, Mapped, TimersExact
<1>. QED  BY <1>5, <1>6, <1>7 DEF Inv

-----------------------------------------------------------------------------
(* Deliveries that begin.                                                  *)

\* Deliveries with the ids new begin, to the client of the attachment a, and
\* the deliveries old are withdrawn.
Begins(a, new, old) ==
    /\ new \cap DOMAIN sent = {} /\ DOMAIN sent' = DOMAIN sent \cup new
    /\ \A d \in DOMAIN sent : sent'[d] = sent[d]
    /\ \A d \in new : sent'[d] \in SentRec /\ sent'[d].att = a
    /\ deliveries' = (deliveries \ old) \cup new
    /\ prompts' \in [Attachment -> SUBSET Delivery]
    /\ \A b \in Attachment :
          prompts'[b] = (IF att[b].broken THEN prompts[b] ELSE prompts[b] \ old)
                            \cup (IF b = a THEN new ELSE {})

\* What begins is on record and shown, to one client.
LEMMA BegunIsShown ==
    ASSUME Inv, NEW a \in Attachment, NEW new, NEW old, Begins(a, new, old),
           \A b \in Attachment : att'[b].broken = att[b].broken
    PROVE  /\ \A d \in DOMAIN sent' : sent'[d] \in SentRec
           /\ deliveries' \subseteq DOMAIN sent'
           /\ Shown' /\ NoOrphanPrompt'
<1>1. /\ \A d \in DOMAIN sent : sent[d] \in SentRec /\ sent[d].att \in Attachment
      /\ deliveries \subseteq DOMAIN sent
    BY Fields DEF Inv, TypeOK, SentRec
<1>2. \A d \in DOMAIN sent' : sent'[d] \in SentRec
    BY <1>1 DEF Begins
<1>3. deliveries' \subseteq DOMAIN sent'
    BY <1>1 DEF Begins
<1>4. \A b \in Attachment : \A d \in prompts'[b] : d \in DOMAIN sent' /\ sent'[d].att = b
  <2>. SUFFICES ASSUME NEW b \in Attachment, NEW d \in prompts'[b]
                PROVE  d \in DOMAIN sent' /\ sent'[d].att = b
      OBVIOUS
  <2>1. CASE d \in prompts[b]
    <3>1. d \in DOMAIN sent /\ sent[d].att = b
        BY <2>1 DEF Inv, Shown
    <3>. QED  BY <3>1 DEF Begins
  <2>2. CASE b = a /\ d \in new
      BY <2>2 DEF Begins
  <2>. QED  BY <2>1, <2>2 DEF Begins
<1>5. \A d \in deliveries' : d \in prompts'[sent'[d].att]
  <2>. SUFFICES ASSUME NEW d \in deliveries' PROVE d \in prompts'[sent'[d].att]
      OBVIOUS
  <2>1. CASE d \in new
      BY <2>1 DEF Begins
  <2>2. CASE d \in deliveries /\ d \notin old
    <3>1. d \in prompts[sent[d].att] /\ sent[d].att \in Attachment /\ sent'[d] = sent[d]
        BY <1>1, <2>2 DEF Inv, Shown, Begins
    <3>. QED  BY <2>2, <3>1 DEF Begins
  <2>. QED  BY <2>1, <2>2 DEF Begins
<1>6. NoOrphanPrompt'
    BY DEF Begins, Inv, NoOrphanPrompt
<1>. QED  BY <1>2, <1>3, <1>4, <1>5, <1>6 DEF Shown

\* The next id.
LEMMA NextId ==
    ASSUME Inv
    PROVE  \E n \in 0..MaxDeliveries : DOMAIN sent = 1..n /\ Cardinality(DOMAIN sent) = n
<1>1. PICK n \in 0..MaxDeliveries : DOMAIN sent = 1..n
    BY DEF Inv, Numbered
<1>. QED  BY <1>1, Count, RequestsAssumption, SMT

\* One delivery more.
LEMMA OneMore ==
    ASSUME Inv, Cardinality(DOMAIN sent) + 1 \in Delivery
    PROVE  LET d == Cardinality(DOMAIN sent) + 1
           IN  /\ d \notin DOMAIN sent /\ d # 0
               /\ \E n \in 0..MaxDeliveries : DOMAIN sent \cup {d} = 1..n
<1>1. PICK n \in 0..MaxDeliveries : DOMAIN sent = 1..n /\ Cardinality(DOMAIN sent) = n
    BY NextId
<1>2. n + 1 \in 0..MaxDeliveries /\ n + 1 \notin 1..n /\ n + 1 # 0
    BY <1>1, RequestsAssumption, SMT DEF Delivery
<1>3. (1..n) \cup {n + 1} = 1..(n + 1)
    BY <1>1, RequestsAssumption, SMT
<1>. QED  BY <1>1, <1>2, <1>3

\* What deliver decides, and from what.
LEMMA FateFacts ==
    ASSUME NEW r \in Responder, NEW s \in Scope, NEW m \in Method,
           NEW throws \in BOOLEAN
    PROVE  LET a == responders[r]
               f == Fate(r, s, m, throws)
           IN  /\ f \in {"failed", "waiting", "delivered"}
               /\ f \in Pending => a # None /\ att[a].scope = s
               /\ f = "waiting" => ~att[a].acked
               /\ f = "delivered" => m \in att[a].methods /\ ~att[a].broken
BY DEF Fate, Pending

\* A new record.
LEMMA NewRequest ==
    ASSUME NEW f \in {"expired", "failed", "waiting", "delivered"}, NEW r \in Responder,
           NEW s \in Scope, NEW m \in Method, NEW d \in 0..MaxDeliveries
    PROVE  [state |-> f, owner |-> r, scope |-> s, method |-> m, dl |-> d] \in ReqRec
BY DEF ReqRec, Pending, Settled

\* request: the new interaction ends at once, waits, or is delivered, and the
\* key's earlier interaction left nothing behind.
LEMMA RequestKeeps ==
    ASSUME Inv, NEW k \in Request, NEW r \in Responder, NEW s \in Scope,
           NEW m \in Method, NEW late \in BOOLEAN, NEW throws \in BOOLEAN,
           MakeRequest(k, r, s, m, late, throws)
    PROVE  Inv'
<1>. DEFINE id    == <<k, nth[k] + 1>>
            d     == Cardinality(DOMAIN sent) + 1
            fate  == IF late THEN "expired" ELSE Fate(r, s, m, throws)
            begun == responders[r] # None /\ fate = "delivered"
            dl    == IF begun THEN d ELSE 0
            a     == responders[r]
            rec   == [state |-> fate, owner |-> r, scope |-> s, method |-> m, dl |-> dl]
<1>1. /\ k \notin pending /\ nth[k] < MaxUses /\ Cardinality(DOMAIN sent) < MaxDeliveries
      /\ nth' = [nth EXCEPT ![k] = @ + 1]
      /\ req' = [req EXCEPT ![k] = rec]
      /\ timers' = IF Armed(k, fate) THEN timers \cup {id} ELSE timers
      /\ overdue' = IF late THEN overdue \cup {id} ELSE overdue
      /\ UNCHANGED <<responders, att, commits, told>>
      /\ ~begun => UNCHANGED <<sent, deliveries, prompts>>
      /\ begun => /\ sent' = [e \in DOMAIN sent \cup {d} |->
                                IF e = d THEN [req |-> k, nth |-> nth[k] + 1, att |-> a]
                                ELSE sent[e]]
                  /\ deliveries' = deliveries \cup {d}
                  /\ prompts' = [prompts EXCEPT ![a] = @ \cup {d}]
    BY Zenon DEF MakeRequest
<1>2. /\ fate \in {"expired", "failed", "waiting", "delivered"}
      /\ fate \in Pending => a # None /\ att[a].scope = s
      /\ fate = "waiting" => ~att[a].acked
      /\ fate = "delivered" => m \in att[a].methods /\ ~att[a].broken
    BY FateFacts DEF Pending
<1>3. /\ a \in Attachment \cup {None} /\ nth[k] \in 0..MaxUses
      /\ begun <=> fate = "delivered"
    BY <1>2, Fields DEF Inv, Pending
<1>4. nth[k] + 1 \in 1..MaxUses /\ nth[k] + 1 # 0 /\ d \in Delivery
    BY <1>1, <1>3, NextId, RequestsAssumption, SMT DEF Delivery
<1>5. /\ d \notin DOMAIN sent /\ d # 0
      /\ \E n \in 0..MaxDeliveries : DOMAIN sent \cup {d} = 1..n
    BY <1>4, OneMore
<1>6. dl \in 0..MaxDeliveries
    BY <1>4, RequestsAssumption, SMT DEF Delivery
<1>. HIDE DEF fate, d
<1>7. rec \in ReqRec
    BY <1>2, <1>6, NewRequest
<1>8. /\ rec.state = fate /\ rec.owner = r /\ rec.scope = s /\ rec.method = m /\ rec.dl = dl
    OBVIOUS
<1>9. begun => dl = d
    OBVIOUS
<1>. HIDE DEF rec, dl
<1>10. /\ req \in [Request -> ReqRec] /\ nth \in [Request -> 0..MaxUses]
       /\ timers \subseteq Request \X (1..MaxUses) /\ overdue \subseteq Request \X (1..MaxUses)
       /\ prompts \in [Attachment -> SUBSET Delivery]
    BY DEF Inv, TypeOK, ReqRec
<1>11. /\ req' \in [Request -> ReqRec] /\ req'[k] = rec
       /\ \A j \in Request : j # k => req'[j] = req[j]
    BY <1>1, <1>7, <1>10
<1>12. /\ nth' \in [Request -> 0..MaxUses] /\ nth'[k] = nth[k] + 1
       /\ \A j \in Request : j # k => nth'[j] = nth[j]
    BY <1>1, <1>4, <1>10, RequestsAssumption, SMT
<1>13. pending' = IF fate \in Pending THEN pending \cup {k} ELSE pending
    BY <1>8, <1>11, <1>1 DEF pending
<1>14. /\ timers' \subseteq Request \X (1..MaxUses)
       /\ overdue' \subseteq Request \X (1..MaxUses)
    BY <1>1, <1>4, <1>10
<1>15. /\ DOMAIN sent' = IF begun THEN DOMAIN sent \cup {d} ELSE DOMAIN sent
       /\ \A e \in DOMAIN sent : sent'[e] = sent[e]
       /\ begun => sent'[d] = [req |-> k, nth |-> nth[k] + 1, att |-> a]
    BY <1>1, <1>5
<1>16. begun => Begins(a, {d}, {})
  <2>. SUFFICES ASSUME begun PROVE Begins(a, {d}, {})
      OBVIOUS
  <2>1. a \in Attachment /\ {d} \cap DOMAIN sent = {}
      BY <1>3, <1>5
  <2>2. sent'[d] \in SentRec /\ sent'[d].att = a
      BY <1>4, <1>15, <2>1 DEF SentRec
  <2>3. /\ prompts' \in [Attachment -> SUBSET Delivery]
        /\ \A b \in Attachment : prompts'[b] = prompts[b] \cup (IF b = a THEN {d} ELSE {})
      BY <1>1, <1>4, <1>10, <2>1
  <2>4. deliveries' = (deliveries \ {}) \cup {d}
      BY <1>1
  <2>. QED  BY <1>15, <2>1, <2>2, <2>3, <2>4 DEF Begins
<1>17. /\ \A e \in DOMAIN sent' : sent'[e] \in SentRec
       /\ deliveries' \subseteq DOMAIN sent'
       /\ Shown' /\ NoOrphanPrompt'
       /\ prompts' \in [Attachment -> SUBSET Delivery]
  <2>1. CASE begun
    <3>1. a \in Attachment /\ Begins(a, {d}, {})
        BY <1>3, <1>16, <2>1
    <3>2. \A b \in Attachment : att'[b].broken = att[b].broken
        BY <1>1
    <3>. HIDE DEF a
    <3>3. prompts' \in [Attachment -> SUBSET Delivery]
        BY <3>1, Zenon DEF Begins
    <3>. QED  BY <3>1, <3>2, <3>3, BegunIsShown
  <2>2. CASE ~begun
      BY <1>1, <1>10, <2>2, Fields DEF Inv, Shown, NoOrphanPrompt, TypeOK
  <2>. QED  BY <2>1, <2>2
<1>18. Numbered'
  <2>1. CASE begun
      BY <1>5, <1>15, <2>1 DEF Numbered
  <2>2. CASE ~begun
      BY <1>1, <2>2 DEF Inv, Numbered
  <2>. QED  BY <2>1, <2>2
<1>19. Live'
  <2>. SUFFICES ASSUME NEW j \in pending' PROVE Served(j)'
      BY DEF Live
  <2>1. CASE j = k
    <3>1. fate \in Pending
        BY <1>1, <1>13, <2>1
    <3>2. /\ req'[j].state = fate /\ req'[j].owner = r /\ req'[j].scope = s
          /\ req'[j].method = m /\ req'[j].dl = dl
        BY <1>8, <1>11, <2>1
    <3>3. /\ responders'[req'[j].owner] = a /\ att' = att /\ nth'[j] = nth[k] + 1
        BY <1>1, <1>12, <2>1, <3>2
    <3>4. fate = "delivered" => /\ dl \in DOMAIN sent'
                                /\ sent'[dl] = [req |-> j, nth |-> nth'[j], att |-> a]
        BY <1>3, <1>9, <1>15, <2>1, <3>3
    <3>. HIDE DEF a
    <3>. QED  BY <1>2, <1>4, <3>1, <3>2, <3>3, <3>4, Zenon DEF Served
  <2>2. CASE j # k
    <3>1. j \in pending /\ j \in Request
        BY <1>13, <2>2 DEF pending
    <3>2. Served(j) /\ req'[j] = req[j] /\ nth'[j] = nth[j]
        BY <1>11, <1>12, <2>2, <3>1, PendingFacts
    <3>3. \A e \in DOMAIN sent : e \in DOMAIN sent' /\ sent'[e] = sent[e]
        BY <1>15
    <3>. QED  BY <1>1, <3>2, <3>3 DEF Served
  <2>. QED  BY <2>1, <2>2
<1>20. Mapped'
  <2>1. \A j \in pending : req'[j] = req[j] /\ j # k
      BY <1>1, <1>11 DEF pending
  <2>2. DeliveriesOf(pending)' = DeliveriesOf(pending) \cup (IF begun THEN {d} ELSE {})
    <3>1. CASE begun
      <4>1. pending' = pending \cup {k} /\ req'[k].state = "delivered" /\ req'[k].dl = d
          BY <1>3, <1>8, <1>9, <1>11, <1>13, <3>1 DEF Pending
      <4>. QED  BY <2>1, <3>1, <4>1 DEF DeliveriesOf
    <3>2. CASE ~begun
      <4>1. pending' \subseteq pending \cup {k} /\ pending \subseteq pending' /\ req'[k].state # "delivered"
          BY <1>3, <1>8, <1>11, <1>13, <3>2
      <4>. QED  BY <2>1, <3>2, <4>1 DEF DeliveriesOf
    <3>. QED  BY <3>1, <3>2
  <2>. QED  BY <1>1, <2>2 DEF Inv, Mapped
<1>21. TimersExact'
  <2>1. timers = {<<j, nth[j]>> : j \in pending \cap Timed}
      BY DEF Inv, TimersExact
  <2>2. \A j \in pending : nth'[j] = nth[j]
      BY <1>1, <1>12 DEF pending
  <2>3. CASE Armed(k, fate)
    <3>1. pending' \cap Timed = (pending \cap Timed) \cup {k} /\ timers' = timers \cup {<<k, nth'[k]>>}
        BY <1>1, <1>12, <1>13, <2>3 DEF Armed
    <3>. QED  BY <2>1, <2>2, <3>1 DEF TimersExact
  <2>4. CASE ~Armed(k, fate)
    <3>1. pending' \cap Timed = pending \cap Timed /\ timers' = timers
        BY <1>1, <1>13, <2>4 DEF Armed
    <3>. QED  BY <2>1, <2>2, <3>1 DEF TimersExact
  <2>. QED  BY <2>3, <2>4
<1>22. \A j \in Request : req'[j].state = "waiting" => req'[j].dl = 0
  <2>1. fate = "waiting" => dl = 0
      BY <1>3 DEF dl
  <2>. QED  BY <1>8, <1>11, <2>1 DEF Inv, TypeOK
<1>23. Attached' /\ AckedMeansTold'
    BY <1>1 DEF Inv, Attached, AckedMeansTold
<1>24. DOMAIN sent' \subseteq Delivery
    BY <1>4, <1>15 DEF Inv, TypeOK
<1>25. TypeOK'
  <2>1. /\ responders' \in [Responder -> Attachment \cup {None}]
        /\ att' \in [Attachment -> AttRec]
        /\ commits' \subseteq Attachment \X (1..MaxEpoch)
        /\ told' \in [Attachment -> SUBSET (0..MaxEpoch)]
      BY <1>1 DEF Inv, TypeOK, AttRec
  <2>. QED  BY <1>11, <1>12, <1>14, <1>17, <1>22, <1>24, <2>1 DEF TypeOK, AttRec, ReqRec, SentRec
<1>. QED  BY <1>17, <1>18, <1>19, <1>20, <1>21, <1>23, <1>25 DEF Inv

\* redeliver: the interaction has a new delivery in place of the old one, or
\* fails with it when the connection is broken.
LEMMA RedeliverKeeps ==
    ASSUME Inv, NEW k \in Request, NEW r \in Responder, NEW throws \in BOOLEAN,
           Redeliver(k, r, throws)
    PROVE  Inv'
<1>. DEFINE a == responders[r]
            d == Cardinality(DOMAIN sent) + 1
            old == req[k].dl
<1>1. /\ k \in pending /\ a # None /\ req[k].owner = r /\ req[k].state = "delivered"
      /\ d \in Delivery
      /\ sent' = [e \in DOMAIN sent \cup {d} |->
                     IF e = d THEN [req |-> k, nth |-> nth[k], att |-> a] ELSE sent[e]]
      /\ UNCHANGED <<responders, att, nth, overdue, commits, told>>
    BY DEF Redeliver
<1>2. /\ d \notin DOMAIN sent /\ d # 0
      /\ \E n \in 0..MaxDeliveries : DOMAIN sent \cup {d} = 1..n
    BY <1>1, OneMore
<1>3. /\ a \in Attachment /\ nth[k] \in 1..MaxUses /\ Served(k)
    BY <1>1, PendingFacts
<1>4. DeliveriesOf({k}) = {old}
    BY <1>1 DEF DeliveriesOf
<1>. HIDE DEF d, old
<1>5. /\ DOMAIN sent' = DOMAIN sent \cup {d}
      /\ \A e \in DOMAIN sent : sent'[e] = sent[e]
      /\ sent'[d] = [req |-> k, nth |-> nth[k], att |-> a]
    BY <1>1, <1>2
<1>6. Recorded
  <2>1. sent'[d] \in SentRec
      BY <1>3, <1>5 DEF SentRec
  <2>. QED  BY <1>2, <1>5, <2>1, Fields DEF Recorded, Inv
<1>7. Connected /\ \A j \in pending : Kept(j)
    BY <1>1, SameConnections
<1>8. CASE att[a].broken \/ throws
  <2>1. SettleAndWithdraw({k}, "failed")
      BY <1>8 DEF Redeliver
  <2>2. {k} \in SUBSET pending /\ "failed" \in Settled
      BY <1>1 DEF Settled
  <2>3. Settles({k})
      BY <2>1, <2>2, SettleDoes DEF SettleAndWithdraw
  <2>4. Withdraws({k})
      BY <1>1, <2>1, <2>2, WithdrawnDoes DEF SettleAndWithdraw
  <2>. QED  BY <1>1, <1>6, <1>7, <2>2, <2>3, <2>4, SettlingKeeps
<1>9. CASE ~(att[a].broken \/ throws)
  <2>1. /\ req' = [req EXCEPT ![k].dl = d]
        /\ deliveries' = (deliveries \ {old}) \cup {d}
        /\ prompts' = [Withdrawn({old}) EXCEPT ![a] = @ \cup {d}]
        /\ UNCHANGED timers
      BY <1>9 DEF Redeliver, d, old
  <2>2. req \in [Request -> ReqRec] /\ d \in 0..MaxDeliveries
      BY <1>1, RequestsAssumption, SMT DEF Inv, TypeOK, ReqRec, Delivery
  <2>3. /\ req' \in [Request -> ReqRec]
        /\ \A j \in Request : j # k => req'[j] = req[j]
        /\ req'[k].state = req[k].state /\ req'[k].owner = req[k].owner
        /\ req'[k].scope = req[k].scope /\ req'[k].method = req[k].method
        /\ req'[k].dl = d
      BY <2>1, <2>2 DEF ReqRec
  <2>4. pending' = pending
      BY <2>3 DEF pending
  <2>5. /\ prompts' \in [Attachment -> SUBSET Delivery]
        /\ \A b \in Attachment :
              prompts'[b] = (IF att[b].broken THEN prompts[b] ELSE prompts[b] \ {old})
                                \cup (IF b = a THEN {d} ELSE {})
    <3>1. prompts \in [Attachment -> SUBSET Delivery]
        BY DEF Inv, TypeOK
    <3>2. /\ Withdrawn({old}) \in [Attachment -> SUBSET Delivery]
          /\ \A b \in Attachment : Withdrawn({old})[b] =
                IF att[b].broken THEN prompts[b] ELSE prompts[b] \ {old}
        BY <3>1 DEF Withdrawn
    <3>. QED  BY <1>1, <1>3, <2>1, <3>2
  <2>6. Begins(a, {d}, {old})
    <3>1. sent'[d] \in SentRec /\ sent'[d].att = a
        BY <1>3, <1>5 DEF SentRec
    <3>. QED  BY <1>2, <1>5, <2>1, <2>5, <3>1 DEF Begins
  <2>7. /\ \A e \in DOMAIN sent' : sent'[e] \in SentRec
        /\ deliveries' \subseteq DOMAIN sent'
        /\ Shown' /\ NoOrphanPrompt'
    <3>1. \A b \in Attachment : att'[b].broken = att[b].broken
        BY <1>1
    <3>. HIDE DEF a
    <3>. QED  BY <1>3, <2>6, <3>1, BegunIsShown
  <2>8. Live'
    <3>. SUFFICES ASSUME NEW j \in pending PROVE Served(j)'
        BY <2>4 DEF Live
    <3>1. Served(j) /\ j \in Request
        BY PendingFacts
    <3>2. CASE j = k
        BY <1>1, <1>3, <1>5, <2>3, <3>2 DEF Served
    <3>3. CASE j # k
        BY <1>1, <1>5, <2>3, <3>1, <3>3 DEF Served
    <3>. QED  BY <3>2, <3>3
  <2>9. Mapped'
    <3>1. \A j \in pending : (j # k /\ req[j].state = "delivered") => req[j].dl # old
        BY <1>1, OwnDeliveries DEF old
    <3>2. \A j \in pending : j # k => req'[j] = req[j]
        BY <2>3 DEF pending
    <3>3. req'[k].state = "delivered" /\ req'[k].dl = d /\ req[k].dl = old
        BY <1>1, <2>3 DEF old
    <3>4. DeliveriesOf(pending)' = (DeliveriesOf(pending) \ {old}) \cup {d}
        BY <1>1, <2>4, <3>1, <3>2, <3>3 DEF DeliveriesOf
    <3>. QED  BY <2>1, <3>4 DEF Inv, Mapped
  <2>10. TimersExact' /\ Numbered' /\ Attached' /\ AckedMeansTold'
      BY <1>1, <1>6, <1>7, <2>1, <2>4 DEF Inv, TimersExact, Numbered, Recorded, Connected
  <2>11. TypeOK'
    <3>1. \A j \in Request : req'[j].state = "waiting" => req'[j].dl = 0
        BY <1>1, <2>3 DEF Inv, TypeOK
    <3>2. DOMAIN sent' \subseteq Delivery
        BY <1>1, <1>5 DEF Inv, TypeOK
    <3>3. /\ nth' \in [Request -> 0..MaxUses]
          /\ overdue' \subseteq Request \X (1..MaxUses)
          /\ timers' \subseteq Request \X (1..MaxUses)
        BY <1>1, <2>1 DEF Inv, TypeOK
    <3>. QED  BY <1>7, <2>3, <2>5, <2>7, <3>1, <3>2, <3>3
              DEF TypeOK, AttRec, ReqRec, SentRec, Connected
  <2>. QED  BY <2>7, <2>8, <2>9, <2>10, <2>11 DEF Inv
<1>. QED  BY <1>8, <1>9

-----------------------------------------------------------------------------
(* The commit of a capability set.                                         *)

\* As many ids as interactions: when no two share one, each id is used.
LEMMA AllIds ==
    ASSUME NEW S, IsFiniteSet(S), NEW n \in Nat,
           NEW id \in [S -> (n + 1)..(n + Cardinality(S))],
           \A j, k \in S : id[j] = id[k] => j = k
    PROVE  \A d \in (n + 1)..(n + Cardinality(S)) : \E k \in S : id[k] = d
<1>. DEFINE T == (n + 1)..(n + Cardinality(S))
<1>1. Cardinality(S) \in Nat
    BY FS_CardinalityType
<1>2. IsFiniteSet(T) /\ Cardinality(T) = Cardinality(S)
    BY <1>1, FS_Interval, SMTT(30)
<1>3. id \in Injection(S, T)
    BY DEF Injection, IsInjective
<1>. HIDE DEF T
<1>4. id \in Surjection(S, T)
    BY <1>2, <1>3, FS_Injection
<1>5. \A d \in T : \E k \in S : id[k] = d
    BY <1>4 DEF Surjection
<1>. QED  BY <1>5 DEF T

\* The set was acknowledged: what waited for it is delivered, or ends.
Commit(a, go, new, id) ==
    /\ go \subseteq WaitingFor(a)
    /\ new \cap DOMAIN sent = {} /\ id \in [go -> new]
    /\ \A d \in new : \E k \in go : id[k] = d
    /\ req' \in [Request -> ReqRec]
    /\ \A k \in Request \ WaitingFor(a) : req'[k] = req[k]
    /\ \A k \in WaitingFor(a) \ go : req'[k].state \in {"expired", "failed"}
    /\ \A k \in go : /\ req'[k].state = "delivered" /\ req'[k].dl = id[k]
                     /\ req'[k].owner = req[k].owner
                     /\ req'[k].scope = req[k].scope /\ req'[k].method = req[k].method
                     /\ req[k].method \in att[a].methods
                     /\ sent'[id[k]] = [req |-> k, nth |-> nth[k], att |-> a]
    /\ Begins(a, new, {})
    /\ \E n \in 0..MaxDeliveries : DOMAIN sent' = 1..n

\* What waits for an attachment is in the map, without a delivery.
LEMMA WaitingFacts ==
    ASSUME Inv, NEW a \in Attachment, Bound(a), NEW k \in WaitingFor(a)
    PROVE  /\ k \in pending /\ k \in Request
           /\ req[k].state = "waiting" /\ req[k].dl = 0
           /\ responders[req[k].owner] = a
           /\ nth[k] \in 1..MaxUses
           /\ Served(k)
<1>1. k \in pending /\ req[k].state = "waiting" /\ req[k].owner = att[a].owner
    BY DEF WaitingFor
<1>. QED  BY <1>1, BoundFacts, PendingFacts

\* The record of an interaction that a commit handed to deliver.
Handed(x, f, d) == [x EXCEPT !.state = f, !.dl = d]

\* Its fields.
LEMMA HandedParts ==
    ASSUME NEW x \in ReqRec, NEW f \in {"expired", "failed", "delivered"},
           NEW d \in 0..MaxDeliveries
    PROVE  /\ Handed(x, f, d) \in ReqRec
           /\ Handed(x, f, d).state = f /\ Handed(x, f, d).dl = d
           /\ Handed(x, f, d).owner = x.owner /\ Handed(x, f, d).scope = x.scope
           /\ Handed(x, f, d).method = x.method
BY DEF Handed, ReqRec, Pending, Settled

\* The step does that.
LEMMA CommitDoes ==
    ASSUME Inv, NEW a \in Attachment, NEW e \in 1..MaxEpoch,
           NEW lost \in SUBSET Request, ResponseWritten(a, e, lost), Commits(a, e)
    PROVE  \E go, new, id :
               /\ Commit(a, go, new, id)
               /\ timers' = {t \in timers : t[1] \notin WaitingFor(a) \ go}
<1>. DEFINE W   == WaitingFor(a)
            go  == {k \in W : CommitFate(k, a, lost) = "delivered"}
            n   == Cardinality(DOMAIN sent)
            new == (n + 1)..(n + Cardinality(go))
<1>1. Bound(a)
    BY DEF Commits
<1>2. PICK id \in [go -> new] :
          /\ n + Cardinality(go) <= MaxDeliveries
          /\ \A j, k \in go : id[j] = id[k] => j = k
          /\ req' = [k \in Request |->
                       IF k \notin W THEN req[k]
                       ELSE [req[k] EXCEPT !.state = CommitFate(k, a, lost),
                                           !.dl = IF k \in go THEN id[k] ELSE @]]
          /\ sent' = [d \in DOMAIN sent \cup new |->
                        IF d \in DOMAIN sent THEN sent[d]
                        ELSE LET k == CHOOSE j \in go : id[j] = d
                             IN  [req |-> k, nth |-> nth[k], att |-> a]]
          /\ deliveries' = deliveries \cup new
          /\ prompts' = [prompts EXCEPT ![a] = @ \cup new]
          /\ timers' = {t \in timers : t[1] \notin W \ go}
    BY Zenon DEF ResponseWritten
<1>3. /\ \A k \in W : CommitFate(k, a, lost) \in {"expired", "failed", "delivered"}
      /\ \A k \in go : req[k].method \in att[a].methods
    BY DEF CommitFate
<1>4. W \subseteq Request /\ W \subseteq pending
    BY DEF WaitingFor, pending
<1>5. IsFiniteSet(go) /\ Cardinality(go) \in Nat
    BY <1>4, RequestsAssumption, FS_Subset, FS_CardinalityType
<1>6. n \in Nat /\ DOMAIN sent = 1..n
    BY NextId, SMT
<1>7. \A k \in W \ go : CommitFate(k, a, lost) # "delivered"
    OBVIOUS
<1>8. \A k \in go : CommitFate(k, a, lost) = "delivered" /\ k \in W
    OBVIOUS
<1>. HIDE DEF go, n, W
<1>9. \A d \in new : \E k \in go : id[k] = d
    BY <1>2, <1>5, <1>6, AllIds
<1>10. /\ new \subseteq Delivery /\ new \cap DOMAIN sent = {} /\ new \subseteq 0..MaxDeliveries
       /\ DOMAIN sent \cup new = 1..(n + Cardinality(go))
       /\ n + Cardinality(go) \in 0..MaxDeliveries
  <2>. DEFINE c == Cardinality(go)
  <2>1. n + c <= MaxDeliveries
      BY <1>2
  <2>2. c \in Nat /\ n \in Nat /\ DOMAIN sent = 1..n /\ MaxDeliveries \in Nat
      BY <1>5, <1>6, RequestsAssumption
  <2>. HIDE DEF c
  <2>3. /\ (n + 1)..(n + c) \subseteq 1..MaxDeliveries
        /\ (n + 1)..(n + c) \cap 1..n = {}
        /\ (n + 1)..(n + c) \subseteq 0..MaxDeliveries
        /\ 1..n \cup (n + 1)..(n + c) = 1..(n + c)
        /\ n + c \in 0..MaxDeliveries
      BY <2>1, <2>2, SMT
  <2>. QED  BY <2>2, <2>3 DEF Delivery, c
<1>. HIDE DEF new
<1>11. \A k \in Request : req[k] \in ReqRec
    BY Fields DEF Inv
<1>12. ASSUME NEW k \in W
       PROVE  /\ req'[k] \in ReqRec /\ req'[k].state = CommitFate(k, a, lost)
              /\ req'[k].dl = IF k \in go THEN id[k] ELSE 0
              /\ req'[k].owner = req[k].owner /\ req'[k].scope = req[k].scope
              /\ req'[k].method = req[k].method
  <2>1. req[k] \in ReqRec /\ req[k].dl = 0 /\ 0 \in 0..MaxDeliveries
      BY <1>1, <1>4, <1>11, WaitingFacts, RequestsAssumption, SMT DEF W
  <2>2. PICK d \in 0..MaxDeliveries : d = IF k \in go THEN id[k] ELSE req[k].dl
      BY <1>2, <1>10, <2>1
  <2>3. req'[k] = Handed(req[k], CommitFate(k, a, lost), d)
      BY <1>2, <1>4, <2>2 DEF Handed
  <2>4. CommitFate(k, a, lost) \in {"expired", "failed", "delivered"}
      BY <1>3
  <2>5. d \in 0..MaxDeliveries /\ req[k] \in ReqRec
      BY <2>1, <2>2
  <2>6. /\ req'[k] \in ReqRec
        /\ req'[k].state = CommitFate(k, a, lost) /\ req'[k].dl = d
        /\ req'[k].owner = req[k].owner /\ req'[k].scope = req[k].scope
        /\ req'[k].method = req[k].method
      BY <2>3, <2>4, <2>5, HandedParts, SMTT(30)
  <2>7. req'[k].dl = IF k \in go THEN id[k] ELSE 0
      BY <2>1, <2>2, <2>6
  <2>. QED  BY <2>6, <2>7
<1>13. \A k \in Request \ W : req'[k] = req[k]
    BY <1>2
<1>14. req' \in [Request -> ReqRec]
  <2>1. req' = [k \in Request |-> req'[k]]
      BY <1>2
  <2>2. \A k \in Request : req'[k] \in ReqRec
      BY <1>11, <1>12, <1>13
  <2>. QED  BY <2>1, <2>2
<1>15. \A k \in W \ go : req'[k].state \in {"expired", "failed"}
    BY <1>3, <1>7, <1>12
<1>16. ASSUME NEW k \in go
       PROVE  sent'[id[k]] = [req |-> k, nth |-> nth[k], att |-> a]
  <2>1. id[k] \in new /\ id[k] \notin DOMAIN sent
      BY <1>2, <1>10
  <2>2. (CHOOSE j \in go : id[j] = id[k]) = k
      BY <1>2
  <2>. QED  BY <1>2, <2>1, <2>2
<1>17. \A k \in go : /\ req'[k].state = "delivered" /\ req'[k].dl = id[k]
                     /\ req'[k].owner = req[k].owner
                     /\ req'[k].scope = req[k].scope /\ req'[k].method = req[k].method
                     /\ req[k].method \in att[a].methods
                     /\ sent'[id[k]] = [req |-> k, nth |-> nth[k], att |-> a]
    BY <1>3, <1>8, <1>12, <1>16
<1>18. DOMAIN sent' = DOMAIN sent \cup new /\ \A d \in DOMAIN sent : sent'[d] = sent[d]
    BY <1>2
<1>19. Begins(a, new, {})
  <2>1. ASSUME NEW d \in new
        PROVE  sent'[d] \in SentRec /\ sent'[d].att = a
    <3>1. PICK k \in go : id[k] = d
        BY <1>9
    <3>2. k \in Request /\ nth[k] \in 1..MaxUses
        BY <1>1, <1>8, WaitingFacts DEF W
    <3>3. sent'[d] = [req |-> k, nth |-> nth[k], att |-> a]
        BY <1>16, <3>1
    <3>. QED  BY <3>2, <3>3 DEF SentRec
  <2>2. /\ prompts' \in [Attachment -> SUBSET Delivery]
        /\ \A b \in Attachment : prompts'[b] = prompts[b] \cup (IF b = a THEN new ELSE {})
    <3>1. prompts \in [Attachment -> SUBSET Delivery]
        BY DEF Inv, TypeOK
    <3>. QED  BY <1>2, <1>10, <3>1
  <2>3. \A b \in Attachment :
            prompts'[b] = (IF att[b].broken THEN prompts[b] ELSE prompts[b] \ {})
                              \cup (IF b = a THEN new ELSE {})
      BY <2>2
  <2>4. deliveries' = (deliveries \ {}) \cup new
      BY <1>2
  <2>. QED  BY <1>10, <1>18, <2>1, <2>2, <2>3, <2>4 DEF Begins
<1>20. \E i \in 0..MaxDeliveries : DOMAIN sent' = 1..i
    BY <1>10, <1>18
<1>21. Commit(a, go, new, id)
    BY <1>2, <1>8, <1>9, <1>10, <1>13, <1>14, <1>15, <1>17, <1>19, <1>20 DEF Commit, W
<1>. QED  BY <1>2, <1>21 DEF W

\* After a commit the map holds what was there and did not end, and what
\* waited for the set has a delivery.
LEMMA CommitKeepsRequests ==
    ASSUME Inv, NEW a \in Attachment, Bound(a), NEW go, NEW new, NEW id,
           Commit(a, go, new, id),
           timers' = {t \in timers : t[1] \notin WaitingFor(a) \ go},
           UNCHANGED <<responders, nth>>,
           \A b \in Attachment : /\ att'[b].scope = att[b].scope
                                 /\ att'[b].methods = att[b].methods
                                 /\ b # a => att'[b].acked = att[b].acked
    PROVE  Live' /\ Mapped' /\ TimersExact'
<1>. DEFINE W == WaitingFor(a)
<1>1. /\ go \subseteq W /\ W \subseteq pending /\ W \subseteq Request /\ pending \subseteq Request
      /\ \A k \in W : req[k].state = "waiting"
    BY DEF Commit, WaitingFor, pending
<1>2. /\ \A k \in Request \ W : req'[k] = req[k]
      /\ \A k \in W \ go : req'[k].state \in {"expired", "failed"}
      /\ \A k \in go : req'[k].state = "delivered" /\ req'[k].dl = id[k]
    BY DEF Commit
<1>. HIDE DEF W
<1>3. pending' = (pending \ W) \cup go
  <2>1. \A k \in W \ go : req'[k].state \notin Pending
      BY <1>2 DEF Settled, Pending
  <2>2. \A k \in go : req'[k].state \in Pending
      BY <1>2 DEF Pending
  <2>. QED  BY <1>1, <1>2, <2>1, <2>2 DEF pending
<1>4. Live'
  <2>. SUFFICES ASSUME NEW k \in pending' PROVE Served(k)'
      BY DEF Live
  <2>1. \A d \in DOMAIN sent : d \in DOMAIN sent' /\ sent'[d] = sent[d]
      BY DEF Commit, Begins
  <2>2. CASE k \in go
    <3>1. /\ responders[req[k].owner] = a /\ Served(k) /\ nth'[k] = nth[k]
          /\ req[k].owner \in Responder /\ att[a].scope = req[k].scope /\ nth[k] # 0
        BY <1>1, <2>2, WaitingFacts DEF Served, W
    <3>2. /\ req'[k].state = "delivered" /\ req'[k].dl = id[k]
          /\ req'[k].owner = req[k].owner
          /\ req'[k].scope = req[k].scope /\ req'[k].method = req[k].method
          /\ req[k].method \in att[a].methods
          /\ sent'[id[k]] = [req |-> k, nth |-> nth[k], att |-> a]
        BY <2>2 DEF Commit
    <3>3. id[k] \in DOMAIN sent'
        BY <2>2 DEF Commit, Begins
    <3>4. a # None /\ att'[a].scope = att[a].scope /\ att'[a].methods = att[a].methods
        BY RequestsAssumption
    <3>. QED  BY <3>1, <3>2, <3>3, <3>4 DEF Served
  <2>3. CASE k \in pending \ W
    <3>1. /\ Served(k) /\ req'[k] = req[k] /\ nth'[k] = nth[k] /\ k \in Request
          /\ responders[req[k].owner] \in Attachment
          /\ responders'[req[k].owner] = responders[req[k].owner]
        BY <1>1, <1>2, <2>3, PendingFacts
    <3>2. req[k].state = "waiting" => responders[req[k].owner] # a
      <4>1. responders[req[k].owner] = a => req[k].owner = att[a].owner
          BY <2>3, BoundFacts
      <4>. QED  BY <2>3, <4>1 DEF W, WaitingFor
    <3>. QED  BY <2>1, <3>1, <3>2 DEF Served
  <2>. QED  BY <1>3, <2>2, <2>3
<1>5. Mapped'
  <2>1. \A k \in pending : req[k].state = "delivered" => k \notin W
      BY <1>1
  <2>2. DeliveriesOf(pending)' = DeliveriesOf(pending) \cup {id[k] : k \in go}
    <3>1. \A k \in pending \ W : req'[k] = req[k]
        BY <1>1, <1>2
    <3>. QED  BY <1>2, <1>3, <2>1, <3>1 DEF DeliveriesOf
  <2>3. {id[k] : k \in go} = new
      BY DEF Commit
  <2>4. deliveries' = deliveries \cup new
      BY DEF Commit, Begins
  <2>. QED  BY <2>2, <2>3, <2>4 DEF Inv, Mapped
<1>6. TimersExact'
  <2>1. timers = {<<k, nth[k]>> : k \in pending \cap Timed}
      BY DEF Inv, TimersExact
  <2>2. timers' = {<<k, nth[k]>> : k \in (pending \ (W \ go)) \cap Timed}
      BY <2>1 DEF W
  <2>3. pending \ (W \ go) = pending'
      BY <1>1, <1>3
  <2>4. timers' = {<<k, nth[k]>> : k \in pending' \cap Timed}
      BY <2>2, <2>3, Zenon
  <2>. QED  BY <2>4, Zenon DEF TimersExact
<1>. QED  BY <1>4, <1>5, <1>6

\* A set that is committed is the one the client was just told of.
LEMMA WrittenKeeps ==
    ASSUME Inv, NEW a \in Attachment, NEW e \in 1..MaxEpoch,
           NEW lost \in SUBSET Request, ResponseWritten(a, e, lost)
    PROVE  Inv'
<1>1. /\ commits' = commits \ {<<a, e>>}
      /\ told' = IF att[a].broken THEN told ELSE [told EXCEPT ![a] = @ \cup {e}]
      /\ UNCHANGED <<responders, nth, overdue>>
    BY DEF ResponseWritten
<1>2. told \in [Attachment -> SUBSET (0..MaxEpoch)] /\ e \in 0..MaxEpoch
    BY RequestsAssumption, SMT DEF Inv, TypeOK
<1>3. /\ told' \in [Attachment -> SUBSET (0..MaxEpoch)]
      /\ \A b \in Attachment : told[b] \subseteq told'[b]
      /\ ~att[a].broken => e \in told'[a]
    BY <1>1, <1>2
<1>4. /\ commits' \subseteq Attachment \X (1..MaxEpoch)
      /\ responders' \in [Responder -> Attachment \cup {None}]
    BY <1>1 DEF Inv, TypeOK
<1>5. CASE ~Commits(a, e)
  <2>1. UNCHANGED <<att, req, sent, deliveries, prompts, timers>>
      BY <1>5 DEF ResponseWritten
  <2>2. Attached' /\ AckedMeansTold'
      BY <1>1, <1>3, <2>1 DEF Inv, Attached, AckedMeansTold
  <2>3. Connected
      BY <1>3, <1>4, <2>1, <2>2 DEF Connected, Inv, TypeOK, AttRec
  <2>4. \A k \in pending : Kept(k)
      BY <1>1, <2>1 DEF Kept
  <2>. QED  BY <1>1, <2>1, <2>3, <2>4, EndsNothing
<1>6. CASE Commits(a, e)
  <2>1. PICK go, new, id : /\ Commit(a, go, new, id)
                           /\ timers' = {t \in timers : t[1] \notin WaitingFor(a) \ go}
      BY <1>6, CommitDoes
  <2>2. Bound(a) /\ ~att[a].broken /\ att[a].epoch = e
      BY <1>6 DEF Commits
  <2>3. att' = [att EXCEPT ![a].acked = TRUE] /\ att \in [Attachment -> AttRec]
      BY <1>6 DEF ResponseWritten, Inv, TypeOK, AttRec
  <2>4. /\ att' \in [Attachment -> AttRec]
        /\ \A b \in Attachment :
              /\ att'[b].owner = att[b].owner /\ att'[b].scope = att[b].scope
              /\ att'[b].epoch = att[b].epoch /\ att'[b].methods = att[b].methods
              /\ att'[b].broken = att[b].broken
              /\ b # a => att'[b].acked = att[b].acked
      BY <2>3 DEF AttRec
  <2>5. Begins(a, new, {})
      BY <2>1 DEF Commit
  <2>6. /\ \A d \in DOMAIN sent' : sent'[d] \in SentRec
        /\ deliveries' \subseteq DOMAIN sent'
        /\ Shown' /\ NoOrphanPrompt'
      BY <2>4, <2>5, BegunIsShown
  <2>7. Live' /\ Mapped' /\ TimersExact'
      BY <1>1, <2>1, <2>2, <2>4, CommitKeepsRequests
  <2>8. Numbered' /\ req' \in [Request -> ReqRec]
      BY <2>1 DEF Commit, Numbered
  <2>9. Attached'
      BY <1>1, <2>4, Fields DEF Inv, Attached
  <2>10. AckedMeansTold'
      BY <1>3, <2>2, <2>4 DEF Inv, AckedMeansTold
  <2>11. \A k \in Request : req'[k].state = "waiting" => req'[k].dl = 0
    <3>1. \A k \in WaitingFor(a) : req'[k].state # "waiting"
        BY <2>1 DEF Commit, Settled
    <3>. QED  BY <2>1, <3>1 DEF Commit, Inv, TypeOK
  <2>12. DOMAIN sent' \subseteq Delivery
      BY <2>8, RequestsAssumption, SMT DEF Numbered, Delivery
  <2>13. /\ nth' \in [Request -> 0..MaxUses]
         /\ overdue' \subseteq Request \X (1..MaxUses)
         /\ timers' \subseteq Request \X (1..MaxUses)
         /\ prompts' \in [Attachment -> SUBSET Delivery]
      BY <1>1, <2>1, <2>5 DEF Inv, TypeOK, Begins
  <2>14. TypeOK'
      BY <1>3, <1>4, <2>4, <2>6, <2>8, <2>11, <2>12, <2>13 DEF TypeOK, AttRec, ReqRec, SentRec
  <2>. QED  BY <2>6, <2>7, <2>8, <2>9, <2>10, <2>14 DEF Inv
<1>. QED  BY <1>5, <1>6

-----------------------------------------------------------------------------
(* The invariant.                                                          *)

\* At first nothing is attached and nothing is asked.
LEMMA InitInv == Init => Inv
<1>. SUFFICES ASSUME Init PROVE Inv
    OBVIOUS
<1>1. pending = {}
    BY DEF Init, pending, NoRequest, Pending
<1>2. DOMAIN sent = {} /\ DOMAIN sent = 1..0
    BY DEF Init
<1>3. TypeOK
  <2>1. 0 \in 0..MaxUses /\ 0 \in 0..MaxDeliveries /\ 0 \in 0..MaxEpoch
      BY RequestsAssumption, SMT
  <2>2. /\ responders \in [Responder -> Attachment \cup {None}]
        /\ nth \in [Request -> 0..MaxUses]
        /\ told \in [Attachment -> SUBSET (0..MaxEpoch)]
        /\ prompts \in [Attachment -> SUBSET Delivery]
        /\ deliveries = {} /\ timers = {} /\ overdue = {} /\ commits = {}
      BY <2>1 DEF Init
  <2>3. att \in [Attachment -> AttRec]
      BY <2>1 DEF Init, AttRec
  <2>4. /\ req \in [Request -> ReqRec]
        /\ \A k \in Request : req[k].state = "waiting" => req[k].dl = 0
      BY <2>1 DEF Init, ReqRec, NoRequest
  <2>. QED  BY <1>2, <2>2, <2>3, <2>4 DEF TypeOK, AttRec, ReqRec
<1>4. Numbered
    BY <1>2, RequestsAssumption, SMT DEF Numbered
<1>5. Attached /\ Live /\ AckedMeansTold
    BY <1>1 DEF Init, Attached, Live, AckedMeansTold
<1>6. Mapped /\ TimersExact
    BY <1>1 DEF Init, Mapped, TimersExact, DeliveriesOf
<1>7. Shown /\ NoOrphanPrompt
    BY DEF Init, Shown, NoOrphanPrompt
<1>. QED  BY <1>3, <1>4, <1>5, <1>6, <1>7 DEF Inv

\* Every step keeps it: one lemma per kind of step.
LEMMA NextInv == Inv /\ [Next]_vars => Inv'
<1>. SUFFICES ASSUME Inv, [Next]_vars PROVE Inv'
    OBVIOUS
<1>1. ASSUME NEW r \in Responder, NEW a \in Attachment, NEW s \in Scope,
             NEW n \in BOOLEAN, AttachResponder(r, a, s, n)
      PROVE  Inv'
    BY <1>1, AttachKeeps
<1>2. ASSUME NEW a \in Attachment, DetachResponder(a)
      PROVE  Inv'
    BY <1>2, DetachKeeps
<1>3. ASSUME NEW a \in Attachment, HandleNullResponse(a)
      PROVE  Inv'
    BY <1>3, NullKeeps
<1>4. ASSUME NEW a \in Attachment, TransportBreaks(a)
      PROVE  Inv'
    BY <1>4, BreakKeeps
<1>5. ASSUME NEW a \in Attachment, NEW ms \in SUBSET Method, SetServerRequestMethods(a, ms)
      PROVE  Inv'
    BY <1>5, SetMethodsKeeps
<1>6. ASSUME NEW a \in Attachment, NEW e \in 1..MaxEpoch,
           NEW lost \in SUBSET Request, ResponseWritten(a, e, lost)
      PROVE  Inv'
    BY <1>6, WrittenKeeps
<1>7. ASSUME NEW a \in Attachment, NEW d \in DOMAIN sent, NEW ok \in BOOLEAN,
             HandleResponse(a, d, ok)
      PROVE  Inv'
    BY <1>7, AnswerKeeps
<1>8. ASSUME NEW k \in Request, Cancel(k)
      PROVE  Inv'
  <2>1. {k} \in SUBSET pending /\ "cancelled" \in Settled
      BY <1>8 DEF Cancel, Settled
  <2>. QED  BY <1>8, <2>1, EndsKeep DEF Cancel
<1>9. ASSUME NEW k \in Request, DeadlinePasses(k)
      PROVE  Inv'
    BY <1>9, DeadlineKeeps
<1>10. ASSUME NEW k \in Request, RedeliverOverdue(k)
       PROVE  Inv'
  <2>1. {k} \in SUBSET pending /\ "expired" \in Settled
      BY <1>10 DEF RedeliverOverdue, Settled
  <2>. QED  BY <1>10, <2>1, EndsKeep DEF RedeliverOverdue
<1>11. ASSUME NEW k \in Request, NEW r \in Responder, NEW throws \in BOOLEAN,
           Redeliver(k, r, throws)
       PROVE  Inv'
    BY <1>11, RedeliverKeeps
<1>12. ASSUME NEW k \in Request, NEW r \in Responder, NEW s \in Scope,
              NEW m \in Method, NEW late \in BOOLEAN, NEW throws \in BOOLEAN,
           MakeRequest(k, r, s, m, late, throws)
       PROVE  Inv'
    BY <1>12, RequestKeeps
<1>13. ASSUME NEW t \in timers, TimerFires(t)
       PROVE  Inv'
    BY <1>13, TimerKeeps
<1>14. ASSUME CancelAll
       PROVE  Inv'
  <2>1. pending \in SUBSET pending /\ "cancelled" \in Settled
      BY DEF Settled
  <2>2. SettleAndWithdraw(pending, "cancelled")
        /\ UNCHANGED <<responders, att, nth, sent, overdue, commits, told>>
      BY <1>14 DEF CancelAll
  <2>. QED  BY <2>1, <2>2, EndsKeep
<1>15. ASSUME UNCHANGED vars
       PROVE  Inv'
  <2>1. Connected /\ \A k \in pending : Kept(k)
      BY <1>15, SameConnections DEF vars
  <2>. QED  BY <1>15, <2>1, EndsNothing DEF vars
<1>. QED
    BY <1>1, <1>2, <1>3, <1>4, <1>5, <1>6, <1>7, <1>8, <1>9, <1>10, <1>11, <1>12,
       <1>13, <1>14, <1>15, Zenon DEF Next

\* The invariant holds in every reachable state.
LEMMA Invariance == Spec => []Inv
BY InitInv, NextInv, PTL DEF Spec

-----------------------------------------------------------------------------
(* The results.                                                            *)

\* The parts of the invariant that a run checks under one name.
LEMMA InvAgree == Inv => MapsAgree
<1>. SUFFICES ASSUME Inv PROVE MapsAgree
    OBVIOUS
<1>1. ASSUME NEW k \in Request, req[k].state = "delivered"
      PROVE  sent[req[k].dl] = [req |-> k, nth |-> nth[k], att |-> responders[req[k].owner]]
  <2>1. k \in pending
      BY <1>1 DEF pending, Pending
  <2>. QED  BY <1>1, <2>1, PendingFacts DEF Served
<1>. QED  BY <1>1 DEF MapsAgree, DeliveriesExact, Inv, Mapped

\* settle, replaceDelivery and detachResponder leave in the maps exactly the
\* current delivery and the timer of each pending interaction, and a commit
\* acknowledges only a set whose response was written.
THEOREM Agree == Spec => []MapsAgree
BY Invariance, InvAgree, PTL

\* An interaction that waits has somebody to wait for.
LEMMA InvStranded == Inv => NeverStranded
<1>. SUFFICES ASSUME Inv, NEW k \in Request, req[k].state = "waiting"
              PROVE  LET a == responders[req[k].owner]
                     IN  a # None /\ ~att[a].acked /\ att[a].scope = req[k].scope
    BY DEF NeverStranded
<1>1. k \in pending
    BY DEF pending, Pending
<1>. QED  BY <1>1, PendingFacts DEF Served

\* What deliver left waiting for an acknowledgement is reached by the commit of
\* its attachment, whatever detaches, attaches or replaces a set meanwhile.
THEOREM Reached == Spec => []NeverStranded
BY Invariance, InvStranded, PTL

\* However an interaction ends, the client that shows it is told or answered,
\* while its connection works.
THEOREM NothingOrphaned == Spec => []NoOrphanPrompt
<1>1. Inv => NoOrphanPrompt
    BY DEF Inv
<1>. QED  BY <1>1, Invariance, PTL

\* settle gives its outcome to the interactions it is called for.
LEMMA SettleOutcome ==
    ASSUME Inv, NEW K, NEW out \in Settled, Settle(K, out), NEW k \in Request
    PROVE  req'[k] = req[k] \/ req'[k].state = out
<1>1. req[k] \in ReqRec /\ req'[k] = IF k \in K THEN [req[k] EXCEPT !.state = out] ELSE req[k]
    BY Fields DEF Inv, Settle
<1>. QED  BY <1>1, Outcome

\* A step by which an interaction gets a result is an answer to its delivery.
LEMMA ResultIsAnswer ==
    ASSUME Inv, [Next]_vars, NEW k \in Request,
           req'[k].state = "response", req[k].state # "response"
    PROVE  \E a \in Attachment : /\ Bound(a)
                                /\ req[k].method \in att[a].methods
                                /\ req[k].dl \in prompts[a] \ prompts'[a]
                                /\ sent[req[k].dl].nth = nth[k]
                                /\ ~IsExpired(k)
<1>. DEFINE Goal == \E a \in Attachment : /\ Bound(a)
                                /\ req[k].method \in att[a].methods
                                /\ req[k].dl \in prompts[a] \ prompts'[a]
                                /\ sent[req[k].dl].nth = nth[k]
                                /\ ~IsExpired(k)
<1>. HIDE DEF Goal
<1>1. req[k] \in ReqRec /\ req \in [Request -> ReqRec]
    BY Fields DEF Inv, TypeOK, ReqRec
<1>2. ASSUME NEW K, NEW out \in {"cancelled", "expired", "failed"}, Settle(K, out)
      PROVE  Goal
    BY <1>2, SettleOutcome DEF Settled
<1>3. ASSUME NEW a \in Attachment, NEW d \in DOMAIN sent, NEW ok \in BOOLEAN,
             HandleResponse(a, d, ok)
      PROVE  Goal
  <2>1. Correlated(a, d)
      BY <1>3, ShownIsCorrelated DEF HandleResponse
  <2>2. prompts' = [prompts EXCEPT ![a] = @ \ {d}]
      BY <1>3 DEF HandleResponse
  <2>3. Settle({sent[d].req}, IF IsExpired(sent[d].req) THEN "expired"
                              ELSE IF ok THEN "response" ELSE "failed")
      BY <1>3, <2>1 DEF HandleResponse
  <2>4. k = sent[d].req
      BY <2>3 DEF Settle
  <2>5. ~IsExpired(k)
    <3>. SUFFICES ASSUME IsExpired(k) PROVE FALSE
        OBVIOUS
    <3>1. Settle({k}, "expired") /\ "expired" \in Settled
        BY <2>3, <2>4 DEF Settled
    <3>. QED  BY <3>1, SettleOutcome
  <2>6. prompts \in [Attachment -> SUBSET Delivery]
      BY DEF Inv, TypeOK
  <2>7. /\ Bound(a) /\ req[k].method \in att[a].methods
        /\ req[k].dl = d /\ d \in prompts[a] /\ sent[d].nth = nth[k]
      BY <2>1, <2>4, AnswerFacts
  <2>8. d \notin prompts'[a]
      BY <2>2, <2>6
  <2>. QED  BY <2>5, <2>7, <2>8 DEF Goal
<1>4. ASSUME NEW a \in Attachment, NEW e \in 1..MaxEpoch,
           NEW lost \in SUBSET Request, ResponseWritten(a, e, lost)
      PROVE  Goal
  <2>1. CASE ~Commits(a, e)
      BY <1>4, <2>1 DEF ResponseWritten
  <2>2. CASE Commits(a, e)
    <3>1. PICK go, new, id : Commit(a, go, new, id)
        BY <1>4, <2>2, CommitDoes
    <3>. QED  BY <3>1 DEF Commit
  <2>. QED  BY <2>1, <2>2
<1>5. ASSUME NEW j \in Request, NEW r \in Responder, NEW throws \in BOOLEAN,
             Redeliver(j, r, throws)
      PROVE  Goal
  <2>1. CASE att[responders[r]].broken \/ throws
      BY <1>2, <1>5, <2>1 DEF Redeliver, SettleAndWithdraw
  <2>2. CASE ~(att[responders[r]].broken \/ throws)
    <3>1. req' = [req EXCEPT ![j].dl = Cardinality(DOMAIN sent) + 1]
        BY <1>5, <2>2 DEF Redeliver
    <3>2. req'[k].state = req[k].state
        BY <1>1, <3>1 DEF ReqRec
    <3>. QED  BY <3>2
  <2>. QED  BY <2>1, <2>2
<1>6. ASSUME NEW j \in Request, NEW r \in Responder, NEW s \in Scope,
             NEW m \in Method, NEW late \in BOOLEAN, NEW throws \in BOOLEAN,
             MakeRequest(j, r, s, m, late, throws)
      PROVE  Goal
  <2>1. (IF late THEN "expired" ELSE Fate(r, s, m, throws)) # "response"
      BY FateFacts
  <2>2. req'[j].state = IF late THEN "expired" ELSE Fate(r, s, m, throws)
      BY <1>1, <1>6 DEF MakeRequest
  <2>3. j # k => req'[k] = req[k]
      BY <1>1, <1>6 DEF MakeRequest
  <2>. QED  BY <2>1, <2>2, <2>3
<1>7. ASSUME UNCHANGED req
      PROVE  Goal
    BY <1>7
<1>8. ASSUME NEW t \in timers, TimerFires(t)
      PROVE  Goal
    BY <1>2, <1>7, <1>8 DEF TimerFires, SettleAndWithdraw
<1>9. ASSUME NEW a \in Attachment,
             \/ DetachResponder(a) \/ HandleNullResponse(a)
             \/ \E ms \in SUBSET Method : SetServerRequestMethods(a, ms)
      PROVE  Goal
    BY <1>2, <1>9 DEF DetachResponder, HandleNullResponse, SetServerRequestMethods,
                      SettleAndWithdraw, Reject
<1>10. ASSUME \/ \E j \in Request : Cancel(j) \/ RedeliverOverdue(j)
              \/ CancelAll
       PROVE  Goal
    BY <1>2, <1>10 DEF Cancel, RedeliverOverdue, CancelAll, SettleAndWithdraw
<1>11. ASSUME \/ \E r \in Responder, a \in Attachment, s \in Scope, n \in BOOLEAN :
                    AttachResponder(r, a, s, n)
              \/ \E a \in Attachment : TransportBreaks(a)
              \/ \E j \in Request : DeadlinePasses(j)
              \/ UNCHANGED vars
       PROVE  Goal
  <2>1. ASSUME NEW r \in Responder, NEW a \in Attachment, NEW sc \in Scope, NEW n \in BOOLEAN,
               AttachResponder(r, a, sc, n)
        PROVE  UNCHANGED req
      BY <2>1 DEF AttachResponder
  <2>2. ASSUME NEW a \in Attachment, TransportBreaks(a)
        PROVE  UNCHANGED req
      BY <2>2 DEF TransportBreaks
  <2>3. ASSUME NEW j \in Request, DeadlinePasses(j)
        PROVE  UNCHANGED req
      BY <2>3 DEF DeadlinePasses
  <2>4. UNCHANGED vars => UNCHANGED req
      BY DEF vars
  <2>5. UNCHANGED req
      BY <1>11, <2>1, <2>2, <2>3, <2>4
  <2>. QED  BY <1>7, <2>5
<1>12. Goal
    BY <1>3, <1>4, <1>5, <1>6, <1>8, <1>9, <1>10, <1>11, Zenon DEF Next
<1>. QED  BY <1>12 DEF Goal

\* handleResponseFromAttachment takes a result only from the client that shows
\* the current delivery, while it accepts the method and in time; and no other
\* call of the coordinator ends an interaction with a result.
THEOREM Accepted == Spec => AnswerAccepted
<1>1. Inv /\ [Next]_vars =>
          [\A k \in Request :
              (req'[k].state = "response" /\ req[k].state # "response") =>
                  \E a \in Attachment : /\ Bound(a)
                                       /\ req[k].method \in att[a].methods
                                       /\ req[k].dl \in prompts[a] \ prompts'[a]
                                       /\ sent[req[k].dl].nth = nth[k]
                                       /\ ~IsExpired(k)]_vars
    BY ResultIsAnswer
<1>. QED  BY <1>1, Invariance, PTL DEF Spec, AnswerAccepted
=============================================================================
