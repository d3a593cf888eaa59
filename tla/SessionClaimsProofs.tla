------------------------- MODULE SessionClaimsProofs -------------------------
(***************************************************************************)
(* Proofs about SessionClaims: no live holder ever loses its row, whatever  *)
(* the number of processes, threads and attempts.  The invariant relates    *)
(* what a process saw, and acts upon outside the transaction it saw it in,  *)
(* to the table: as long as the row has the id that was seen, it is the row *)
(* that was seen, and an owner that was found dead stays dead.              *)
(***************************************************************************)
EXTENDS SessionClaims, TLAPS

\* The rows that were inserted have an id, an owner, and nothing to come has
\* their id.
RowsMinted ==
    \A k \in Key : claims[k] # NoRow => claims[k].id \in 1..minted

\* What a call met is still what it met, or is gone for good; and it tries a
\* transaction only as long as it has attempts left.
Sighted(call) ==
    /\ call.at = "try" => call.left # 0
    /\ call.at \in {"probe", "reap"} =>
        /\ call.conflict # NoRow
        /\ call.conflict.id \in 1..minted
        /\ claims[call.place].id = call.conflict.id
             => claims[call.place] = call.conflict
        /\ call.at = "reap" => status[call.conflict.owner] = "dead"

SightingsFenced == \A p \in Process : Sighted(calls[p])

\* A process that is closed or dead holds nothing and does nothing.
EndedQuiet ==
    \A p \in Process : status[p] # "up" =>
        calls[p].at = "idle" /\ \A k \in Key : ~Holds(p, k)

\* A row of the gate is alone in the table.
GateRowAlone ==
    claims[Maintenance] # NoRow => \A t \in Thread : claims[t] = NoRow

\* While the initialization has the write lock the table is as it found it.
InitializationFenced ==
    gate # NoGate =>
        /\ claims[Maintenance] = NoRow
        /\ gate.fresh => \A k \in Key : claims[k] = NoRow

\* What is in the table under the name of a process that did not die is in its map.
Remembered ==
    \A k \in Key :
        LET p == claims[k].owner IN
        p # None /\ status[p] # "dead" => held[p][k].id = claims[k].id

Inv ==
    /\ TypeOK
    /\ RowsMinted
    /\ SightingsFenced
    /\ EndedQuiet
    /\ GateRowAlone
    /\ InitializationFenced
    /\ NeverDispossessed
    /\ Remembered

-----------------------------------------------------------------------------
(* What the operators return                                                *)

\* The marks of an empty place are not what a place may hold.
LEMMA Marks ==
    /\ NoRow \notin Row
    /\ NoGate \notin [proc : Process, fresh : BOOLEAN]
    /\ NoCall \in Call
    /\ NoCall.at = "idle"
    /\ Maintenance \in Key
    /\ \A t \in Thread : t \in Key /\ t # Maintenance
BY ClaimsAssumption DEF NoRow, Row, NoGate, NoCall, Call, Key

\* The calls of the others are left alone by a step of p's own call.
LEMMA DoingType ==
    ASSUME calls \in [Process -> Call], NEW p \in Process, NEW call \in Call
    PROVE  /\ Doing(p, call) \in [Process -> Call]
           /\ Doing(p, call)[p] = call
           /\ \A q \in Process : q # p => Doing(p, call)[q] = calls[q]
BY DEF Doing

\* Noting a reference changes one entry of one process's map.
LEMMA NotedType ==
    ASSUME held \in [Process -> [Key -> Hold]], NEW p \in Process, NEW k \in Key,
           NEW id \in Nat, NEW references \in Nat
    PROVE  LET h == Noted(p, k, id, references) IN
           /\ h \in [Process -> [Key -> Hold]]
           /\ h[p][k] = [id |-> id, references |-> references]
           /\ \A q \in Process, j \in Key :
                 q # p \/ j # k => h[q][j] = held[q][j]
<1> DEFINE entry == [id |-> id, references |-> references]
           row == [held[p] EXCEPT ![k] = entry]
<1>1. entry \in Hold
  BY DEF Hold
<1>2. /\ row \in [Key -> Hold]
      /\ row[k] = entry
      /\ \A j \in Key : j # k => row[j] = held[p][j]
  BY <1>1
<1>3. Noted(p, k, id, references) = [held EXCEPT ![p] = row]
  BY DEF Noted
<1> HIDE DEF row
<1> QED BY <1>2, <1>3

\* So does forgetting one.
LEMMA ForgottenType ==
    ASSUME held \in [Process -> [Key -> Hold]], NEW p \in Process, NEW k \in Key
    PROVE  LET h == Forgotten(p, k) IN
           /\ h \in [Process -> [Key -> Hold]]
           /\ h[p][k] = NoHold
           /\ \A q \in Process, j \in Key :
                 q # p \/ j # k => h[q][j] = held[q][j]
<1> DEFINE row == [held[p] EXCEPT ![k] = NoHold]
<1>1. NoHold \in Hold
  BY DEF NoHold, Hold
<1>2. /\ row \in [Key -> Hold]
      /\ row[k] = NoHold
      /\ \A j \in Key : j # k => row[j] = held[p][j]
  BY <1>1
<1>3. Forgotten(p, k) = [held EXCEPT ![p] = row]
  BY DEF Forgotten
<1> HIDE DEF row
<1> QED BY <1>2, <1>3

-----------------------------------------------------------------------------
(* The steps, by what they change                                           *)

\* Only the call of a live process changes (acquire, probe, busy, initialize, a
\* transaction that met a conflict): enough that what it met is in the table.
LEMMA CallStep ==
    ASSUME Inv, NEW p \in Process, NEW call \in Call,
           status[p] = "up", Sighted(call),
           calls' = Doing(p, call),
           UNCHANGED <<claims, minted, gate, status, held>>
    PROVE  Inv'
<1>1. /\ calls' \in [Process -> Call]
      /\ calls'[p] = call
      /\ \A q \in Process : q # p => calls'[q] = calls[q]
  BY DoingType DEF Inv, TypeOK
<1>2. TypeOK'
  BY <1>1 DEF Inv, TypeOK
<1>3. SightingsFenced'
  <2>1. ASSUME NEW q \in Process
        PROVE  Sighted(calls[q])'
    <3>1. CASE q = p
      BY <1>1, <3>1 DEF Sighted
    <3>2. CASE q # p
      BY <1>1, <3>2 DEF Inv, SightingsFenced, Sighted
    <3> QED BY <3>1, <3>2
  <2> QED BY <2>1 DEF SightingsFenced
<1>4. EndedQuiet'
  BY <1>1 DEF Inv, EndedQuiet, Holds
<1>5. (RowsMinted /\ GateRowAlone /\ InitializationFenced)'
  BY DEF Inv, RowsMinted, GateRowAlone, InitializationFenced
<1>6. (NeverDispossessed /\ Remembered)'
  BY DEF Inv, NeverDispossessed, Remembered, Holds
<1> QED BY <1>2, <1>3, <1>4, <1>5, <1>6 DEF Inv

\* A transaction that meets a row: the row is what it will have met.
LEMMA MetStep ==
    ASSUME Inv, NEW p \in Process, NEW k \in Key,
           status[p] = "up", calls[p].at = "try", claims[k] # NoRow,
           calls' = Met(p, k),
           UNCHANGED <<claims, minted, gate, status, held>>
    PROVE  Inv'
<1> DEFINE call == [calls[p] EXCEPT !.at = "probe", !.left = @ - 1,
                                    !.place = k, !.conflict = claims[k]]
<1>1. calls[p] \in Call /\ claims[k] \in Row
  BY DEF Inv, TypeOK
<1>2. calls[p].left \in Nat /\ calls[p].left # 0 /\ calls[p].left - 1 \in Nat
  <2>1. calls[p].left \in Nat
    BY <1>1 DEF Call
  <2> QED BY <2>1 DEF Inv, SightingsFenced, Sighted
<1>3. call \in Call
  BY <1>1, <1>2 DEF Call
<1>4. call.at = "probe" /\ call.place = k /\ call.conflict = claims[k]
  BY <1>1 DEF Call
<1>5. calls' = Doing(p, call)
  BY DEF Met
<1> HIDE DEF call
<1>6. Sighted(call)
  BY <1>4 DEF Inv, RowsMinted, Sighted
<1> QED BY <1>3, <1>5, <1>6, CallStep

\* Only the number of references to a claim that is held changes (acquireAgain,
\* releaseOne, releaseFails).
LEMMA ReferenceStep ==
    ASSUME Inv, NEW p \in Process, NEW k \in Key, NEW references \in Nat,
           status[p] = "up", Holds(p, k),
           held' = Noted(p, k, held[p][k].id, references),
           UNCHANGED <<claims, minted, gate, status, calls>>
    PROVE  Inv'
<1>0. held \in [Process -> [Key -> Hold]] /\ held[p][k].id \in Nat
  BY DEF Inv, TypeOK, Hold
<1>1. /\ held' \in [Process -> [Key -> Hold]]
      /\ held'[p][k] = [id |-> held[p][k].id, references |-> references]
      /\ \A q \in Process, j \in Key :
            q # p \/ j # k => held'[q][j] = held[q][j]
  BY <1>0, NotedType
<1>2. \A q \in Process, j \in Key :
         /\ held'[q][j].id = held[q][j].id
         /\ Holds(q, j)' => Holds(q, j)
  BY <1>1 DEF Holds
<1>3. TypeOK'
  BY <1>1 DEF Inv, TypeOK
<1>4. SightingsFenced'
  BY DEF Inv, SightingsFenced, Sighted
<1>5. EndedQuiet'
  BY <1>1 DEF Inv, EndedQuiet, Holds
<1>6. (RowsMinted /\ GateRowAlone /\ InitializationFenced)'
  BY DEF Inv, RowsMinted, GateRowAlone, InitializationFenced
<1>7. NeverDispossessed'
  BY <1>2 DEF Inv, NeverDispossessed
<1>8. Remembered'
  BY <1>2 DEF Inv, Remembered, TypeOK, Row, NoRow
<1> QED BY <1>3, <1>4, <1>5, <1>6, <1>7, <1>8 DEF Inv

\* Rows that go disturb nothing that is said of the table: a sighting of a row
\* that went is fenced by the id.
LEMMA RowsGo ==
    ASSUME Inv, NEW k \in Key, NEW row \in {claims[k], NoRow},
           claims' = [claims EXCEPT ![k] = row],
           UNCHANGED <<minted, gate, status>>
    PROVE  /\ claims' \in [Key -> Row \cup {NoRow}]
           /\ (RowsMinted /\ GateRowAlone /\ InitializationFenced)'
           /\ \A call \in Call : Sighted(call) => Sighted(call)'
<1>1. claims' \in [Key -> Row \cup {NoRow}]
  BY DEF Inv, TypeOK
<1>2. \A j \in Key : claims'[j] = claims[j] \/ claims'[j] = NoRow
  BY DEF Inv, TypeOK
<1>3. (RowsMinted /\ GateRowAlone /\ InitializationFenced)'
  BY <1>2, Marks DEF Inv, RowsMinted, GateRowAlone, InitializationFenced
<1>4. ASSUME NEW call \in Call, Sighted(call)
      PROVE  Sighted(call)'
  <2>1. call.place \in Key
    BY DEF Call
  <2>2. CASE claims'[call.place] = claims[call.place]
    BY <1>4, <2>2 DEF Sighted
  <2>3. CASE claims'[call.place] = NoRow
    <3>1. NoRow.id = 0
      BY DEF NoRow
    <3>2. minted \in Nat
      BY DEF Inv, TypeOK
    <3> QED BY <1>4, <2>3, <3>1, <3>2 DEF Sighted
  <2> QED BY <1>2, <2>1, <2>2, <2>3
<1> QED BY <1>1, <1>3, <1>4

\* The transaction of acquire that found no conflict.
LEMMA InsertStep ==
    ASSUME Inv, NEW p \in Process, NEW key \in Key,
           status[p] = "up", Unlocked, Conflicts(key) = {},
           minted' = minted + 1,
           claims' = [claims EXCEPT ![key] = [id |-> minted + 1, owner |-> p]],
           held' = Noted(p, key, minted + 1, 1),
           calls' = Doing(p, NoCall),
           UNCHANGED <<gate, status>>
    PROVE  Inv'
<1> DEFINE row == [id |-> minted + 1, owner |-> p]
<1>1. /\ minted \in Nat /\ minted' \in Nat /\ minted' = minted + 1
      /\ row \in Row /\ row # NoRow /\ row.id = minted' /\ row.owner = p
  BY Marks DEF Inv, TypeOK, Row
<1> HIDE DEF row
<1>2. /\ claims' \in [Key -> Row \cup {NoRow}]
      /\ claims'[key] = row
      /\ \A j \in Key : j # key => claims'[j] = claims[j]
  BY <1>1 DEF Inv, TypeOK, row
<1>3. /\ held' \in [Process -> [Key -> Hold]]
      /\ held'[p][key] = [id |-> minted', references |-> 1]
      /\ \A q \in Process, j \in Key :
            q # p \/ j # key => held'[q][j] = held[q][j]
  <2>1. held \in [Process -> [Key -> Hold]] /\ 1 \in Nat
    BY DEF Inv, TypeOK
  <2>2. held' = Noted(p, key, minted', 1)
    OBVIOUS
  <2> QED BY <1>1, <2>1, <2>2, NotedType
<1>4. /\ calls' \in [Process -> Call]
      /\ calls'[p] = NoCall
      /\ \A q \in Process : q # p => calls'[q] = calls[q]
  BY DoingType, Marks DEF Inv, TypeOK
<1>5. /\ claims[key] = NoRow
      /\ claims[Maintenance] = NoRow
      /\ key = Maintenance => \A j \in Key : claims[j] = NoRow
  BY Marks DEF Conflicts, Claimed
<1>6. TypeOK'
  BY <1>1, <1>2, <1>3, <1>4 DEF Inv, TypeOK
<1>7. RowsMinted'
  <2>1. ASSUME NEW j \in Key, claims'[j] # NoRow
        PROVE  claims'[j].id \in 1..minted'
    <3>1. CASE j = key
      BY <1>1, <1>2, <3>1
    <3>2. CASE j # key
      BY <1>1, <1>2, <2>1, <3>2 DEF Inv, RowsMinted
    <3> QED BY <3>1, <3>2
  <2> QED BY <2>1 DEF RowsMinted
<1>8. SightingsFenced'
  <2>1. ASSUME NEW q \in Process
        PROVE  Sighted(calls[q])'
    <3>1. CASE q = p
      BY <1>4, <3>1, Marks DEF Sighted
    <3>2. CASE q # p
      <4>1. calls'[q] = calls[q] /\ Sighted(calls[q])
        BY <1>4, <3>2 DEF Inv, SightingsFenced
      <4>2. calls[q].place \in Key
        BY DEF Inv, TypeOK, Call
      <4>3. CASE calls[q].place = key
        BY <1>1, <1>2, <4>1, <4>3 DEF Sighted
      <4>4. CASE calls[q].place # key
        BY <1>1, <1>2, <4>1, <4>2, <4>4 DEF Sighted
      <4> QED BY <4>3, <4>4
    <3> QED BY <3>1, <3>2
  <2> QED BY <2>1 DEF SightingsFenced
<1>9. EndedQuiet'
  BY <1>3, <1>4, SMTT(30) DEF Inv, EndedQuiet, Holds
<1>10. GateRowAlone'
  BY <1>2, <1>5, Marks DEF Inv, GateRowAlone
<1>11. InitializationFenced'
  BY DEF Unlocked, InitializationFenced
<1>12. NeverDispossessed'
  <2>1. ASSUME NEW q \in Process, NEW j \in Key, Holds(q, j)'
        PROVE  claims'[j] = [id |-> held'[q][j].id, owner |-> q]
    <3>1. CASE j # key
      BY <1>2, <1>3, <2>1, <3>1 DEF Inv, NeverDispossessed, Holds
    <3>2. CASE j = key /\ q = p
      BY <1>1, <1>2, <1>3, <3>2 DEF row
    <3>3. CASE j = key /\ q # p
      <4>1. Holds(q, key)
        BY <1>3, <2>1, <3>3 DEF Holds
      <4>2. claims[key] = [id |-> held[q][key].id, owner |-> q]
        BY <4>1 DEF Inv, NeverDispossessed
      <4>3. NoRow.owner = None /\ None # q
        BY ClaimsAssumption DEF NoRow
      <4> QED BY <1>5, <4>2, <4>3
    <3> QED BY <3>1, <3>2, <3>3
  <2> QED BY <2>1 DEF NeverDispossessed
<1>13. Remembered'
  <2>1. ASSUME NEW j \in Key,
               claims'[j].owner # None, status[claims'[j].owner] # "dead"
        PROVE  held'[claims'[j].owner][j].id = claims'[j].id
    <3>1. CASE j = key
      BY <1>1, <1>2, <1>3, <3>1
    <3>2. CASE j # key
      <4>1. claims[j].owner \in Process
        BY <1>2, <2>1, <3>2 DEF Inv, TypeOK, Row, NoRow
      <4> QED BY <1>2, <1>3, <2>1, <3>2, <4>1 DEF Inv, Remembered
    <3> QED BY <3>1, <3>2
  <2> QED BY <2>1 DEF Remembered
<1> QED BY <1>6, <1>7, <1>8, <1>9, <1>10, <1>11, <1>12, <1>13 DEF Inv

\* reap deletes a row only if it is the one whose owner was found dead, and a
\* dead process holds nothing.
LEMMA ReapStep ==
    ASSUME Inv, NEW p \in Process, reap(p)
    PROVE  Inv'
<1> DEFINE sighted == calls[p]
           k == sighted.place
           row == IF claims[k].id = sighted.conflict.id THEN NoRow ELSE claims[k]
           next == IF sighted.left = 0 THEN NoCall
                   ELSE [sighted EXCEPT !.at = "try", !.conflict = NoRow]
<1>1. /\ sighted \in Call /\ sighted.at = "reap" /\ k \in Key
      /\ Sighted(sighted)
      /\ row \in {claims[k], NoRow}
  BY DEF Inv, TypeOK, Call, SightingsFenced, reap
<1>2. /\ claims' = [claims EXCEPT ![k] = row]
      /\ calls' = Doing(p, next)
      /\ UNCHANGED <<minted, gate, status, held>>
  BY DEF reap, Reaped
<1>3. next \in Call /\ (next.at = "idle" \/ (next.at = "try" /\ next.left # 0))
  BY <1>1, Marks DEF Call
<1>4. row = claims[k] \/ (row = NoRow /\ status[claims[k].owner] = "dead")
  BY <1>1 DEF Sighted
<1>5. status[p] = "up"
  BY <1>1 DEF Inv, EndedQuiet
<1> HIDE DEF row, next, k, sighted
<1>6. /\ claims' \in [Key -> Row \cup {NoRow}]
      /\ (RowsMinted /\ GateRowAlone /\ InitializationFenced)'
      /\ \A call \in Call : Sighted(call) => Sighted(call)'
  BY <1>1, <1>2, RowsGo
<1>7. /\ calls' \in [Process -> Call]
      /\ calls'[p] = next
      /\ \A q \in Process : q # p => calls'[q] = calls[q]
  BY <1>2, <1>3, DoingType DEF Inv, TypeOK
<1>8. TypeOK'
  BY <1>2, <1>6, <1>7 DEF Inv, TypeOK
<1>9. SightingsFenced'
  <2>1. ASSUME NEW q \in Process
        PROVE  Sighted(calls[q])'
    <3>1. CASE q = p
      BY <1>3, <1>7, <3>1 DEF Sighted
    <3>2. CASE q # p
      <4>1. calls[q] \in Call /\ Sighted(calls[q]) /\ calls'[q] = calls[q]
        BY <1>7, <3>2 DEF Inv, TypeOK, SightingsFenced
      <4>2. PICK c \in Call : c = calls[q]
        BY <4>1
      <4>3. Sighted(c)'
        BY <1>6, <4>1, <4>2
      <4> QED BY <4>1, <4>2, <4>3 DEF Sighted
    <3> QED BY <3>1, <3>2
  <2> QED BY <2>1 DEF SightingsFenced
<1>10. EndedQuiet'
  BY <1>2, <1>5, <1>7 DEF Inv, EndedQuiet, Holds
<1>11. NeverDispossessed'
  <2>1. ASSUME NEW q \in Process, NEW j \in Key, Holds(q, j)
        PROVE  claims'[j] = [id |-> held[q][j].id, owner |-> q]
    <3>1. claims[j] = [id |-> held[q][j].id, owner |-> q]
      BY <2>1 DEF Inv, NeverDispossessed
    <3>2. status[q] # "dead"
      BY <2>1 DEF Inv, EndedQuiet
    <3>3. claims'[j] = claims[j]
      BY <1>1, <1>2, <1>4, <3>1, <3>2 DEF Inv, TypeOK
    <3> QED BY <3>1, <3>3
  <2> QED BY <1>2, <2>1 DEF NeverDispossessed, Holds
<1>12. Remembered'
  <2>1. \A j \in Key : claims'[j] = claims[j] \/ claims'[j].owner = None
    BY <1>1, <1>2, <1>4 DEF Inv, TypeOK, NoRow
  <2> QED BY <1>2, <2>1 DEF Inv, Remembered
<1> QED BY <1>6, <1>8, <1>9, <1>10, <1>11, <1>12 DEF Inv

\* The release of the last reference deletes the row of the process's own claim.
LEMMA ReleaseStep ==
    ASSUME Inv, NEW p \in Process, NEW k \in Key, releaseLast(p, k)
    PROVE  Inv'
<1>1. /\ status[p] = "up" /\ Holds(p, k)
      /\ held' = Forgotten(p, k)
      /\ UNCHANGED <<minted, gate, status, calls>>
  BY DEF releaseLast, Ready, Holds, NoHold
<1>2. claims[k] = [id |-> held[p][k].id, owner |-> p]
  BY <1>1 DEF Inv, NeverDispossessed
<1>3. claims' = [claims EXCEPT ![k] = NoRow]
  BY <1>2 DEF releaseLast
<1>4. /\ claims' \in [Key -> Row \cup {NoRow}]
      /\ (RowsMinted /\ GateRowAlone /\ InitializationFenced)'
      /\ \A call \in Call : Sighted(call) => Sighted(call)'
  BY <1>1, <1>3, RowsGo
<1>5. /\ held' \in [Process -> [Key -> Hold]]
      /\ held'[p][k] = NoHold
      /\ \A q \in Process, j \in Key :
            q # p \/ j # k => held'[q][j] = held[q][j]
  BY <1>1, ForgottenType DEF Inv, TypeOK
<1>6. TypeOK'
  BY <1>1, <1>4, <1>5 DEF Inv, TypeOK
<1>7. SightingsFenced'
  <2>1. ASSUME NEW q \in Process
        PROVE  Sighted(calls[q])'
    <3>1. PICK c \in Call : c = calls[q]
      BY DEF Inv, TypeOK
    <3>2. Sighted(c)'
      BY <1>4, <3>1 DEF Inv, SightingsFenced
    <3> QED BY <1>1, <3>1, <3>2 DEF Sighted
  <2> QED BY <2>1 DEF SightingsFenced
<1>8. EndedQuiet'
  BY <1>1, <1>5 DEF Inv, EndedQuiet, Holds
<1>9. NeverDispossessed'
  <2>1. ASSUME NEW q \in Process, NEW j \in Key, Holds(q, j)'
        PROVE  claims'[j] = [id |-> held'[q][j].id, owner |-> q]
    <3>1. (q # p \/ j # k) /\ held'[q][j] = held[q][j] /\ Holds(q, j)
      BY <1>5, <2>1 DEF Holds
    <3>2. claims[j] = [id |-> held[q][j].id, owner |-> q]
      BY <3>1 DEF Inv, NeverDispossessed
    <3>3. j # k
      BY <1>2, <3>1, <3>2
    <3> QED BY <1>3, <3>1, <3>2, <3>3 DEF Inv, TypeOK
  <2> QED BY <2>1 DEF NeverDispossessed
<1>10. Remembered'
  <2>1. ASSUME NEW j \in Key,
               claims'[j].owner # None, status[claims'[j].owner] # "dead"
        PROVE  held'[claims'[j].owner][j].id = claims'[j].id
    <3>1. j # k /\ claims'[j] = claims[j]
      BY <1>3, <2>1 DEF Inv, TypeOK, NoRow
    <3>2. claims[j].owner \in Process
      BY <2>1, <3>1 DEF Inv, TypeOK, Row, NoRow
    <3> QED BY <1>5, <2>1, <3>1, <3>2 DEF Inv, Remembered
  <2> QED BY <1>1, <2>1 DEF Remembered
<1> QED BY <1>4, <1>6, <1>7, <1>8, <1>9, <1>10 DEF Inv

\* The transaction of the initialization: it stays open only if the rows it
\* asks about are not there.
LEMMA TryInitializeStep ==
    ASSUME Inv, NEW p \in Process, tryInitialize(p)
    PROVE  Inv'
<1>0. PICK fresh \in BOOLEAN :
        \/ /\ InitConflicts(fresh) = {}
           /\ gate' = [proc |-> p, fresh |-> fresh]
           /\ calls' = Doing(p, [calls[p] EXCEPT !.at = "gate"])
        \/ /\ \E k \in InitConflicts(fresh) : calls' = Met(p, k)
           /\ UNCHANGED gate
  BY DEF tryInitialize
<1>1. /\ calls[p] \in Call /\ calls[p].at = "try"
      /\ status[p] = "up"
      /\ UNCHANGED <<claims, minted, status, held>>
  BY DEF Inv, TypeOK, Call, EndedQuiet, tryInitialize
<1>2. CASE /\ InitConflicts(fresh) = {}
           /\ gate' = [proc |-> p, fresh |-> fresh]
           /\ calls' = Doing(p, [calls[p] EXCEPT !.at = "gate"])
  <2> DEFINE call == [calls[p] EXCEPT !.at = "gate"]
  <2>1. call \in Call /\ call.at = "gate" /\ calls' = Doing(p, call)
    BY <1>1, <1>2 DEF Call
  <2>2. calls \in [Process -> Call]
    BY DEF Inv, TypeOK
  <2> HIDE DEF call
  <2>3. /\ calls' \in [Process -> Call]
        /\ calls'[p].at = "gate"
        /\ \A q \in Process : q # p => calls'[q] = calls[q]
    BY <2>1, <2>2, DoingType
  <2>4. TypeOK'
    BY <1>1, <1>2, <2>3 DEF Inv, TypeOK
  <2>5. SightingsFenced'
    <3>1. ASSUME NEW q \in Process
          PROVE  Sighted(calls[q])'
      <4>1. CASE q = p
        BY <2>3, <4>1 DEF Sighted
      <4>2. CASE q # p
        BY <1>1, <2>3, <4>2 DEF Inv, SightingsFenced, Sighted
      <4> QED BY <4>1, <4>2
    <3> QED BY <3>1 DEF SightingsFenced
  <2>6. EndedQuiet'
    BY <1>1, <2>3 DEF Inv, EndedQuiet, Holds
  <2>7. InitializationFenced'
    BY <1>1, <1>2, Marks DEF InitConflicts, Claimed, InitializationFenced
  <2>8. (RowsMinted /\ GateRowAlone)'
    BY <1>1 DEF Inv, RowsMinted, GateRowAlone
  <2>9. (NeverDispossessed /\ Remembered)'
    BY <1>1 DEF Inv, NeverDispossessed, Remembered, Holds
  <2> QED BY <2>4, <2>5, <2>6, <2>7, <2>8, <2>9 DEF Inv
<1>3. CASE (\E k \in InitConflicts(fresh) : calls' = Met(p, k)) /\ UNCHANGED gate
  <2>1. PICK k \in InitConflicts(fresh) : calls' = Met(p, k)
    BY <1>3
  <2>2. k \in Key /\ claims[k] # NoRow
    BY <2>1, Marks DEF InitConflicts, Claimed
  <2>3. UNCHANGED <<claims, minted, gate, status, held>>
    BY <1>1, <1>3
  <2> QED BY <1>1, <2>1, <2>2, <2>3, MetStep
<1> QED BY <1>0, <1>2, <1>3

\* The end of the initialization opens the table again.
LEMMA EndInitializationStep ==
    ASSUME Inv, NEW p \in Process, endInitialization(p)
    PROVE  Inv'
<1>1. /\ gate' = NoGate
      /\ UNCHANGED <<claims, minted, status, held>>
  BY DEF endInitialization
<1>2. /\ calls' \in [Process -> Call]
      /\ calls'[p] = NoCall
      /\ \A q \in Process : q # p => calls'[q] = calls[q]
  BY DoingType, Marks DEF Inv, TypeOK, endInitialization
<1>3. TypeOK'
  BY <1>1, <1>2 DEF Inv, TypeOK
<1>4. SightingsFenced'
  BY <1>1, <1>2, Marks DEF Inv, SightingsFenced, Sighted
<1>5. EndedQuiet'
  BY <1>1, <1>2, Marks DEF Inv, EndedQuiet, Holds
<1>6. (RowsMinted /\ GateRowAlone /\ InitializationFenced)'
  BY <1>1 DEF Inv, RowsMinted, GateRowAlone, InitializationFenced
<1>7. (NeverDispossessed /\ Remembered)'
  BY <1>1 DEF Inv, NeverDispossessed, Remembered, Holds
<1> QED BY <1>3, <1>4, <1>5, <1>6, <1>7 DEF Inv

\* Only a process that holds nothing closes.
LEMMA CloseStep ==
    ASSUME Inv, NEW p \in Process, close(p)
    PROVE  Inv'
<1>1. /\ status[p] = "up" /\ calls[p].at = "idle"
      /\ \A k \in Key : ~Holds(p, k)
      /\ status' = [status EXCEPT ![p] = "closed"]
      /\ UNCHANGED <<claims, minted, gate, held, calls>>
  BY DEF close, Ready
<1>2. /\ status' \in [Process -> {"up", "closed", "dead"}]
      /\ status'[p] = "closed"
      /\ \A q : q # p => status'[q] = status[q]
      /\ \A q : status[q] = "dead" <=> status'[q] = "dead"
  BY <1>1 DEF Inv, TypeOK
<1>3. TypeOK'
  BY <1>1, <1>2 DEF Inv, TypeOK
<1>4. SightingsFenced'
  BY <1>1, <1>2 DEF Inv, SightingsFenced, Sighted
<1>5. EndedQuiet'
  BY <1>1, <1>2 DEF Inv, EndedQuiet, Holds
<1>6. (RowsMinted /\ GateRowAlone /\ InitializationFenced)'
  BY <1>1 DEF Inv, RowsMinted, GateRowAlone, InitializationFenced
<1>7. (NeverDispossessed /\ Remembered)'
  BY <1>1, <1>2 DEF Inv, NeverDispossessed, Remembered, Holds
<1> QED BY <1>3, <1>4, <1>5, <1>6, <1>7 DEF Inv

\* Whoever dies leaves its rows to be reaped, and its transaction is undone.
LEMMA DieStep ==
    ASSUME Inv, NEW p \in Process, die(p)
    PROVE  Inv'
<1>1. UNCHANGED <<claims, minted>> /\ (gate' = NoGate \/ gate' = gate)
  BY DEF die
<1>2. /\ status' \in [Process -> {"up", "closed", "dead"}]
      /\ status'[p] = "dead"
      /\ \A q : q # p => status'[q] = status[q]
      /\ \A q : status[q] = "dead" => status'[q] = "dead"
  BY DEF Inv, TypeOK, die
<1>3. /\ calls' \in [Process -> Call]
      /\ calls'[p] = NoCall
      /\ \A q \in Process : q # p => calls'[q] = calls[q]
  BY DoingType, Marks DEF Inv, TypeOK, die
<1>4. /\ held' \in [Process -> [Key -> Hold]]
      /\ \A k \in Key : held'[p][k] = NoHold
      /\ \A q \in Process : q # p => held'[q] = held[q]
  <2>1. [k \in Key |-> NoHold] \in [Key -> Hold]
    BY DEF NoHold, Hold
  <2> QED BY <2>1 DEF Inv, TypeOK, die
<1>5. TypeOK'
  BY <1>1, <1>2, <1>3, <1>4 DEF Inv, TypeOK
<1>6. SightingsFenced'
  <2>1. ASSUME NEW q \in Process
        PROVE  Sighted(calls[q])'
    <3>1. CASE q = p
      BY <1>3, <3>1, Marks DEF Sighted
    <3>2. CASE q # p
      BY <1>1, <1>2, <1>3, <3>2 DEF Inv, SightingsFenced, Sighted
    <3> QED BY <3>1, <3>2
  <2> QED BY <2>1 DEF SightingsFenced
<1>7. EndedQuiet'
  BY <1>2, <1>3, <1>4, Marks DEF Inv, EndedQuiet, Holds
<1>8. (RowsMinted /\ GateRowAlone /\ InitializationFenced)'
  BY <1>1 DEF Inv, RowsMinted, GateRowAlone, InitializationFenced
<1>9. NeverDispossessed'
  BY <1>1, <1>4 DEF Inv, NeverDispossessed, Holds
<1>10. Remembered'
  <2>1. \A k \in Key : claims[k].owner # None => claims[k].owner \in Process
    BY DEF Inv, TypeOK, Row, NoRow
  <2> QED BY <1>1, <1>2, <1>4, <2>1 DEF Inv, Remembered
<1> QED BY <1>5, <1>6, <1>7, <1>8, <1>9, <1>10 DEF Inv

-----------------------------------------------------------------------------
(* The invariant                                                            *)

\* Nobody has a claim at first.
LEMMA InitStep == Init => Inv
<1> SUFFICES ASSUME Init PROVE Inv
  OBVIOUS
<1>1. TypeOK
  BY Marks DEF Init, TypeOK, NoHold, Hold
<1>2. \A p \in Process : calls[p] = NoCall /\ \A k \in Key : ~Holds(p, k)
  BY DEF Init, Holds
<1>3. SightingsFenced /\ EndedQuiet
  BY <1>2, Marks DEF SightingsFenced, Sighted, EndedQuiet
<1>4. RowsMinted /\ GateRowAlone /\ InitializationFenced
  BY Marks DEF Init, RowsMinted, GateRowAlone, InitializationFenced
<1>5. NeverDispossessed /\ Remembered
  BY <1>2 DEF Init, NeverDispossessed, Remembered, NoRow
<1> QED BY <1>1, <1>3, <1>4, <1>5 DEF Inv

\* A step of a process that changes no more than its call.
LEMMA CallSteps ==
    ASSUME Inv, NEW p \in Process,
           \/ \E k \in Key : acquire(p, k)
           \/ probe(p) \/ busy(p) \/ initialize(p)
    PROVE  Inv'
<1>1. calls[p] \in Call /\ Sighted(calls[p])
  BY DEF Inv, TypeOK, SightingsFenced
<1>2. calls[p].at # "idle" => status[p] = "up"
  BY DEF Inv, EndedQuiet
<1>3. Sighted(NoCall)
  BY Marks DEF Sighted
<1>4. Attempts \in Nat /\ Attempts # 0
  BY ClaimsAssumption
<1>5. ASSUME NEW k \in Key, acquire(p, k)
      PROVE  Inv'
  <2> DEFINE call == [NoCall EXCEPT !.at = "try", !.key = k, !.left = Attempts]
  <2>1. call \in Call /\ call.at = "try" /\ call.left = Attempts
    BY <1>4, Marks DEF Call, NoCall
  <2>2. /\ status[p] = "up" /\ calls' = Doing(p, call)
        /\ UNCHANGED <<claims, minted, gate, status, held>>
    BY <1>5 DEF acquire, Ready
  <2> HIDE DEF call
  <2>3. Sighted(call)
    BY <1>4, <2>1 DEF Sighted
  <2> QED BY <2>1, <2>2, <2>3, CallStep
<1>6. CASE probe(p)
  <2> DEFINE call == [calls[p] EXCEPT !.at = "reap"]
  <2>1. /\ calls[p].at = "probe" /\ status[p] = "up"
        /\ UNCHANGED <<claims, minted, gate, status, held>>
    BY <1>2, <1>6 DEF probe
  <2>2. PICK dead \in SaidDead(calls[p].conflict.owner) :
          calls' = Doing(p, IF dead THEN call ELSE NoCall)
    BY <1>6 DEF probe
  <2>3. CASE ~dead
    BY <1>3, <2>1, <2>2, <2>3, Marks, CallStep
  <2>4. CASE dead
    <3>1. status[calls[p].conflict.owner] = "dead"
      BY <2>2, <2>4 DEF SaidDead
    <3>2. /\ call \in Call /\ call.at = "reap" /\ call.left = calls[p].left
          /\ call.place = calls[p].place /\ call.conflict = calls[p].conflict
      BY <1>1 DEF Call
    <3>3. calls' = Doing(p, call)
      BY <2>2, <2>4
    <3> HIDE DEF call
    <3>4. Sighted(call)
      BY <1>1, <2>1, <3>1, <3>2 DEF Sighted
    <3> QED BY <2>1, <3>2, <3>3, <3>4, CallStep
  <2> QED BY <2>2, <2>3, <2>4
<1>7. CASE busy(p)
  <2>1. /\ status[p] = "up" /\ calls' = Doing(p, NoCall)
        /\ UNCHANGED <<claims, minted, gate, status, held>>
    BY <1>2, <1>7 DEF busy
  <2> QED BY <1>3, <2>1, Marks, CallStep
<1>8. CASE initialize(p)
  <2>1. /\ status[p] = "up"
        /\ UNCHANGED <<claims, minted, gate, status, held>>
    BY <1>8 DEF initialize, Ready
  <2>2. calls' = Doing(p, [NoCall EXCEPT !.at = "try", !.left = Attempts])
    BY <1>8 DEF initialize
  <2> DEFINE call == [NoCall EXCEPT !.at = "try", !.left = Attempts]
  <2>3. call \in Call /\ call.at = "try" /\ call.left = Attempts
    BY <1>4, Marks DEF Call, NoCall
  <2>4. calls' = Doing(p, call)
    BY <2>2
  <2> HIDE DEF call
  <2>5. Sighted(call)
    BY <1>4, <2>3 DEF Sighted
  <2> QED BY <2>1, <2>3, <2>4, <2>5, CallStep
<1> QED BY <1>5, <1>6, <1>7, <1>8

\* A step of a process that changes no more than the number of its references.
LEMMA ReferenceSteps ==
    ASSUME Inv, NEW p \in Process, NEW k \in Key,
           acquireAgain(p, k) \/ releaseOne(p, k) \/ releaseFails(p, k)
    PROVE  Inv'
<1>1. held[p][k].references \in Nat /\ held[p][k].id \in Nat
  BY DEF Inv, TypeOK, Hold
<1>2. /\ status[p] = "up" /\ Holds(p, k)
      /\ UNCHANGED <<claims, minted, gate, status, calls>>
  BY <1>1 DEF acquireAgain, releaseOne, releaseFails, Ready, Holds, NoHold
<1>3. CASE acquireAgain(p, k)
  <2>1. /\ held[p][k].references + 1 \in Nat
        /\ held' = Noted(p, k, held[p][k].id, held[p][k].references + 1)
    BY <1>1, <1>3 DEF acquireAgain
  <2> QED BY <1>2, <2>1, ReferenceStep
<1>4. CASE releaseOne(p, k)
  <2>1. /\ held[p][k].references - 1 \in Nat
        /\ held' = Noted(p, k, held[p][k].id, held[p][k].references - 1)
    BY <1>1, <1>4 DEF releaseOne
  <2> QED BY <1>2, <2>1, ReferenceStep
<1>5. CASE releaseFails(p, k)
  <2>1. 0 \in Nat /\ held' = Noted(p, k, held[p][k].id, 0)
    BY <1>5 DEF releaseFails
  <2> QED BY <1>2, <2>1, ReferenceStep
<1> QED BY <1>3, <1>4, <1>5

\* The transaction of acquire inserts a row, or meets one.
LEMMA TryAcquireStep ==
    ASSUME Inv, NEW p \in Process, tryAcquire(p)
    PROVE  Inv'
<1> DEFINE key == calls[p].key
<1>1. /\ calls[p].at = "try" /\ key \in Key /\ status[p] = "up" /\ Unlocked
      /\ UNCHANGED <<gate, status>>
  BY DEF Inv, TypeOK, Call, EndedQuiet, tryAcquire
<1>2. CASE /\ Conflicts(key) = {}
           /\ minted' = minted + 1
           /\ claims' = [claims EXCEPT ![key] = [id |-> minted + 1, owner |-> p]]
           /\ held' = Noted(p, key, minted + 1, 1)
           /\ calls' = Doing(p, NoCall)
  BY <1>1, <1>2, InsertStep
<1>3. CASE /\ \E k \in Conflicts(key) : calls' = Met(p, k)
           /\ UNCHANGED <<claims, minted, held>>
  <2>1. PICK k \in Conflicts(key) : calls' = Met(p, k)
    BY <1>3
  <2>2. k \in Key /\ claims[k] # NoRow
    BY <2>1, Marks DEF Conflicts, Claimed
  <2> QED BY <1>1, <1>3, <2>1, <2>2, MetStep
<1> QED BY <1>2, <1>3 DEF tryAcquire

\* Every step keeps the invariant.
LEMMA NextStep == Inv /\ [Next]_vars => Inv'
<1> SUFFICES ASSUME Inv, [Next]_vars PROVE Inv'
  OBVIOUS
<1>1. CASE UNCHANGED vars
  BY <1>1 DEF vars, Inv, TypeOK, RowsMinted, SightingsFenced, Sighted, EndedQuiet,
     GateRowAlone, InitializationFenced, NeverDispossessed, Remembered, Holds
<1>2. ASSUME NEW p \in Process, ProcessStep(p)
      PROVE  Inv'
  <2>1. ASSUME NEW k \in Key,
               acquireAgain(p, k) \/ releaseOne(p, k) \/ releaseFails(p, k)
        PROVE  Inv'
    BY <2>1, ReferenceSteps
  <2>2. ASSUME NEW k \in Key, releaseLast(p, k)
        PROVE  Inv'
    BY <2>2, ReleaseStep
  <2>3. CASE \/ \E k \in Key : acquire(p, k)
             \/ probe(p) \/ busy(p) \/ initialize(p)
    BY <2>3, CallSteps
  <2>4. CASE tryAcquire(p)
    BY <2>4, TryAcquireStep
  <2>5. CASE reap(p)
    BY <2>5, ReapStep
  <2>6. CASE tryInitialize(p)
    BY <2>6, TryInitializeStep
  <2>7. CASE endInitialization(p)
    BY <2>7, EndInitializationStep
  <2>8. CASE close(p)
    BY <2>8, CloseStep
  <2>9. CASE die(p)
    BY <2>9, DieStep
  <2> QED BY <1>2, <2>1, <2>2, <2>3, <2>4, <2>5, <2>6, <2>7, <2>8, <2>9
        DEF ProcessStep
<1> QED BY <1>1, <1>2 DEF Next

\* The invariant holds in every state.
LEMMA Invariance == Spec => []Inv
BY InitStep, NextStep, PTL DEF Spec

-----------------------------------------------------------------------------
(* What follows                                                             *)

\* The table, the maps and the calls keep their types, whatever the processes do.
THEOREM ClaimsTypeCorrect == Spec => []TypeOK
<1>1. Inv => TypeOK
  BY DEF Inv
<1> QED BY <1>1, Invariance, PTL

\* "A live/unknown process is never reaped": what a process holds stays in the
\* table under its name and its id until it releases it or dies.
THEOREM NoLiveHolderDispossessed == Spec => []NeverDispossessed
<1>1. Inv => NeverDispossessed
  BY DEF Inv
<1> QED BY <1>1, Invariance, PTL

\* A process in maintenance and a writer of a conversation never coexist: what
\* each holds is in the table, and the row of the gate is alone there.
THEOREM WritersExcludeMaintenance == Spec => []MaintenanceAlone
<1>1. Inv => MaintenanceAlone
  <2> SUFFICES ASSUME Inv, NEW p \in Process, NEW q \in Process, NEW t \in Thread,
                      Holds(p, Maintenance), Holds(q, t)
               PROVE  FALSE
    BY DEF MaintenanceAlone
  <2>0. NeverDispossessed /\ Maintenance \in Key /\ t \in Key
    BY Marks DEF Inv
  <2>1. /\ claims[Maintenance] = [id |-> held[p][Maintenance].id, owner |-> p]
        /\ claims[t] = [id |-> held[q][t].id, owner |-> q]
    BY <2>0 DEF NeverDispossessed
  <2>2. claims[Maintenance] # NoRow /\ claims[t] # NoRow
    BY <2>1, ClaimsAssumption DEF NoRow
  <2> QED BY <2>2 DEF Inv, GateRowAlone
<1> QED BY <1>1, Invariance, PTL

\* Nobody holds anything in a library while it is created, and no library is
\* initialized under maintenance: the transaction stays open meanwhile.
THEOREM CreationAlone == Spec => []InitializationAlone
<1>1. Inv => InitializationAlone
  <2> SUFFICES ASSUME Inv, NEW p \in Process, NEW k \in Key,
                      gate # NoGate, Holds(p, k)
               PROVE  k # Maintenance /\ ~gate.fresh
    BY DEF InitializationAlone
  <2>0. NeverDispossessed
    BY DEF Inv
  <2>1. claims[k] = [id |-> held[p][k].id, owner |-> p]
    BY <2>0 DEF NeverDispossessed
  <2>2. claims[k] # NoRow
    BY <2>1, ClaimsAssumption DEF NoRow
  <2> QED BY <2>2 DEF Inv, InitializationFenced
<1> QED BY <1>1, Invariance, PTL

\* The library gate keeps writers, maintainers and the creator of a library apart.
THEOREM GateKeeps == Spec => []GateExclusive
<1>1. MaintenanceAlone /\ InitializationAlone => GateExclusive
  BY DEF GateExclusive
<1> QED BY <1>1, WritersExcludeMaintenance, CreationAlone, PTL

\* Every row belongs to a process that is dead, or to one that is up and has it
\* in its map: a row whose deletion failed is not lost to its process.
THEOREM RowsStayRemembered == Spec => []RowsRemembered
<1>1. Inv => RowsRemembered
  <2> SUFFICES ASSUME Inv, NEW k \in Key, claims[k].owner # None,
                      status[claims[k].owner] # "dead"
               PROVE  /\ status[claims[k].owner] = "up"
                      /\ held[claims[k].owner][k].id = claims[k].id
    BY DEF RowsRemembered
  <2> DEFINE p == claims[k].owner
  <2>1. held[p][k].id = claims[k].id
    BY DEF Inv, Remembered
  <2>2. p \in Process /\ claims[k] # NoRow
    BY DEF Inv, TypeOK, Row, NoRow
  <2>3. claims[k].id > 0
    BY <2>2 DEF Inv, RowsMinted
  <2>4. Holds(p, k)
    BY <2>1, <2>3 DEF Holds, NoHold
  <2> HIDE DEF p
  <2>5. status[p] = "up"
    BY <2>2, <2>4 DEF Inv, EndedQuiet
  <2> QED BY <2>1, <2>5 DEF p
<1> QED BY <1>1, Invariance, PTL

=============================================================================
