------------------------ MODULE PatreonOutboxProofs ------------------------
(***************************************************************************)
(* Theorems about PatreonOutbox for any identities, tiers, grace deadlines *)
(* and brake, with their proofs.                                           *)
(*                                                                         *)
(* Inv is the inductive invariant.  That an identity has one outstanding   *)
(* row needs nothing but itself; that a row removes only granted tiers     *)
(* needs it, because acknowledging one row may take away the tiers another *)
(* row would remove; the promise of PatreonGrants needs the ids, because   *)
(* an offer's id must be new; and that a DM is handed out once needs what  *)
(* was told to be acknowledged or on its way.                              *)
(***************************************************************************)
EXTENDS PatreonOutbox, TLAPS

\* What holds of the rows of one identity, given what it owns, the last row id
\* that was handed out and the last generation that was told:
Orderly(rows, app, last, toldGen) ==
  /\ \A r1, r2 \in rows : r1 = r2
  /\ \A r \in rows :
       /\ r.remove \subseteq app.tiers /\ r.add \notin r.remove
       \* no id is ever given to two rows,
       /\ r.id = IF r.dispatched THEN last ELSE last + 1
       \* a row not dispatched has a DM nobody was told yet,
       /\ ~r.dispatched /\ r.dm # NoDm => r.gen > toldGen
  \* and what was told is acknowledged, or on its way.
  /\ \/ toldGen <= app.dmGen
     \/ \E r \in rows : r.dispatched /\ r.dm # NoDm /\ r.gen >= toldGen

Inv ==
  /\ TypeOK
  /\ \A s \in Subjects : Orderly(changes[s], applied[s], lastId[s], told[s])

-----------------------------------------------------------------------------
(* The operators                                                           *)

\* What _set_desired stores is a desired row.
LEMMA SetDesiredType ==
  ASSUME NEW s, NEW old \in Desired, NEW w \in Wanted, NEW ev \in Nat
  PROVE  SetDesired(s, old, w, ev) \in Desired
<1>1. DmFor(s, old, w, s \in Discord /\ ev # 0 /\ ev # old.event) \in Dms
  BY DEF DmFor, Dms
<1> QED BY <1>1 DEF SetDesired, Desired, Wanted

\* The row _plan wants is new, removes only granted tiers, and has a DM of a
\* generation that was not acknowledged.
LEMMA RowForFacts ==
  ASSUME TypeOK, NEW s \in Subjects, NEW d \in Desired, NEW a \in Applied,
         NEW h \in BOOLEAN
  PROVE  /\ RowFor(s, d, a, h) \in Row
         /\ RowFor(s, d, a, h).remove \subseteq a.tiers
         /\ RowFor(s, d, a, h).add \notin RowFor(s, d, a, h).remove
         /\ ~RowFor(s, d, a, h).dispatched
         /\ RowFor(s, d, a, h).id = lastId[s] + 1
         /\ RowFor(s, d, a, h).dm # NoDm => RowFor(s, d, a, h).gen > a.dmGen
         /\ h => RowFor(s, d, a, h).remove = {}
  BY DEF RowFor, Row, TypeOK, Desired, Applied, Tiers, NoTier, NoDm, Dms

\* _plan keeps the rows there are, or leaves the one it wants, or none; and it
\* does not touch a dispatched one.
LEMMA PlanFacts ==
  ASSUME NEW s, NEW d, NEW a, NEW h, NEW rows
  PROVE  \/ Plan(s, d, a, h, rows) = rows
         \/ /\ \A r \in rows : ~r.dispatched
            /\ Plan(s, d, a, h, rows) \in {{}, {RowFor(s, d, a, h)}}
  BY DEF Plan

\* Planning leaves orderly rows orderly.
LEMMA PlanOrderly ==
  ASSUME TypeOK, NEW s \in Subjects, NEW d \in Desired, NEW a \in Applied,
         NEW h \in BOOLEAN, NEW rows \in SUBSET Row,
         Orderly(rows, a, lastId[s], told[s])
  PROVE  /\ Plan(s, d, a, h, rows) \in SUBSET Row
         /\ Orderly(Plan(s, d, a, h, rows), a, lastId[s], told[s])
<1> DEFINE row == RowFor(s, d, a, h)
           planned1 == Plan(s, d, a, h, rows)
<1>1. CASE planned1 = rows
  BY <1>1
<1>2. CASE (\A r \in rows : ~r.dispatched) /\ planned1 \in {{}, {row}}
  <2>1. told[s] <= a.dmGen
    BY <1>2 DEF Orderly
  <2>2. row \in Row /\ row.remove \subseteq a.tiers /\ row.add \notin row.remove
        /\ ~row.dispatched /\ row.id = lastId[s] + 1
        /\ (row.dm # NoDm => row.gen > a.dmGen)
    BY RowForFacts
  <2>3. row.dm # NoDm => row.gen > told[s]
    BY <2>1, <2>2 DEF TypeOK, Row, Applied
  <2>4. CASE planned1 = {}
    BY <2>1, <2>4 DEF Orderly
  <2>5. CASE planned1 = {row}
    BY <2>1, <2>2, <2>3, <2>5 DEF Orderly
  <2> QED BY <1>2, <2>4, <2>5
<1> QED BY <1>1, <1>2, PlanFacts

\* So does a recompute, for applied rows that only grew.
LEMMA ComputeOrderly ==
  ASSUME Inv, NEW apps \in [Subjects -> Applied], NEW event \in [Subjects -> Nat],
         NEW h \in BOOLEAN, Compute(apps, event, h),
         \A s \in Subjects : /\ applied[s].tiers \subseteq apps[s].tiers
                             /\ applied[s].dmGen = apps[s].dmGen
  PROVE  /\ desired' \in [Subjects -> Desired]
         /\ applied' \in [Subjects -> Applied]
         /\ changes' \in [Subjects -> SUBSET Row]
         /\ lastId' \in [Subjects -> Nat] /\ told' \in [Subjects -> Nat]
         /\ held' \in BOOLEAN /\ planned' \in BOOLEAN
         /\ \A s \in Subjects :
              Orderly(changes'[s], applied'[s], lastId'[s], told'[s])
<1> DEFINE des == Recomputed(apps, event)
<1>1. des \in [Subjects -> Desired]
  <2>1. ASSUME NEW s \in Subjects PROVE des[s] \in Desired
    <3>1. desired[s] \in Desired /\ wanted[s] \in Wanted /\ event[s] \in Nat
      BY DEF Inv, TypeOK
    <3>2. SetDesired(s, desired[s], wanted[s], event[s]) \in Desired
      BY <3>1, SetDesiredType
    <3> QED BY <3>1, <3>2 DEF Recomputed
  <2> QED BY <2>1 DEF Recomputed
<1>2. /\ desired' = des /\ applied' = apps /\ held' = h /\ planned' = apply
      /\ changes' = [s \in Subjects |-> Plan(s, des[s], apps[s], h, changes[s])]
      /\ lastId' = lastId /\ told' = told
  BY DEF Compute, PlanAll
<1> HIDE DEF des
<1>3. ASSUME NEW s \in Subjects
      PROVE  /\ Plan(s, des[s], apps[s], h, changes[s]) \in SUBSET Row
             /\ Orderly(Plan(s, des[s], apps[s], h, changes[s]), apps[s],
                        lastId[s], told[s])
  <2>1. Orderly(changes[s], applied[s], lastId[s], told[s])
    BY DEF Inv
  <2>2. Orderly(changes[s], apps[s], lastId[s], told[s])
    BY <2>1 DEF Orderly
  <2>3. changes[s] \in SUBSET Row /\ des[s] \in Desired /\ apps[s] \in Applied
    BY <1>1 DEF Inv, TypeOK
  <2> QED BY <2>2, <2>3, PlanOrderly DEF Inv
<1>4. lastId \in [Subjects -> Nat] /\ told \in [Subjects -> Nat] /\ apply \in BOOLEAN
  BY DEF Inv, TypeOK
<1> QED BY <1>1, <1>2, <1>3, <1>4

-----------------------------------------------------------------------------
(* The invariant                                                           *)

\* Nothing is queued, granted or told at first.
LEMMA InitInv == Init => Inv
<1> SUFFICES ASSUME Init PROVE Inv
  OBVIOUS
<1>1. TypeOK
  <2>1. Unlinked \in Wanted /\ NoDesired \in Desired /\ NoApplied \in Applied
    BY OutboxAssumption DEF OutboxAssumption, Unlinked, Wanted, NoDesired, Desired,
       NoApplied, Applied, Dms
  <2> QED BY <2>1, OutboxAssumption DEF OutboxAssumption, Init, TypeOK
<1>2. ASSUME NEW s \in Subjects
      PROVE  Orderly(changes[s], applied[s], lastId[s], told[s])
  BY DEF Init, Orderly, NoApplied
<1> QED BY <1>1, <1>2 DEF Inv

\* Every transaction keeps the rows of every identity orderly.
LEMMA StepInv == Inv /\ [Next]_vars => Inv'
<1> SUFFICES ASSUME Inv, [Next]_vars PROVE Inv'
  OBVIOUS
<1> USE DEF Inv
<1>a. /\ applied \in [Subjects -> Applied]
      /\ NoEvents \in [Subjects -> Nat]
      /\ \A h : (held \/ h) \in BOOLEAN
  BY DEF TypeOK, NoEvents
<1>1. CASE Sync
  <2>1. Compute(applied, NoEvents, held \/ BrakeTrips(Recomputed(applied, NoEvents)))
        /\ UNCHANGED <<wanted, approved, apply, suppress, edits>>
    BY <1>1 DEF Sync
  <2> QED BY <2>1, <1>a, ComputeOrderly DEF TypeOK
<1>2. ASSUME NEW linker \in {{}} \cup {{s} : s \in Discord}, RecomputeLink(linker)
      PROVE  Inv'
  <2>1. EventOf(linker) \in [Subjects -> Nat]
    BY DEF EventOf, TypeOK, Wanted
  <2>2. held \in BOOLEAN
    BY DEF TypeOK
  <2> QED BY <2>1, <2>2, <1>2, <1>a, ComputeOrderly DEF RecomputeLink, TypeOK
<1>3. ASSUME NEW grants \in [Player -> Tiers \cup {NoTier}], ImportGrants(grants)
      PROVE  Inv'
  <2> DEFINE seeded == {s \in Player : grants[s] # NoTier /\ grants[s] \notin applied[s].tiers}
             apps == [s \in Subjects |->
                        IF s \in seeded
                          THEN [applied[s] EXCEPT !.tiers = @ \cup {grants[s]}, !.ever = TRUE]
                          ELSE applied[s]]
  <2>1. /\ Compute(apps, NoEvents, held)
        /\ edits' = edits + 1
        /\ UNCHANGED <<wanted, approved, apply, suppress>>
    BY <1>3 DEF ImportGrants
  <2>2. ASSUME NEW s \in Subjects
        PROVE  /\ apps[s] \in Applied
               /\ applied[s].tiers \subseteq apps[s].tiers
               /\ applied[s].dmGen = apps[s].dmGen
    BY DEF TypeOK, Applied
  <2>3. apps \in [Subjects -> Applied] /\ held \in BOOLEAN
    BY <2>2 DEF TypeOK
  <2> HIDE DEF apps
  <2>4. /\ desired' \in [Subjects -> Desired] /\ applied' \in [Subjects -> Applied]
        /\ changes' \in [Subjects -> SUBSET Row]
        /\ lastId' \in [Subjects -> Nat] /\ told' \in [Subjects -> Nat]
        /\ held' \in BOOLEAN /\ planned' \in BOOLEAN
        /\ \A s \in Subjects :
             Orderly(changes'[s], applied'[s], lastId'[s], told'[s])
    BY <2>1, <2>2, <2>3, <1>a, ComputeOrderly
  <2> QED BY <2>1, <2>4 DEF TypeOK
<1>4. CASE ReleaseBrake
  <2>1. /\ Compute(applied, NoEvents, FALSE)
        /\ UNCHANGED <<wanted, apply, suppress, edits>>
    BY <1>4 DEF ReleaseBrake
  <2>2. approved' \in [Subjects -> Nat]
    <3>1. desired' = Recomputed(applied, NoEvents) /\ desired' \in [Subjects -> Desired]
      BY <2>1, <1>a, ComputeOrderly DEF Compute
    <3> QED BY <1>4, <3>1 DEF ReleaseBrake, TypeOK, Desired
  <2> QED BY <2>1, <2>2, <1>a, ComputeOrderly DEF TypeOK
<1>5. ASSUME NEW target \in {Discord, Player}, ListChanges(target)
      PROVE  Inv'
  <2> DEFINE sent == [s \in Subjects |-> IF s \in target THEN Listed(s) ELSE {}]
  <2>1. /\ changes' = [s \in Subjects |-> (changes[s] \ sent[s])
                       \cup {[r EXCEPT !.dispatched = TRUE] : r \in sent[s]}]
        /\ lastId' = [s \in Subjects |-> Newest(lastId[s], {r.id : r \in sent[s]})]
        /\ told' = [s \in Subjects |->
                      Newest(told[s], {r.gen : r \in {q \in sent[s] : q.dm # NoDm}})]
        /\ UNCHANGED <<wanted, desired, applied, held, approved, apply, suppress,
                       edits, planned>>
    BY <1>5 DEF ListChanges
  <2>2. \A s \in Subjects : sent[s] \subseteq changes[s]
    BY DEF Listed
  <2> HIDE DEF sent
  <2>3. ASSUME NEW s \in Subjects
        PROVE  /\ changes'[s] \in SUBSET Row /\ lastId'[s] \in Nat /\ told'[s] \in Nat
               /\ Orderly(changes'[s], applied'[s], lastId'[s], told'[s])
    <3>1. /\ changes[s] \in SUBSET Row /\ lastId[s] \in Nat /\ told[s] \in Nat
          /\ Orderly(changes[s], applied[s], lastId[s], told[s])
          /\ applied'[s] = applied[s]
      BY <2>1 DEF TypeOK
    <3>2. CASE sent[s] = {}
      <4>1. changes'[s] = changes[s] /\ lastId'[s] = lastId[s] /\ told'[s] = told[s]
        BY <2>1, <3>2 DEF Newest
      <4> QED BY <3>1, <4>1
    <3>3. CASE sent[s] # {}
      <4>1. PICK r \in changes[s] : sent[s] = {r} /\ changes[s] = {r}
        BY <2>2, <3>1, <3>3 DEF Orderly
      <4> DEFINE r1 == [r EXCEPT !.dispatched = TRUE]
      <4>2. r \in Row
        BY <3>1
      <4>3. /\ r1 \in Row /\ r1.dispatched /\ r1.id = r.id /\ r1.gen = r.gen
            /\ r1.dm = r.dm /\ r1.add = r.add /\ r1.remove = r.remove
        BY <4>2 DEF Row
      <4>4. changes'[s] = {r1}
        BY <2>1, <4>1
      <4>5. lastId'[s] = r.id
        <5>1. lastId'[s] = Newest(lastId[s], {r.id})
          BY <2>1, <4>1
        <5>2. r.id \in {lastId[s], lastId[s] + 1}
          BY <3>1 DEF Orderly
        <5> QED BY <5>1, <5>2, <3>1 DEF Newest
      <4>6. told'[s] = IF r.dm # NoDm /\ r.gen > told[s] THEN r.gen ELSE told[s]
        <5>1. CASE r.dm # NoDm
          BY <5>1, <2>1, <4>1 DEF Newest
        <5>2. CASE r.dm = NoDm
          BY <5>2, <2>1, <4>1 DEF Newest
        <5> QED BY <5>1, <5>2
      <4>7. told'[s] \in Nat /\ lastId'[s] \in Nat
        BY <3>1, <4>2, <4>5, <4>6 DEF Row
      <4>8. \/ told'[s] <= applied[s].dmGen
            \/ r1.dm # NoDm /\ r1.gen >= told'[s]
        <5>1. applied[s].dmGen \in Nat /\ r.gen \in Nat
          BY <4>2 DEF TypeOK, Applied, Row
        <5>2. \/ told[s] <= applied[s].dmGen
              \/ r.dm # NoDm /\ r.gen >= told[s]
          BY <3>1, <4>1 DEF Orderly
        <5> QED BY <5>1, <5>2, <3>1, <4>3, <4>6
      <4>9. r.remove \subseteq applied[s].tiers /\ r.add \notin r.remove
        BY <3>1 DEF Orderly
      <4> HIDE DEF r1
      <4> QED BY <3>1, <4>3, <4>4, <4>5, <4>7, <4>8, <4>9 DEF Orderly
    <3> QED BY <3>2, <3>3
  <2> QED BY <2>1, <2>3 DEF TypeOK
<1>6. ASSUME NEW s \in Subjects, NEW row \in changes[s], AckChange(s, row)
      PROVE  Inv'
  <2> DEFINE app == Acknowledged(applied[s], row)
             rows == Plan(s, desired[s], app, held, changes[s] \ {row})
  <2>1. /\ applied' = [applied EXCEPT ![s] = app]
        /\ changes' = [changes EXCEPT ![s] = rows]
        /\ UNCHANGED <<wanted, desired, lastId, held, approved, apply, suppress,
                       edits, history>>
        /\ row.dispatched
    BY <1>6 DEF AckChange
  <2>2. row \in Row /\ applied[s] \in Applied
    BY DEF TypeOK
  <2>3. app \in Applied
    BY <2>2 DEF Acknowledged, Applied, Row
  <2>4. changes[s] \ {row} = {}
    BY DEF Orderly
  <2>5. told[s] <= app.dmGen
    <3>1. told[s] <= applied[s].dmGen \/ (row.dm # NoDm /\ row.gen >= told[s])
      BY DEF Orderly
    <3> QED BY <2>2, <3>1 DEF Acknowledged, TypeOK, Applied, Row
  <2>6. Orderly(changes[s] \ {row}, app, lastId[s], told[s])
    BY <2>4, <2>5 DEF Orderly
  <2>7. desired[s] \in Desired /\ held \in BOOLEAN /\ changes[s] \ {row} \in SUBSET Row
    BY DEF TypeOK
  <2>8. rows \in SUBSET Row /\ Orderly(rows, app, lastId[s], told[s])
    BY <2>3, <2>6, <2>7, PlanOrderly
  <2> HIDE DEF app, rows
  <2>9. TypeOK'
    BY <2>1, <2>3, <2>8 DEF TypeOK, history
  <2>10. ASSUME NEW t \in Subjects
         PROVE  Orderly(changes'[t], applied'[t], lastId'[t], told'[t])
    BY <2>1, <2>8 DEF TypeOK, history
  <2> QED BY <2>9, <2>10
<1>7. ASSUME NEW s \in Subjects, Entitle(s, {edits + 1, wanted[s].event} \ {0})
      PROVE  Inv'
  <2>1. PICK w \in {Unlinked} \cup
               [linked : {TRUE}, tier : Tiers \cup {NoTier}, grace : 0..MaxGrace,
                event : {edits + 1, wanted[s].event} \ {0}] :
          wanted' = [wanted EXCEPT ![s] = w]
    BY <1>7 DEF Entitle
  <2>2. /\ edits' = edits + 1
        /\ UNCHANGED <<desired, applied, changes, lastId, held, approved, apply,
                       suppress, history>>
    BY <1>7 DEF Entitle
  <2>3. wanted[s].event \in Nat /\ edits + 1 \in Nat
    BY DEF TypeOK, Wanted
  <2>4. Unlinked \in Wanted
    BY OutboxAssumption DEF OutboxAssumption, Unlinked, Wanted
  <2>5. w \in Wanted
    BY <2>1, <2>3, <2>4 DEF Wanted
  <2> QED BY <2>1, <2>2, <2>5 DEF TypeOK, history
<1>8. CASE Restart
  BY <1>8, OutboxAssumption DEF OutboxAssumption, Restart, TypeOK, history
<1>9. CASE UNCHANGED vars
  BY <1>9 DEF vars, TypeOK, history
<1> QED BY <1>1, <1>2, <1>3, <1>4, <1>5, <1>6, <1>7, <1>8, <1>9 DEF Next

\* Inv holds in every reachable state.
THEOREM Invariance == Spec => []Inv
<1> QED BY InitInv, StepInv, PTL DEF Spec

-----------------------------------------------------------------------------
(* What it gives                                                           *)

\* Every table keeps its type: in particular no tier outside the configured
\* ones is ever desired, queued or recorded, and no absent tier is recorded as
\* granted (_set_desired, _plan, ack_changes, import_links).
THEOREM TypeCorrect == Spec => []TypeOK
<1>1. Inv => TypeOK
  BY DEF Inv
<1> QED BY <1>1, Invariance, PTL

\* No identity ever has two rows outstanding, whatever the order of syncs,
\* polls, acknowledgements, unlinks, imports, releases and restarts (_plan).
THEOREM AtMostOneRow == Spec => []OneLiveRow
<1>1. Inv => OneLiveRow
  BY DEF Inv, Orderly, OneLiveRow
<1> QED BY <1>1, Invariance, PTL

\* An applier is never asked to take away a tier it did not acknowledge having
\* granted, nor to grant and take the same one (_plan, ack_changes).
THEOREM OnlyGrantedRemoved == Spec => []RemovesOnlyGranted
<1>1. Inv => RemovesOnlyGranted
  BY DEF Inv, Orderly, RemovesOnlyGranted
<1> QED BY <1>1, Invariance, PTL

-----------------------------------------------------------------------------
(* What a step does to one identity                                        *)

NoneSent(rows) == \A r \in rows : ~r.dispatched

\* A recompute or no change at all: dispatched rows stay, none becomes one, and
\* only imports add what is owned.
Replans(s) ==
  /\ applied[s].tiers \subseteq applied'[s].tiers
  /\ applied'[s].tiers # applied[s].tiers => s \in Player
  /\ lastId'[s] = lastId[s]
  /\ \/ changes'[s] = changes[s]
     \/ NoneSent(changes[s]) /\ NoneSent(changes'[s])

\* A poll carries its row.
Delivers(s) ==
  \E r \in Listed(s) :
    /\ changes[s] = {r} /\ changes'[s] = {[r EXCEPT !.dispatched = TRUE]}
    /\ lastId'[s] = r.id
    /\ applied'[s] = applied[s] /\ held' = held

\* Its row is acknowledged.
Acks(s) ==
  \E r \in changes[s] :
    /\ r.dispatched /\ changes[s] = {r} /\ NoneSent(changes'[s])
    /\ applied'[s] = Acknowledged(applied[s], r)
    /\ lastId'[s] = lastId[s]

\* What _plan leaves has no dispatched row, or is what there was.
LEMMA PlanSendsNothing ==
  ASSUME NEW s, NEW d, NEW a, NEW h, NEW rows
  PROVE  \/ Plan(s, d, a, h, rows) = rows
         \/ NoneSent(rows) /\ NoneSent(Plan(s, d, a, h, rows))
<1>1. ~RowFor(s, d, a, h).dispatched
  BY DEF RowFor
<1> QED BY <1>1, PlanFacts DEF NoneSent

\* A recompute replans every identity.
LEMMA ComputeReplans ==
  ASSUME NEW s \in Subjects, NEW apps, NEW event, NEW h, Compute(apps, event, h),
         applied[s].tiers \subseteq apps[s].tiers,
         apps[s].tiers # applied[s].tiers => s \in Player
  PROVE  Replans(s)
<1>1. /\ applied' = apps /\ lastId' = lastId
      /\ changes'[s] = Plan(s, Recomputed(apps, event)[s], apps[s], h, changes[s])
  BY DEF Compute, PlanAll
<1> QED BY <1>1, PlanSendsNothing DEF Replans

\* Every transaction does one of the three to each identity.
LEMMA StepKinds ==
  ASSUME Inv, [Next]_vars, NEW s \in Subjects
  PROVE  Replans(s) \/ Delivers(s) \/ Acks(s)
<1> USE DEF Inv
<1>1. CASE Sync
  BY <1>1, ComputeReplans DEF Sync
<1>2. ASSUME NEW linker \in {{}} \cup {{d} : d \in Discord}, RecomputeLink(linker)
      PROVE  Replans(s)
  BY <1>2, ComputeReplans DEF RecomputeLink
<1>3. ASSUME NEW grants \in [Player -> Tiers \cup {NoTier}], ImportGrants(grants)
      PROVE  Replans(s)
  <2> DEFINE seeded == {t \in Player : grants[t] # NoTier /\ grants[t] \notin applied[t].tiers}
             apps == [t \in Subjects |->
                        IF t \in seeded
                          THEN [applied[t] EXCEPT !.tiers = @ \cup {grants[t]}, !.ever = TRUE]
                          ELSE applied[t]]
  <2>1. Compute(apps, NoEvents, held)
    BY <1>3 DEF ImportGrants
  <2>2. applied[s].tiers \subseteq apps[s].tiers
    BY DEF TypeOK, Applied
  <2>3. apps[s].tiers # applied[s].tiers => s \in Player
    OBVIOUS
  <2> HIDE DEF apps
  <2> QED BY <2>1, <2>2, <2>3, ComputeReplans
<1>4. CASE ReleaseBrake
  BY <1>4, ComputeReplans DEF ReleaseBrake
<1>5. ASSUME NEW target \in {Discord, Player}, ListChanges(target)
      PROVE  Replans(s) \/ Delivers(s)
  <2> DEFINE sent == [t \in Subjects |-> IF t \in target THEN Listed(t) ELSE {}]
  <2>1. /\ changes'[s] = (changes[s] \ sent[s])
                           \cup {[r EXCEPT !.dispatched = TRUE] : r \in sent[s]}
        /\ lastId'[s] = Newest(lastId[s], {r.id : r \in sent[s]})
        /\ applied' = applied /\ held' = held
    BY <1>5 DEF ListChanges
  <2>2. sent[s] \subseteq Listed(s) /\ Listed(s) \subseteq changes[s]
    BY DEF Listed
  <2> HIDE DEF sent
  <2>3. CASE sent[s] = {}
    BY <2>1, <2>3 DEF Replans, Newest
  <2>4. CASE sent[s] # {}
    <3>1. PICK r \in Listed(s) : sent[s] = {r} /\ changes[s] = {r}
      BY <2>2, <2>4 DEF Orderly
    <3>2. r.id \in {lastId[s], lastId[s] + 1} /\ lastId[s] \in Nat
      BY <3>1 DEF Orderly, TypeOK
    <3>3. lastId'[s] = r.id
      BY <2>1, <3>1, <3>2 DEF Newest
    <3> QED BY <2>1, <3>1, <3>3 DEF Delivers
  <2> QED BY <2>3, <2>4
<1>6. ASSUME NEW t \in Subjects, NEW row \in changes[t], AckChange(t, row)
      PROVE  Replans(s) \/ Acks(s)
  <2>1. CASE s = t
    <3>1. changes[s] = {row} /\ changes[s] \ {row} = {}
      BY <2>1 DEF Orderly
    <3>2. NoneSent(Plan(s, desired[s], Acknowledged(applied[s], row), held, {}))
      BY PlanSendsNothing DEF NoneSent
    <3> QED BY <1>6, <2>1, <3>1, <3>2 DEF AckChange, Acks, TypeOK
  <2>2. CASE s # t
    BY <1>6, <2>2 DEF AckChange, Replans, TypeOK
  <2> QED BY <2>1, <2>2
<1>7. ASSUME NEW t \in Subjects, Entitle(t, {edits + 1, wanted[t].event} \ {0})
      PROVE  Replans(s)
  BY <1>7 DEF Entitle, Replans
<1>8. CASE Restart
  BY <1>8 DEF Restart, Replans
<1>9. CASE UNCHANGED vars
  BY <1>9 DEF vars, Replans
<1> QED BY <1>1, <1>2, <1>3, <1>4, <1>5, <1>6, <1>7, <1>8, <1>9 DEF Next

-----------------------------------------------------------------------------
(* What no step ever does                                                  *)

\* A dispatched row is neither rewritten nor cancelled, and it leaves the
\* outbox only with its exact contents recorded (_plan, ack_changes).
THEOREM DispatchedNeverTouched == Spec => DispatchedImmutable
<1>1. ASSUME Inv, [Next]_vars, NEW s \in Subjects, NEW r \in changes[s], r.dispatched
      PROVE  r \in changes'[s] \/ applied'[s] = Acknowledged(applied[s], r)
  <2>1. CASE Replans(s)
    BY <1>1, <2>1 DEF Replans, NoneSent
  <2>2. CASE Delivers(s)
    <3>1. r \in Row
      BY <1>1 DEF Inv, TypeOK
    <3>2. [r EXCEPT !.dispatched = TRUE] = r
      BY <1>1, <3>1 DEF Row
    <3> QED BY <1>1, <2>2, <3>2 DEF Delivers
  <2>3. CASE Acks(s)
    BY <1>1, <2>3 DEF Acks
  <2> QED BY <1>1, <2>1, <2>2, <2>3, StepKinds
<1>2. Inv /\ [Next]_vars =>
        [\A s \in Subjects : \A r \in changes[s] :
           r.dispatched => \/ r \in changes'[s]
                           \/ applied'[s] = Acknowledged(applied[s], r)]_vars
  BY <1>1
<1> QED BY <1>2, Invariance, PTL DEF Spec, DispatchedImmutable

\* A DM that is handed out for the first time is of a later generation than
\* any that was: no transition is announced twice (_plan, ack_changes).
THEOREM AnnouncedOnce == Spec => OneDmPerGeneration
<1>1. Inv =>
        [\A s \in Subjects : \A r \in changes[s] :
           /\ ~r.dispatched /\ r.dm # NoDm
           /\ [r EXCEPT !.dispatched = TRUE] \in changes'[s]
           => r.gen > told[s]]_vars
  BY DEF Inv, Orderly
<1> QED BY <1>1, Invariance, PTL DEF OneDmPerGeneration

\* While the brake holds, and in the step that makes it hold, no removal goes
\* out that an applier had not been given before (_plan, list_changes).
THEOREM HeldRemovalsWait == Spec => NoHeldRemoval
<1>1. ASSUME Inv, [Next]_vars, held \/ held', NEW s \in Subjects,
             NEW r \in changes'[s], r.dispatched, r.remove # {}
      PROVE  r \in changes[s]
  <2>1. CASE Replans(s)
    BY <1>1, <2>1 DEF Replans, NoneSent
  <2>2. CASE Delivers(s)
    <3>1. PICK q \in Listed(s) : /\ changes'[s] = {[q EXCEPT !.dispatched = TRUE]}
                                 /\ held' = held
      BY <2>2 DEF Delivers
    <3>2. q \in Row /\ (held => q.remove = {})
      BY <1>1 DEF Listed, Inv, TypeOK
    <3>3. r.remove = q.remove
      BY <3>1, <3>2 DEF Row
    <3> QED BY <1>1, <3>1, <3>2, <3>3
  <2>3. CASE Acks(s)
    BY <1>1, <2>3 DEF Acks, NoneSent
  <2> QED BY <1>1, <2>1, <2>2, <2>3, StepKinds
<1>2. Inv /\ [Next]_vars =>
        [held \/ held' =>
           \A s \in Subjects : \A r \in changes'[s] :
             r.dispatched /\ r.remove # {} => r \in changes[s]]_vars
  BY <1>1
<1> QED BY <1>2, Invariance, PTL DEF Spec, NoHeldRemoval

\* In shadow mode a recompute plans nothing and records nothing.
LEMMA ComputeInShadow ==
  ASSUME NEW s \in Subjects, NEW event, NEW h, Compute(applied, event, h), ~apply
  PROVE  changes'[s] = changes[s] /\ applied'[s] = applied[s]
BY DEF Compute, PlanAll, Plan

\* In shadow mode nothing is queued, dispatched or recorded, but for the grants
\* of an explicit import (_plan, list_changes, ack_changes).
THEOREM ShadowStaysSilent == Spec => ShadowIsSilent
<1>1. ASSUME Inv, [Next]_vars, ~apply, NEW s \in Subjects
      PROVE  /\ changes'[s] = changes[s]
             /\ applied'[s] # applied[s] => s \in Player
  <2>1. CASE Sync
    BY <1>1, <2>1, ComputeInShadow DEF Sync
  <2>2. ASSUME NEW linker \in {{}} \cup {{d} : d \in Discord}, RecomputeLink(linker)
        PROVE  changes'[s] = changes[s] /\ applied'[s] = applied[s]
    BY <1>1, <2>2, ComputeInShadow DEF RecomputeLink
  <2>3. ASSUME NEW grants \in [Player -> Tiers \cup {NoTier}], ImportGrants(grants)
        PROVE  /\ changes'[s] = changes[s]
               /\ applied'[s] # applied[s] => s \in Player
    BY <1>1, <2>3 DEF ImportGrants, Compute, PlanAll, Plan
  <2>4. CASE ReleaseBrake
    BY <1>1, <2>4, ComputeInShadow DEF ReleaseBrake
  <2>5. CASE UNCHANGED <<changes, applied>>
    BY <2>5
  <2> QED
    BY <1>1, <2>1, <2>2, <2>3, <2>4, <2>5
       DEF Next, ListChanges, AckChange, Entitle, Restart, vars
<1>2. Inv /\ [Next]_vars =>
        [~apply => \A s \in Subjects :
           /\ changes'[s] = changes[s]
           /\ applied'[s] # applied[s] => s \in Player]_vars
  BY <1>1
<1> QED BY <1>2, Invariance, PTL DEF Spec, ShadowIsSilent

-----------------------------------------------------------------------------
(* The promise to appliers                                                 *)

\* The offer of an identity none of whose rows is dispatched.
LEMMA NoOffer == ASSUME NEW s, NoneSent(changes[s]) PROVE OfferOf(s) = {}
  BY DEF OfferOf, NoneSent

\* One identity's part of a step is a step of the promise.
LEMMA OfferStep ==
  ASSUME Inv, [Next]_vars, NEW s \in Subjects
  PROVE  Grants!Idle(s) \/ Grants!Offer(s) \/ Grants!Settle(s) \/ Grants!Import(s)
<1> DEFINE owned == [t \in Subjects |-> applied[t].tiers]
           offer == [t \in Subjects |-> OfferOf(t)]
<1>a. /\ owned[s] = applied[s].tiers /\ offer[s] = OfferOf(s)
      /\ owned'[s] = applied'[s].tiers /\ offer'[s] = OfferOf(s)'
  OBVIOUS
<1>1. CASE Replans(s)
  <2>1. OfferOf(s)' = OfferOf(s)
    <3>1. CASE changes'[s] = changes[s]
      BY <3>1 DEF OfferOf
    <3>2. CASE NoneSent(changes[s]) /\ NoneSent(changes'[s])
      BY <3>2 DEF OfferOf, NoneSent
    <3> QED BY <1>1, <3>1, <3>2 DEF Replans
  <2>2. CASE applied'[s].tiers = applied[s].tiers
    BY <1>1, <2>1, <2>2 DEF Replans, Grants!Idle
  <2>3. CASE applied'[s].tiers # applied[s].tiers
    BY <1>1, <2>1, <2>3 DEF Replans, Grants!Import
  <2> QED BY <2>2, <2>3
<1>2. CASE Delivers(s)
  <2>1. PICK r \in Listed(s) :
           /\ changes[s] = {r} /\ changes'[s] = {[r EXCEPT !.dispatched = TRUE]}
           /\ lastId'[s] = r.id /\ applied'[s] = applied[s]
    BY <1>2 DEF Delivers
  <2> DEFINE c == [id |-> r.id, add |-> r.add, remove |-> r.remove]
             q == [r EXCEPT !.dispatched = TRUE]
  <2>2. /\ r \in Row /\ lastId[s] \in Nat
        /\ r.remove \subseteq applied[s].tiers /\ r.add \notin r.remove
        /\ r.id = IF r.dispatched THEN lastId[s] ELSE lastId[s] + 1
    BY <2>1 DEF Inv, TypeOK, Orderly
  <2>3. q.dispatched /\ q.id = r.id /\ q.add = r.add /\ q.remove = r.remove
    BY <2>2 DEF Row
  <2>4. OfferOf(s)' = {c}
    <3> HIDE DEF q
    <3>1. changes'[s] = {q}
      BY <2>1 DEF q
    <3> QED BY <2>3, <3>1 DEF OfferOf
  <2>5. CASE r.dispatched
    <3>1. OfferOf(s) = {c}
      BY <2>1, <2>5 DEF OfferOf
    <3> QED BY <2>1, <2>2, <2>4, <2>5, <3>1 DEF Grants!Idle
  <2>6. CASE ~r.dispatched
    <3>1. OfferOf(s) = {}
      BY <2>1, <2>6 DEF OfferOf
    <3>2. c \in Grants!Change
      BY <2>2 DEF Row, Grants!Change
    <3>3. c.id = r.id /\ c.add = r.add /\ c.remove = r.remove /\ r.id > lastId[s]
      BY <2>2, <2>6
    <3> HIDE DEF c
    <3> QED BY <2>1, <2>2, <2>4, <3>1, <3>2, <3>3 DEF Grants!Offer
  <2> QED BY <2>5, <2>6
<1>3. CASE Acks(s)
  <2>1. PICK r \in changes[s] :
          /\ r.dispatched /\ changes[s] = {r} /\ NoneSent(changes'[s])
          /\ applied'[s] = Acknowledged(applied[s], r) /\ lastId'[s] = lastId[s]
    BY <1>3 DEF Acks
  <2> DEFINE c == [id |-> r.id, add |-> r.add, remove |-> r.remove]
  <2>2. c \in OfferOf(s)
    BY <2>1 DEF OfferOf
  <2>3. OfferOf(s)' = {}
    BY <2>1 DEF OfferOf, NoneSent
  <2>4. applied'[s].tiers = (applied[s].tiers \ c.remove)
                              \cup (IF c.add = NoTier THEN {} ELSE {c.add})
    BY <2>1 DEF Acknowledged
  <2> HIDE DEF c
  <2> QED BY <2>1, <2>2, <2>3, <2>4 DEF Grants!Settle
<1> QED BY <1>1, <1>2, <1>3, StepKinds

\* The outbox keeps the promise of PatreonGrants to every applier, however
\* many syncs, brakes, DMs and restarts there are.
THEOREM OutboxImplementsGrants == Spec => ImplementsGrants
<1>1. Init => Grants!Init
  BY DEF Init, Grants!Init, OfferOf, NoApplied
<1>2. ASSUME Inv, [Next]_vars PROVE [Grants!Next]_(Grants!vars)
  BY <1>2, OfferStep DEF Grants!Next
<1> QED BY <1>1, <1>2, Invariance, PTL DEF Spec, ImplementsGrants, Grants!Spec
=============================================================================
