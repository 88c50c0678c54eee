-------------------------- MODULE PatreonPlanProofs --------------------------
(***************************************************************************)
(* Theorems about what PatreonOutbox still has to do, for any identities,  *)
(* tiers and brake: while the last recompute ran with apply on, every      *)
(* identity has a row in an applier's hands, or the row that leads from    *)
(* what it owns to what it should own, or it is there.                     *)
(*                                                                         *)
(* Planned is the inductive invariant.  It holds a row to every field      *)
(* _plan gives one, the DM included, because an acknowledgement replans    *)
(* from all of them.                                                       *)
(***************************************************************************)
EXTENDS PatreonOutboxProofs, WellFoundedInduction, FiniteSetTheorems

\* The row says what _plan would plan now.
Says(r, d, a, h) ==
  LET lowered == d.tier < Top(a.tiers)
      dm == IF a.dmGen < d.gen /\ ~(h /\ lowered) THEN d.dm ELSE NoDm
      notice == dm = "payment_declined"
  IN /\ r.dm = dm /\ r.gen = d.gen
     /\ r.add = IF notice \/ d.tier \in a.tiers THEN NoTier ELSE d.tier
     /\ r.remove = IF h \/ notice THEN {} ELSE a.tiers \ {d.tier}

\* No row is wanted: desired and applied agree, as far as the brake lets them.
Agrees(d, a, h) ==
  d.tier \in a.tiers \cup {NoTier} /\ (h \/ a.tiers \subseteq {d.tier})

\* What a recompute with apply on leaves of one identity.
Settled(rows, d, a, h) ==
  \/ \E r \in rows : r.dispatched
  \/ rows = {} /\ Agrees(d, a, h)
  \/ \E r \in rows : rows = {r} /\ Says(r, d, a, h)

\* An identity without a desired row wants nothing and was never planned for.
Unknown(rows, d) == d.gen = 0 => d.tier = NoTier /\ rows = {}

Planned ==
  \A s \in Subjects :
    /\ Unknown(changes[s], desired[s])
    /\ planned => Settled(changes[s], desired[s], applied[s], held)

-----------------------------------------------------------------------------
\* The row _plan wants says what it should, and if it is empty none is needed.
LEMMA RowForSays ==
  ASSUME NEW s, NEW d, NEW a, NEW h \in BOOLEAN
  PROVE  /\ Says(RowFor(s, d, a, h), d, a, h)
         /\ \A r : SameChange(r, RowFor(s, d, a, h)) => Says(r, d, a, h)
         /\ Empty(RowFor(s, d, a, h)) => Agrees(d, a, h)
<1> DEFINE dm == IF a.dmGen < d.gen /\ ~(h /\ d.tier < Top(a.tiers)) THEN d.dm ELSE NoDm
           row == RowFor(s, d, a, h)
<1>1. /\ row.dm = dm /\ row.gen = d.gen
      /\ row.add = IF dm = "payment_declined" \/ d.tier \in a.tiers
                     THEN NoTier ELSE d.tier
      /\ row.remove = IF h \/ dm = "payment_declined" THEN {} ELSE a.tiers \ {d.tier}
  BY DEF RowFor
<1>2. Says(row, d, a, h)
  BY <1>1 DEF Says
<1>3. Empty(row) => Agrees(d, a, h)
  <2> HIDE DEF row, dm
  <2> SUFFICES ASSUME Empty(row) PROVE Agrees(d, a, h)
    OBVIOUS
  <2>1. dm = NoDm /\ dm # "payment_declined" /\ row.add = NoTier /\ row.remove = {}
    BY <1>1 DEF Empty, NoDm
  <2> QED BY <1>1, <2>1 DEF Agrees
<1>4. \A r : SameChange(r, row) => Says(r, d, a, h)
  <2> HIDE DEF row
  <2> QED BY <1>2 DEF Says, SameChange
<1> QED BY <1>2, <1>3, <1>4

\* _plan settles an identity that has a desired row.
LEMMA PlanSettles ==
  ASSUME NEW s, NEW d, NEW a, NEW h \in BOOLEAN, NEW rows,
         apply, d.gen # 0, \A r1, r2 \in rows : r1 = r2
  PROVE  Settled(Plan(s, d, a, h, rows), d, a, h)
<1> DEFINE row == RowFor(s, d, a, h)
           new == Plan(s, d, a, h, rows)
<1>1. CASE \E r \in rows : r.dispatched
  <2>1. new = rows
    BY <1>1 DEF Plan
  <2> QED BY <1>1, <2>1 DEF Settled
<1>2. CASE \E r \in rows : SameChange(r, row)
  <2>1. new = rows
    BY <1>2 DEF Plan
  <2>2. PICK r \in rows : Says(r, d, a, h)
    BY <1>2, RowForSays
  <2>3. rows = {r}
    OBVIOUS
  <2> QED BY <2>1, <2>2, <2>3 DEF Settled
<1>3. CASE ~(\E r \in rows : r.dispatched) /\ ~(\E r \in rows : SameChange(r, row))
  <2>1. new = IF Empty(row) THEN {} ELSE {row}
    BY <1>3 DEF Plan
  <2>2. Says(row, d, a, h) /\ (Empty(row) => Agrees(d, a, h))
    BY RowForSays
  <2>3. Settled(IF Empty(row) THEN {} ELSE {row}, d, a, h)
    <3> HIDE DEF row
    <3>1. CASE Empty(row)
      BY <2>2, <3>1 DEF Settled
    <3>2. CASE ~Empty(row)
      <4>1. row \in {row} /\ Says(row, d, a, h)
        BY <2>2
      <4> QED BY <3>2, <4>1 DEF Settled
    <3> QED BY <3>1, <3>2
  <2> QED BY <2>1, <2>3
<1> QED BY <1>1, <1>2, <1>3

\* A recompute settles every identity, or one with apply off says nothing.
LEMMA ComputePlans ==
  ASSUME Inv, Planned, NEW apps \in [Subjects -> Applied],
         NEW event \in [Subjects -> Nat], NEW h \in BOOLEAN, Compute(apps, event, h)
  PROVE  Planned'
<1> DEFINE des == Recomputed(apps, event)
<1>1. /\ desired' = des /\ applied' = apps /\ held' = h /\ planned' = apply
      /\ \A s \in Subjects : changes'[s] = Plan(s, des[s], apps[s], h, changes[s])
  BY DEF Compute, PlanAll
<1>2. ASSUME NEW s \in Subjects
      PROVE  \/ des[s].gen # 0
             \/ /\ des[s] = desired[s] /\ desired[s].gen = 0 /\ apps[s].tiers = {}
                /\ desired[s].tier = NoTier /\ changes[s] = {}
  <2>1. desired[s].gen \in Nat
    BY DEF Inv, TypeOK, Desired
  <2>2. CASE wanted[s].linked \/ desired[s].gen > 0 \/ apps[s].tiers # {}
    <3>1. des[s] = SetDesired(s, desired[s], wanted[s], event[s])
      BY <2>2 DEF Recomputed
    <3>2. SetDesired(s, desired[s], wanted[s], event[s]).gen # 0
      BY <2>1 DEF SetDesired
    <3> QED BY <3>1, <3>2
  <2>3. CASE ~(wanted[s].linked \/ desired[s].gen > 0 \/ apps[s].tiers # {})
    <3>1. des[s] = desired[s]
      BY <2>3 DEF Recomputed
    <3> QED BY <2>1, <2>3, <3>1 DEF Planned, Unknown
  <2> QED BY <2>2, <2>3
<1> HIDE DEF des
<1>3. ASSUME NEW s \in Subjects
      PROVE  Unknown(Plan(s, des[s], apps[s], h, changes[s]), des[s])
  BY <1>2 DEF Unknown, Plan
<1>4. ASSUME NEW s \in Subjects, apply
      PROVE  Settled(Plan(s, des[s], apps[s], h, changes[s]), des[s], apps[s], h)
  <2>1. \A r1, r2 \in changes[s] : r1 = r2
    BY DEF Inv, Orderly
  <2>2. CASE des[s].gen # 0
    BY <1>4, <2>1, <2>2, PlanSettles
  <2>3. CASE des[s].gen = 0
    <3>1. Plan(s, des[s], apps[s], h, changes[s]) = {} /\ des[s].tier = NoTier
          /\ apps[s].tiers = {}
      BY <1>2, <2>3 DEF Plan
    <3> QED BY <3>1 DEF Settled, Agrees
  <2> QED BY <2>2, <2>3
<1> QED BY <1>1, <1>3, <1>4 DEF Planned

-----------------------------------------------------------------------------
(* The invariant                                                           *)

LEMMA InitPlanned == Init => Planned
BY DEF Init, Planned, Unknown, Settled, Agrees, NoDesired, NoApplied

\* Every transaction leaves each identity settled, or its row dispatched.
LEMMA StepPlanned == Inv /\ Planned /\ [Next]_vars => Planned'
<1> SUFFICES ASSUME Inv, Planned, [Next]_vars PROVE Planned'
  OBVIOUS
<1>a. /\ applied \in [Subjects -> Applied] /\ NoEvents \in [Subjects -> Nat]
      /\ held \in BOOLEAN /\ \A h : (held \/ h) \in BOOLEAN
  BY DEF Inv, TypeOK, NoEvents
<1>1. CASE Sync
  BY <1>1, <1>a, ComputePlans DEF Sync
<1>2. ASSUME NEW linker \in {{}} \cup {{s} : s \in Discord}, RecomputeLink(linker)
      PROVE  Planned'
  <2>1. EventOf(linker) \in [Subjects -> Nat]
    BY DEF EventOf, Inv, TypeOK, Wanted
  <2> QED BY <1>2, <1>a, <2>1, ComputePlans DEF RecomputeLink
<1>3. ASSUME NEW grants \in [Player -> Tiers \cup {NoTier}], ImportGrants(grants)
      PROVE  Planned'
  <2> DEFINE seeded == {s \in Player : grants[s] # NoTier /\ grants[s] \notin applied[s].tiers}
             apps == [s \in Subjects |->
                        IF s \in seeded
                          THEN [applied[s] EXCEPT !.tiers = @ \cup {grants[s]}, !.ever = TRUE]
                          ELSE applied[s]]
  <2>1. Compute(apps, NoEvents, held)
    BY <1>3 DEF ImportGrants
  <2>2. ASSUME NEW s \in Subjects PROVE apps[s] \in Applied
    BY <1>a DEF Applied
  <2>3. apps \in [Subjects -> Applied]
    BY <2>2
  <2> HIDE DEF apps
  <2> QED BY <2>1, <2>3, <1>a, ComputePlans
<1>4. CASE ReleaseBrake
  BY <1>4, <1>a, ComputePlans DEF ReleaseBrake
<1>5. ASSUME NEW target \in {Discord, Player}, ListChanges(target)
      PROVE  Planned'
  <2> DEFINE sent == [s \in Subjects |-> IF s \in target THEN Listed(s) ELSE {}]
  <2>1. /\ \A s \in Subjects :
             changes'[s] = (changes[s] \ sent[s])
                             \cup {[r EXCEPT !.dispatched = TRUE] : r \in sent[s]}
        /\ UNCHANGED <<desired, applied, held, planned>>
    BY <1>5 DEF ListChanges
  <2>2. \A s \in Subjects : sent[s] \subseteq changes[s]
    BY DEF Listed
  <2> HIDE DEF sent
  <2>3. ASSUME NEW s \in Subjects
        PROVE  /\ changes[s] = {} => changes'[s] = {}
               /\ changes'[s] = changes[s] \/ \E r \in changes'[s] : r.dispatched
    <3>1. CASE sent[s] = {}
      BY <2>1, <3>1
    <3>2. CASE sent[s] # {}
      <4>1. PICK r \in sent[s] : r \in changes[s] /\ r \in Row
        BY <2>2, <3>2 DEF Inv, TypeOK
      <4>2. [r EXCEPT !.dispatched = TRUE].dispatched
        BY <4>1 DEF Row
      <4> QED BY <2>1, <2>2, <4>1, <4>2
    <3> QED BY <3>1, <3>2
  <2> QED BY <2>1, <2>3 DEF Planned, Unknown, Settled
<1>6. ASSUME NEW s \in Subjects, NEW row \in changes[s], AckChange(s, row)
      PROVE  Planned'
  <2> DEFINE app == Acknowledged(applied[s], row)
  <2>1. /\ apply /\ applied' = [applied EXCEPT ![s] = app]
        /\ changes' = [changes EXCEPT
                         ![s] = Plan(s, desired[s], app, held, changes[s] \ {row})]
        /\ desired' = desired /\ held' = held /\ planned' = planned
    BY <1>6 DEF AckChange, history
  <2>2. desired[s].gen # 0
    BY DEF Planned, Unknown
  <2>3. \A r1, r2 \in changes[s] \ {row} : r1 = r2
    BY DEF Inv, Orderly
  <2> HIDE DEF app
  <2>4. Settled(Plan(s, desired[s], app, held, changes[s] \ {row}),
                desired[s], app, held)
    BY <1>a, <2>1, <2>2, <2>3, PlanSettles
  <2>5. ASSUME NEW t \in Subjects
        PROVE  /\ Unknown(changes'[t], desired'[t])
               /\ planned' => Settled(changes'[t], desired'[t], applied'[t], held')
    <3>1. CASE t = s
      <4>1. /\ changes'[t] = Plan(s, desired[s], app, held, changes[s] \ {row})
            /\ applied'[t] = app
        BY <2>1, <3>1 DEF Inv, TypeOK
      <4> QED BY <2>1, <2>2, <2>4, <3>1, <4>1 DEF Unknown
    <3>2. CASE t # s
      <4>1. changes'[t] = changes[t] /\ applied'[t] = applied[t]
        BY <2>1, <3>2 DEF Inv, TypeOK
      <4> QED BY <2>1, <4>1 DEF Planned
    <3> QED BY <3>1, <3>2
  <2> QED BY <2>5 DEF Planned
<1>7. ASSUME NEW s \in Subjects, Entitle(s, {edits + 1, wanted[s].event} \ {0})
      PROVE  Planned'
  BY <1>7 DEF Entitle, history, Planned
<1>8. CASE Restart
  BY <1>8 DEF Restart, history, Planned
<1>9. CASE UNCHANGED vars
  BY <1>9 DEF vars, history, Planned
<1> QED BY <1>1, <1>2, <1>3, <1>4, <1>5, <1>6, <1>7, <1>8, <1>9 DEF Next

\* Planned holds in every reachable state.
THEOREM PlannedInvariance == Spec => [](Inv /\ Planned)
<1>1. Init => Inv /\ Planned
  BY InitInv, InitPlanned
<1>2. Inv /\ Planned /\ [Next]_vars => Inv' /\ Planned'
  BY StepInv, StepPlanned
<1> QED BY <1>1, <1>2, PTL DEF Spec

-----------------------------------------------------------------------------
(* What it gives                                                           *)

\* Tiers, and no tier, have a highest one: the gaps to MaxTier have a least.
LEMMA MaxOfTiers ==
  ASSUME NEW S \in SUBSET (Tiers \cup {NoTier}), S # {}
  PROVE  Max(S) \in S
<1> DEFINE Less == OpToRel(<, Nat)
           Gaps == {MaxTier - t : t \in S}
<1>1. MaxTier \in Nat /\ S \subseteq 0..MaxTier
  BY OutboxAssumption DEF Tiers, NoTier
<1>2. \A t \in S : MaxTier - t \in Nat
  BY <1>1
<1>3. Gaps \subseteq Nat /\ Gaps # {}
  BY <1>2
<1>4. IsWellFoundedOn(Less, Nat)
  BY NatLessThanWellFounded
<1>5. \A m, n \in Nat : m < n => <<m, n>> \in Less
  BY DEF OpToRel
<1> HIDE DEF Less
<1>6. PICK g \in Gaps : \A m \in Gaps : ~(<<m, g>> \in Less)
  <2> HIDE DEF Gaps
  <2> QED BY <1>3, <1>4, WFMin
<1>7. PICK t \in S : g = MaxTier - t
  OBVIOUS
<1>8. ASSUME NEW u \in S PROVE t >= u
  <2>1. MaxTier - u \in Gaps
    OBVIOUS
  <2>2. ~(MaxTier - u < MaxTier - t)
    <3> HIDE DEF Gaps
    <3> QED BY <1>2, <1>5, <1>6, <1>7, <2>1
  <2> QED BY <1>1, <2>2
<1> QED BY <1>8 DEF Max

\* What the brake compares desired tiers with is a tier or none.
LEMMA TopIsOwned ==
  ASSUME NEW owned \in SUBSET Tiers
  PROVE  Top(owned) \in Nat
<1>1. owned \cup {NoTier} \in SUBSET (Tiers \cup {NoTier})
  OBVIOUS
<1>2. Max(owned \cup {NoTier}) \in owned \cup {NoTier}
  BY <1>1, MaxOfTiers
<1>3. owned \cup {NoTier} \subseteq Nat
  BY OutboxAssumption DEF Tiers, NoTier
<1> QED BY <1>2, <1>3 DEF Top

\* A row no applier has seen is the one _plan would plan now.
LEMMA PendingSays ==
  ASSUME Inv, Planned, planned, NEW s \in Subjects, NEW r \in changes[s],
         ~r.dispatched
  PROVE  Says(r, desired[s], applied[s], held)
<1>1. \A r1, r2 \in changes[s] : r1 = r2
  BY DEF Inv, Orderly
<1>2. Settled(changes[s], desired[s], applied[s], held)
  BY DEF Planned
<1> QED BY <1>1, <1>2 DEF Settled

\* Such a row tells nobody of a lower tier while the brake holds.
LEMMA SaysNothingHeld ==
  ASSUME NEW r, NEW d, NEW a, NEW h \in BOOLEAN, h, Says(r, d, a, h), r.dm # NoDm
  PROVE  ~(d.tier < Top(a.tiers))
BY DEF Says

\* Once a recompute ran with apply on, no difference between desired and
\* applied state is left without a row (_compute, _plan, ack_changes).
THEOREM NothingIsLost == Spec => []NothingLost
<1>1. Planned => NothingLost
  BY DEF Planned, Settled, Agrees, NothingLost
<1> QED BY <1>1, PlannedInvariance, PTL

\* A row no applier has seen leads to the current desired state (_plan).
THEOREM PendingLeadsThere == Spec => []PendingIsCurrent
<1>1. ASSUME Inv, Planned, planned, NEW s \in Subjects, NEW r \in changes[s],
             ~r.dispatched
      PROVE  /\ r.gen = desired[s].gen
             /\ held => r.remove = {}
             /\ ~held /\ r.dm # "payment_declined" =>
                  Acknowledged(applied[s], r).tiers = {desired[s].tier} \ {NoTier}
  <2>1. Says(r, desired[s], applied[s], held)
    BY <1>1, PendingSays
  <2>2. r.gen = desired[s].gen /\ (held => r.remove = {})
    BY <2>1 DEF Says
  <2>3. ASSUME ~held, r.dm # "payment_declined"
        PROVE  Acknowledged(applied[s], r).tiers = {desired[s].tier} \ {NoTier}
    <3>1. /\ r.add = IF desired[s].tier \in applied[s].tiers THEN NoTier ELSE desired[s].tier
          /\ r.remove = applied[s].tiers \ {desired[s].tier}
      BY <2>1, <2>3 DEF Says
    <3>2. NoTier \notin applied[s].tiers
      <4>1. applied[s] \in Applied
        BY <1>1 DEF Inv, TypeOK
      <4>2. NoTier \notin Tiers
        BY OutboxAssumption DEF Tiers, NoTier
      <4> QED BY <4>1, <4>2 DEF Applied
    <3>3. Acknowledged(applied[s], r).tiers
            = (applied[s].tiers \ r.remove)
                \cup (IF r.add = NoTier THEN {} ELSE {r.add})
      BY DEF Acknowledged
    <3> QED BY <3>1, <3>2, <3>3
  <2> QED BY <2>2, <2>3
<1>2. Inv /\ Planned => PendingIsCurrent
  BY <1>1 DEF PendingIsCurrent
<1> QED BY <1>2, PlannedInvariance, PTL

\* While the brake holds, nobody is told of a reduction that waits (_plan).
THEOREM HeldStaysQuiet == Spec => []HeldIsQuiet
<1>1. ASSUME Inv, Planned, planned, held, NEW s \in Subjects, NEW r \in changes[s],
             ~r.dispatched, r.dm # NoDm
      PROVE  desired[s].tier >= Top(applied[s].tiers)
  <2>1. Says(r, desired[s], applied[s], held)
    BY <1>1, PendingSays
  <2>2. ~(desired[s].tier < Top(applied[s].tiers))
    <3>1. held \in BOOLEAN
      BY <1>1 DEF Inv, TypeOK
    <3> QED BY <1>1, <2>1, <3>1, SaysNothingHeld
  <2>3. desired[s].tier \in Nat /\ applied[s].tiers \in SUBSET Tiers
    <3>1. desired[s] \in Desired /\ applied[s] \in Applied
      BY <1>1 DEF Inv, TypeOK
    <3> QED BY <3>1, OutboxAssumption DEF Desired, Applied, Tiers, NoTier
  <2>4. Top(applied[s].tiers) \in Nat
    BY <2>3, TopIsOwned
  <2> QED BY <2>2, <2>3, <2>4
<1>2. Inv /\ Planned => HeldIsQuiet
  BY <1>1 DEF HeldIsQuiet
<1> QED BY <1>2, PlannedInvariance, PTL

-----------------------------------------------------------------------------
(* What the brake does not hold back                                       *)

\* While the brake holds, an addition waits for nothing but a row an applier
\* already has: every identity owns its desired tier, or a row that list_changes
\* hands out grants it, or tells of the declined payment that comes first.
AdditionsGo ==
  planned /\ held => \A s \in Subjects :
    \/ desired[s].tier \in applied[s].tiers \cup {NoTier}
    \/ \E r \in changes[s] : r.dispatched
    \/ \E r \in Listed(s) : r.add = desired[s].tier \/ r.dm = "payment_declined"

\* The brake holds reductions only, never a grant (_plan, list_changes).
THEOREM BrakeHoldsNoGrant == Spec => []AdditionsGo
<1>1. ASSUME Planned, planned, held, NEW s \in Subjects,
             desired[s].tier \notin applied[s].tiers \cup {NoTier},
             \A r \in changes[s] : ~r.dispatched
      PROVE  \E r \in Listed(s) : r.add = desired[s].tier \/ r.dm = "payment_declined"
  <2>1. Settled(changes[s], desired[s], applied[s], held)
    BY <1>1 DEF Planned
  <2>2. PICK r \in changes[s] : Says(r, desired[s], applied[s], held)
    BY <1>1, <2>1 DEF Settled, Agrees
  <2>3. r.remove = {} /\ (r.add = desired[s].tier \/ r.dm = "payment_declined")
    BY <1>1, <2>2 DEF Says
  <2> QED BY <2>3 DEF Listed
<1>2. Planned => AdditionsGo
  BY <1>1 DEF AdditionsGo
<1> QED BY <1>2, PlannedInvariance, PTL

-----------------------------------------------------------------------------
(* Suppressed DMs                                                          *)

\* What a step makes of the rows of one identity.
RowsStep(s) ==
  \/ changes'[s] = changes[s]
  \/ \E d, a, h : changes'[s] = Plan(s, d, a, h, changes[s])
  \/ \E r \in changes[s] :
       changes[s] = {r} /\ changes'[s] = {[r EXCEPT !.dispatched = TRUE]}
  \/ \E r \in changes[s] :
       /\ changes[s] = {r}
       /\ changes'[s] = Plan(s, desired[s], Acknowledged(applied[s], r), held, {})

\* A recompute plans the rows of every identity.
LEMMA ComputeRows ==
  ASSUME NEW s \in Subjects, NEW apps, NEW event, NEW h, Compute(apps, event, h)
  PROVE  RowsStep(s)
BY DEF Compute, PlanAll, RowsStep

\* Every transaction takes one of them to each identity.
LEMMA RowsSteps ==
  ASSUME Inv, [Next]_vars, NEW s \in Subjects
  PROVE  RowsStep(s)
<1>1. CASE Sync
  BY <1>1, ComputeRows DEF Sync
<1>2. ASSUME NEW linker \in {{}} \cup {{d} : d \in Discord}, RecomputeLink(linker)
      PROVE  RowsStep(s)
  BY <1>2, ComputeRows DEF RecomputeLink
<1>3. ASSUME NEW grants \in [Player -> Tiers \cup {NoTier}], ImportGrants(grants)
      PROVE  RowsStep(s)
  BY <1>3, ComputeRows DEF ImportGrants
<1>4. CASE ReleaseBrake
  BY <1>4, ComputeRows DEF ReleaseBrake
<1>5. ASSUME NEW target \in {Discord, Player}, ListChanges(target)
      PROVE  RowsStep(s)
  <2> DEFINE sent == IF s \in target THEN Listed(s) ELSE {}
  <2>1. changes'[s] = (changes[s] \ sent) \cup {[r EXCEPT !.dispatched = TRUE] : r \in sent}
    BY <1>5 DEF ListChanges
  <2>2. sent \subseteq changes[s] /\ \A r1, r2 \in changes[s] : r1 = r2
    BY DEF Listed, Inv, Orderly
  <2> HIDE DEF sent
  <2>3. CASE sent = {}
    BY <2>1, <2>3 DEF RowsStep
  <2>4. CASE sent # {}
    <3>1. PICK r \in changes[s] : sent = {r} /\ changes[s] = {r}
      BY <2>2, <2>4
    <3> QED BY <2>1, <3>1 DEF RowsStep
  <2> QED BY <2>3, <2>4
<1>6. ASSUME NEW t \in Subjects, NEW row \in changes[t], AckChange(t, row)
      PROVE  RowsStep(s)
  <2>1. CASE s = t
    <3>1. changes[s] = {row} /\ changes[s] \ {row} = {}
      BY <2>1 DEF Inv, Orderly
    <3>2. changes'[s] = Plan(s, desired[s], Acknowledged(applied[s], row), held, {})
      BY <1>6, <2>1, <3>1 DEF AckChange, Inv, TypeOK
    <3> QED BY <2>1, <3>1, <3>2 DEF RowsStep
  <2>2. CASE s # t
    BY <1>6, <2>2 DEF AckChange, RowsStep, Inv, TypeOK
  <2> QED BY <2>1, <2>2
<1>7. ASSUME NEW t \in Subjects, Entitle(t, {edits + 1, wanted[t].event} \ {0})
      PROVE  RowsStep(s)
  BY <1>7 DEF Entitle, RowsStep
<1>8. CASE Restart
  BY <1>8 DEF Restart, RowsStep
<1>9. CASE UNCHANGED vars
  BY <1>9 DEF vars, RowsStep
<1> QED BY <1>1, <1>2, <1>3, <1>4, <1>5, <1>6, <1>7, <1>8, <1>9 DEF Next

\* Only the DM of a Discord user is ever suppressed.
SuppressesDms ==
  \A s \in Subjects : \A r \in changes[s] : r.suppressed => s \in Discord /\ r.dm # NoDm

\* The row _plan wants is suppressed if its DM would be (_plan).
LEMMA RowForSuppresses ==
  ASSUME NEW s, NEW d, NEW a, NEW h
  PROVE  /\ RowFor(s, d, a, h).suppressed
              <=> suppress /\ s \in Discord /\ RowFor(s, d, a, h).dm # NoDm
         /\ ~RowFor(s, d, a, h).dispatched
         /\ RowFor(s, d, a, h).dm # NoDm => a.dmGen < RowFor(s, d, a, h).gen
BY DEF RowFor

\* And no step suppresses anything else.
LEMMA StepSuppresses == Inv /\ SuppressesDms /\ [Next]_vars => SuppressesDms'
<1> SUFFICES ASSUME Inv, SuppressesDms, [Next]_vars, NEW s \in Subjects,
                    NEW q \in changes'[s], q.suppressed
             PROVE  s \in Discord /\ q.dm # NoDm
  BY DEF SuppressesDms
<1>1. CASE q \in changes[s]
  BY <1>1 DEF SuppressesDms
<1>2. CASE \E d, a, h : q = RowFor(s, d, a, h)
  BY <1>2, RowForSuppresses
<1>3. CASE \E r \in changes[s] : q = [r EXCEPT !.dispatched = TRUE]
  <2>1. PICK r \in changes[s] : q = [r EXCEPT !.dispatched = TRUE]
    BY <1>3
  <2>2. r \in Row
    BY DEF Inv, TypeOK
  <2> QED BY <2>1, <2>2 DEF SuppressesDms, Row
<1>4. RowsStep(s)
  BY RowsSteps
<1> QED BY <1>1, <1>2, <1>3, <1>4, PlanFacts DEF RowsStep

\* A suppressed DM comes back into view in one way only: the flag is off, no
\* applier has seen its row, and a row that grants or removes other tiers
\* takes its place.
HiddenUnlessReplaced ==
  [][\A s \in Subjects : \A r \in changes[s] : \A q \in changes'[s] :
       r.suppressed /\ q.dm = r.dm /\ q.gen = r.gen /\ ~q.suppressed =>
         /\ ~suppress /\ ~r.dispatched /\ ~q.dispatched
         /\ q.add # r.add \/ q.remove # r.remove]_vars

\* So a suppressed DM an applier has seen stays hidden for good, and one whose
\* row is kept does too (_plan, list_changes, ack_changes).
THEOREM HiddenStaysHiddenUnlessReplaced == Spec => HiddenUnlessReplaced
<1>1. Init => SuppressesDms
  BY DEF Init, SuppressesDms
<1>2. ASSUME Inv, SuppressesDms, [Next]_vars, NEW s \in Subjects,
             NEW r \in changes[s], NEW q \in changes'[s],
             r.suppressed, q.dm = r.dm, q.gen = r.gen, ~q.suppressed
      PROVE  /\ ~suppress /\ ~r.dispatched /\ ~q.dispatched
             /\ q.add # r.add \/ q.remove # r.remove
  <2>1. s \in Discord /\ r.dm # NoDm /\ r \in Row
    BY <1>2 DEF SuppressesDms, Inv, TypeOK
  <2>2. q \notin changes[s] /\ changes[s] = {r}
    <3>1. \A r1, r2 \in changes[s] : r1 = r2
      BY <1>2 DEF Inv, Orderly
    <3> QED BY <1>2, <3>1
  <2>3. q # [r EXCEPT !.dispatched = TRUE]
    BY <1>2, <2>1 DEF Row
  <2>4. CASE \E d, a, h : changes'[s] = Plan(s, d, a, h, changes[s])
    <3>1. PICK d, a, h : changes'[s] = Plan(s, d, a, h, changes[s])
      BY <2>4
    <3>2. q = RowFor(s, d, a, h) /\ ~r.dispatched /\ ~SameChange(r, RowFor(s, d, a, h))
      BY <1>2, <2>2, <3>1 DEF Plan
    <3>3. ~suppress /\ ~q.dispatched
      BY <1>2, <2>1, <3>2, RowForSuppresses
    <3> QED BY <1>2, <3>2, <3>3 DEF SameChange
  <2>5. CASE changes'[s] = Plan(s, desired[s], Acknowledged(applied[s], r), held, {})
    <3>1. q = RowFor(s, desired[s], Acknowledged(applied[s], r), held)
      BY <1>2, <2>5, PlanFacts
    <3>2. Acknowledged(applied[s], r).dmGen < r.gen
      BY <1>2, <2>1, <3>1, RowForSuppresses
    <3>3. applied[s].dmGen \in Nat /\ r.gen \in Nat
      BY <1>2, <2>1 DEF Inv, TypeOK, Applied, Row
    <3>4. Acknowledged(applied[s], r).dmGen
            = IF r.gen > applied[s].dmGen THEN r.gen ELSE applied[s].dmGen
      BY <2>1 DEF Acknowledged
    <3> QED BY <3>2, <3>3, <3>4
  <2>6. RowsStep(s)
    BY <1>2, RowsSteps
  <2> QED BY <1>2, <2>2, <2>3, <2>4, <2>5, <2>6 DEF RowsStep
<1>3. Inv /\ SuppressesDms /\ [Next]_vars =>
        [\A s \in Subjects : \A r \in changes[s] : \A q \in changes'[s] :
           r.suppressed /\ q.dm = r.dm /\ q.gen = r.gen /\ ~q.suppressed =>
             /\ ~suppress /\ ~r.dispatched /\ ~q.dispatched
             /\ q.add # r.add \/ q.remove # r.remove]_vars
  BY <1>2
<1> QED
  BY <1>1, <1>3, StepSuppresses, Invariance, PTL DEF Spec, HiddenUnlessReplaced

-----------------------------------------------------------------------------
(* Syncing again                                                           *)

\* What a sync would leave now: desired rows, brake and outbox.
NextSync ==
  LET des == Recomputed(applied, NoEvents)
      h == held \/ BrakeTrips(des)
  IN <<des, h, PlanAll(des, applied, h)>>

\* Setting the same desired state twice sets it once: no second generation,
\* and so no second DM.
LEMMA SetTwice ==
  ASSUME NEW s, NEW old \in Desired, NEW w \in Wanted
  PROVE  LET new == SetDesired(s, old, w, 0) IN SetDesired(s, new, w, 0) = new
<1> DEFINE new == SetDesired(s, old, w, 0)
<1>1. old.gen \in Nat
  BY DEF Desired
<1>2. new.gen > 0 /\ new.tier = w.tier /\ new.grace = w.grace
  BY <1>1 DEF SetDesired
<1> HIDE DEF new
<1>3. SetDesired(s, new, w, 0) = new
  BY <1>2 DEF SetDesired
<1> QED BY <1>3 DEF new

\* Planning twice plans once.
LEMMA PlanTwice ==
  ASSUME NEW s, NEW d, NEW a, NEW h, NEW rows
  PROVE  Plan(s, d, a, h, Plan(s, d, a, h, rows)) = Plan(s, d, a, h, rows)
<1> DEFINE row == RowFor(s, d, a, h)
           stays(q) == \/ d.gen = 0 \/ ~apply \/ \E r \in q : r.dispatched
                       \/ \E r \in q : SameChange(r, row)
<1>1. \A q : Plan(s, d, a, h, q) = IF stays(q) THEN q
                                   ELSE IF Empty(row) THEN {} ELSE {row}
  BY DEF Plan
<1>2. SameChange(row, row)
  BY DEF SameChange
<1> HIDE DEF row
<1>3. ~stays(rows) /\ ~Empty(row) => stays({row})
  BY <1>2
<1> HIDE DEF stays
<1> QED BY <1>1, <1>3

\* A recompute leaves desired rows another one would leave alone.
LEMMA RecomputedTwice ==
  ASSUME Inv, NEW s \in Subjects,
         desired' = Recomputed(applied, NoEvents), UNCHANGED <<wanted, applied>>
  PROVE  /\ Recomputed(applied, NoEvents)'[s] = desired'[s]
         /\ desired'[s].gen \in Nat /\ desired'[s].tier \in Nat
         /\ desired'[s].gen = 0 => applied[s].tiers = {}
<1>1. desired[s] \in Desired /\ wanted[s] \in Wanted
  BY DEF Inv, TypeOK
<1>2. PICK new : new = SetDesired(s, desired[s], wanted[s], 0)
  OBVIOUS
<1>3. SetDesired(s, new, wanted[s], 0) = new /\ new \in Desired
  BY <1>1, <1>2, SetTwice, SetDesiredType
<1>4. desired'[s] = IF wanted[s].linked \/ desired[s].gen > 0 \/ applied[s].tiers # {}
                      THEN new ELSE desired[s]
  BY <1>2 DEF Recomputed, NoEvents
<1>5. Recomputed(applied, NoEvents)'[s]
        = IF wanted[s].linked \/ desired'[s].gen > 0 \/ applied[s].tiers # {}
            THEN SetDesired(s, desired'[s], wanted[s], 0) ELSE desired'[s]
  BY DEF Recomputed, NoEvents
<1>6. desired'[s] \in Desired
  BY <1>1, <1>3, <1>4
<1>7. desired'[s].gen \in Nat /\ desired'[s].tier \in Nat
  BY <1>6, OutboxAssumption DEF Desired, Tiers, NoTier
<1>8. new.gen > 0
  BY <1>1, <1>2 DEF SetDesired, Desired
<1>9. CASE wanted[s].linked \/ desired[s].gen > 0 \/ applied[s].tiers # {}
  BY <1>3, <1>4, <1>5, <1>7, <1>8, <1>9
<1>10. CASE ~(wanted[s].linked \/ desired[s].gen > 0 \/ applied[s].tiers # {})
  BY <1>4, <1>5, <1>7, <1>10
<1> QED BY <1>9, <1>10

\* A brake with nothing to hold back does not trip.
LEMMA NoneLoweredNoBrake ==
  ASSUME NEW granted \in SUBSET Subjects
  PROVE  ~(Cardinality({}) * FracDen > FracNum * Cardinality(granted))
<1>1. Cardinality({}) = 0
  BY FS_EmptySet
<1>2. Cardinality(granted) \in Nat
  BY OutboxAssumption, FS_Subset, FS_CardinalityType DEF Subjects
<1>3. PICK n \in Nat : n = FracNum * Cardinality(granted)
  BY <1>2, OutboxAssumption
<1>4. 0 * FracDen = 0
  BY OutboxAssumption
<1> QED BY <1>1, <1>3, <1>4

\* A sync right after a sync or a release changes nothing: it queues no row,
\* starts no generation, announces nothing again and does not trip the brake
\* staff just released (_compute, _check_brake, release_brake).
THEOREM SyncingAgainChangesNothing ==
  Spec => [][Sync \/ ReleaseBrake => (NextSync = <<desired, held, changes>>)']_vars
<1>1. ASSUME Inv, Sync \/ ReleaseBrake
      PROVE  (NextSync = <<desired, held, changes>>)'
  <2> DEFINE des == Recomputed(applied, NoEvents)
  <2>1. PICK h \in BOOLEAN :
           /\ Compute(applied, NoEvents, h)
           /\ UNCHANGED <<wanted, apply, suppress>>
           /\ \/ Sync /\ h = (held \/ BrakeTrips(des))
              \/ ReleaseBrake /\ h = FALSE
    BY <1>1 DEF Sync, ReleaseBrake, Inv, TypeOK
  <2>2. /\ desired' = des /\ applied' = applied /\ held' = h
        /\ changes' = PlanAll(des, applied, h) /\ lastId' = lastId
    BY <2>1 DEF Compute
  <2>3. ASSUME NEW s \in Subjects
        PROVE  /\ Recomputed(applied, NoEvents)'[s] = desired'[s]
               /\ desired'[s].gen \in Nat /\ desired'[s].tier \in Nat
               /\ desired'[s].gen = 0 => applied[s].tiers = {}
    BY <1>1, <2>1, <2>2, RecomputedTwice
  <2>4. Recomputed(applied, NoEvents)' = desired'
    <3>1. des = [s \in Subjects |-> des[s]]
      BY DEF Recomputed
    <3>2. Recomputed(applied, NoEvents)'
            = [s \in Subjects |-> Recomputed(applied, NoEvents)'[s]]
      BY DEF Recomputed
    <3> HIDE DEF des
    <3> QED BY <2>2, <2>3, <3>1, <3>2
  <2>5. BrakeTrips(desired)' => held'
    <3>1. CASE Sync /\ h = (held \/ BrakeTrips(des))
      <4>1. approved' = approved
        BY <3>1 DEF Sync
      <4>2. BrakeTrips(desired)' = BrakeTrips(des)
        <5> HIDE DEF des
        <5> QED BY <2>2, <4>1 DEF BrakeTrips, Lowered, Granted
      <4> QED BY <2>2, <3>1, <4>2
    <3>2. CASE ReleaseBrake
      <4>1. approved' = [s \in Subjects |->
                           IF des[s].gen > 0 /\ des[s].tier < Top(applied[s].tiers)
                             THEN des[s].gen ELSE approved[s]]
        BY <3>2 DEF ReleaseBrake
      <4> HIDE DEF des
      <4>2. ASSUME NEW s \in Subjects, desired'[s].tier < Top(applied[s].tiers)
            PROVE  desired'[s].gen = approved'[s]
        <5>1. CASE desired'[s].gen = 0
          <6>1. Top(applied[s].tiers) = NoTier
            <7>1. Max({NoTier}) \in {NoTier}
              BY MaxOfTiers
            <7> QED BY <2>3, <5>1, <7>1 DEF Top
          <6> QED BY <2>3, <4>2, <6>1 DEF NoTier
        <5>2. CASE desired'[s].gen # 0
          BY <2>2, <2>3, <4>1, <4>2, <5>2
        <5> QED BY <5>1, <5>2
      <4>3. Lowered(desired)' = {}
        BY <2>2, <4>2 DEF Lowered
      <4>4. Granted' \in SUBSET Subjects
        BY DEF Granted
      <4> QED BY <4>3, <4>4, NoneLoweredNoBrake DEF BrakeTrips
    <3> QED BY <2>1, <3>1, <3>2
  <2>6. PlanAll(desired, applied, held)' = changes'
    <3> HIDE DEF des
    <3>1. ASSUME NEW s \in Subjects
          PROVE  Plan(s, desired[s], applied[s], held, changes[s])' = changes'[s]
      <4>1. changes'[s] = Plan(s, des[s], applied[s], h, changes[s])
        BY <2>2 DEF PlanAll
      <4>2. Plan(s, desired[s], applied[s], held, changes[s])'
              = Plan(s, des[s], applied[s], h, changes'[s])
        BY <2>1, <2>2 DEF Plan, RowFor
      <4> QED BY <4>1, <4>2, PlanTwice
    <3>2. changes' = [s \in Subjects |-> changes'[s]]
      BY <2>2 DEF PlanAll
    <3> QED BY <3>1, <3>2 DEF PlanAll
  <2>7. (LET again == Recomputed(applied, NoEvents)
             stops == held \/ BrakeTrips(again)
         IN <<again, stops, PlanAll(again, applied, stops)>>)'
           = <<desired, held, changes>>'
    <3>1. (held \/ BrakeTrips(desired))' = held'
      BY <1>1, <2>1, <2>2, <2>5
    <3> QED BY <2>4, <2>6, <3>1
  <2> QED BY <2>7 DEF NextSync
<1> QED BY <1>1, Invariance, PTL DEF Spec
=============================================================================
