------------------------ MODULE PatreonDeliveryProofs ------------------------
(***************************************************************************)
(* The outbox with its appliers, for any identities, tiers and brake: what *)
(* an identity really has never drifts from what the backend recorded,     *)
(* whatever replies and acknowledgements are lost and whoever crashes.     *)
(*                                                                         *)
(* InHand is the strengthening: what an applier holds of an identity is    *)
(* one row, the one in flight, first unapplied and then applied; so the    *)
(* row it applies or acknowledges is never a stale one.                    *)
(***************************************************************************)
EXTENDS PatreonDelivery, PatreonPlanProofs

\* What acknowledging row r makes of tiers, and applying it.
With(tiers, r) == (tiers \ r.remove) \cup (IF r.add = NoTier THEN {} ELSE {r.add})

InHand(s) ==
  /\ \A r \in hand[s] : r \in changes[s] /\ r.dispatched
  /\ \A r \in acking[s] : /\ r \in changes[s] /\ r.dispatched
                          /\ s \notin Reconciled => roles[s] = With(applied[s].tiers, r)
  /\ hand[s] # {} => acking[s] = {}

Tracked(s) ==
  s \notin Reconciled =>
    /\ s \notin DOMAIN copy
    /\ \/ roles[s] = applied[s].tiers
       \/ \E r \in changes[s] : r.dispatched /\ roles[s] = With(applied[s].tiers, r)

DInv == DTypeOK /\ Inv /\ \A s \in Subjects : InHand(s) /\ Tracked(s)

-----------------------------------------------------------------------------
(* Steps of the backend                                                    *)

\* An entitlement changes nothing else, whatever events it may bring.
LEMMA EntitleInv ==
  ASSUME Inv, NEW s \in Subjects, Entitle(s, {1})
  PROVE  Inv'
<1>1. PICK w \in {Unlinked} \cup
             [linked : {TRUE}, tier : Tiers \cup {NoTier}, grace : 0..MaxGrace,
              event : {1}] :
        wanted' = [wanted EXCEPT ![s] = w]
  BY DEF Entitle
<1>2. Unlinked \in Wanted
  BY OutboxAssumption DEF Unlinked, Wanted
<1>3. w \in Wanted
  <2>1. CASE w = Unlinked
    BY <1>2, <2>1
  <2>2. CASE w \in [linked : {TRUE}, tier : Tiers \cup {NoTier}, grace : 0..MaxGrace,
                   event : {1}]
    <3>1. {TRUE} \subseteq BOOLEAN /\ {1} \subseteq Nat
      OBVIOUS
    <3> QED BY <2>2, <3>1 DEF Wanted
  <2> QED BY <1>1, <2>1, <2>2
<1> QED BY <1>1, <1>3 DEF Entitle, Inv, TypeOK, history

\* The rows an applier may hold stay, as long as nothing is acknowledged.
Calm(s) ==
  /\ applied'[s] = applied[s]
  /\ \A r \in changes[s] : r.dispatched => r \in changes'[s]

LEMMA ComputeCalm ==
  ASSUME NEW s \in Subjects, NEW event, NEW h, Compute(applied, event, h)
  PROVE  Calm(s)
<1>1. applied' = applied /\ Replans(s)
  BY ComputeReplans DEF Compute
<1> QED BY <1>1 DEF Replans, NoneSent, Calm

\* A step of the backend that is not an acknowledgement is calm.
LEMMA BackendCalm ==
  ASSUME Inv, Backend
  PROVE  Inv' /\ \A s \in Subjects : Calm(s)
<1>1. CASE Sync
  <2>1. Inv'
    BY <1>1, StepInv DEF Next
  <2> QED BY <1>1, <2>1, ComputeCalm DEF Sync
<1>2. CASE RecomputeLink({})
  <2>1. Inv'
    BY <1>2, StepInv DEF Next
  <2> QED BY <1>2, <2>1, ComputeCalm DEF RecomputeLink
<1>3. CASE ReleaseBrake
  <2>1. Inv'
    BY <1>3, StepInv DEF Next
  <2> QED BY <1>3, <2>1, ComputeCalm DEF ReleaseBrake
<1>4. ASSUME NEW t \in Subjects, Entitle(t, {1})
      PROVE  Inv' /\ \A s \in Subjects : Calm(s)
  BY <1>4, EntitleInv DEF Entitle, Calm
<1> QED BY <1>1, <1>2, <1>3, <1>4 DEF Backend

\* A poll marks the rows it replies with.
LEMMA ListFacts ==
  ASSUME Inv, NEW target \in {Discord, Player}, ListChanges(target)
  PROVE  /\ Inv'
         /\ \A s \in Subjects :
              /\ Calm(s)
              /\ s \in target => \A r \in Listed(s) :
                   /\ [r EXCEPT !.dispatched = TRUE] \in changes'[s]
                   /\ [r EXCEPT !.dispatched = TRUE].dispatched
                   /\ [r EXCEPT !.dispatched = TRUE] \in Row
<1> DEFINE sent == [s \in Subjects |-> IF s \in target THEN Listed(s) ELSE {}]
<1>1. Inv'
  BY StepInv DEF Next
<1>2. /\ applied' = applied
      /\ changes' = [s \in Subjects |-> (changes[s] \ sent[s])
                       \cup {[r EXCEPT !.dispatched = TRUE] : r \in sent[s]}]
  BY DEF ListChanges
<1>3. ASSUME NEW s \in Subjects
      PROVE  /\ Calm(s)
             /\ s \in target => \A r \in Listed(s) :
                  /\ [r EXCEPT !.dispatched = TRUE] \in changes'[s]
                  /\ [r EXCEPT !.dispatched = TRUE].dispatched
                  /\ [r EXCEPT !.dispatched = TRUE] \in Row
  <2>1. changes[s] \subseteq Row /\ sent[s] \subseteq changes[s]
    BY DEF Inv, TypeOK, Listed
  <2>2. ASSUME NEW r \in Row
        PROVE  /\ r.dispatched => [r EXCEPT !.dispatched = TRUE] = r
               /\ [r EXCEPT !.dispatched = TRUE].dispatched
               /\ [r EXCEPT !.dispatched = TRUE] \in Row
    BY DEF Row
  <2>3. s \in target => sent[s] = Listed(s)
    OBVIOUS
  <2> HIDE DEF sent
  <2>4. Calm(s)
    <3>1. ASSUME NEW r \in changes[s], r.dispatched
          PROVE  r \in changes'[s]
      <4>1. [r EXCEPT !.dispatched = TRUE] = r
        BY <2>1, <2>2, <3>1
      <4>2. changes'[s] = (changes[s] \ sent[s])
                             \cup {[q EXCEPT !.dispatched = TRUE] : q \in sent[s]}
        BY <1>2
      <4>3. CASE r \in sent[s]
        BY <4>1, <4>2, <4>3
      <4>4. CASE r \notin sent[s]
        BY <4>2, <4>4
      <4> QED BY <4>3, <4>4
    <3> QED BY <1>2, <3>1 DEF Calm
  <2>5. ASSUME s \in target, NEW r \in Listed(s)
        PROVE  /\ [r EXCEPT !.dispatched = TRUE] \in changes'[s]
               /\ [r EXCEPT !.dispatched = TRUE].dispatched
               /\ [r EXCEPT !.dispatched = TRUE] \in Row
    <3>1. changes'[s] = (changes[s] \ sent[s])
                           \cup {[q EXCEPT !.dispatched = TRUE] : q \in sent[s]}
      BY <1>2
    <3>2. r \in sent[s] /\ r \in Row
      BY <2>1, <2>3, <2>5
    <3>3. [r EXCEPT !.dispatched = TRUE] \in changes'[s]
      BY <3>1, <3>2
    <3> QED BY <2>2, <3>2, <3>3
  <2> QED BY <2>4, <2>5
<1> QED BY <1>1, <1>3

\* Such a step keeps what an applier holds and what an identity really has.
LEMMA CalmKeeps ==
  ASSUME NEW s \in Subjects, Calm(s), InHand(s), Tracked(s), UNCHANGED <<roles, copy>>
  PROVE  /\ Tracked(s)'
         /\ hand'[s] \subseteq hand[s] /\ acking'[s] \subseteq acking[s] => InHand(s)'
<1>1. Tracked(s)'
  BY DEF Calm, Tracked, With
<1>2. ASSUME hand'[s] \subseteq hand[s], acking'[s] \subseteq acking[s]
      PROVE  InHand(s)'
  BY <1>2 DEF Calm, InHand, With
<1> QED BY <1>1, <1>2

-----------------------------------------------------------------------------
(* The invariant                                                           *)

LEMMA DInitInv == DInit => DInv
<1> SUFFICES ASSUME DInit PROVE DInv
  OBVIOUS
<1>1. Inv
  BY InitInv DEF DInit
<1>2. DOMAIN copy = {} /\ copy \in [{} -> Tiers \cup {NoTier}]
  BY DEF DInit, NoCopy
<1>3. DTypeOK
  BY <1>2 DEF DInit, DTypeOK
<1>4. ASSUME NEW s \in Subjects PROVE InHand(s) /\ Tracked(s)
  BY <1>2 DEF DInit, Init, NoApplied, InHand, Tracked
<1> QED BY <1>1, <1>3, <1>4 DEF DInv

LEMMA PollInv ==
  ASSUME DInv, NEW target \in {Discord, Player}, Poll(target) \/ PollLost(target)
  PROVE  DInv'
<1>1. /\ Inv' /\ UNCHANGED <<acking, roles, copy>> /\ ListChanges(target)
      /\ \A s \in target : hand[s] = {} /\ acking[s] = {}
      /\ DTypeOK
  BY ListFacts DEF DInv, Poll, PollLost, applier, Idle
<1>2. ASSUME NEW s \in Subjects
      PROVE  /\ hand'[s] \in SUBSET Row
             /\ InHand(s)' /\ Tracked(s)'
  <2>1. Calm(s) /\ InHand(s) /\ Tracked(s) /\ hand[s] \in SUBSET Row
    BY <1>1, ListFacts DEF DInv, DTypeOK
  <2>2. CASE hand'[s] = hand[s]
    BY <1>1, <2>1, <2>2, CalmKeeps
  <2>3. CASE hand'[s] # hand[s]
    <3>1. /\ s \in target
          /\ hand'[s] = {[r EXCEPT !.dispatched = TRUE] : r \in Listed(s)}
      BY <2>3 DEF Poll, PollLost, applier
    <3>2. \A r \in hand'[s] : r \in changes'[s] /\ r.dispatched /\ r \in Row
      BY <1>1, <3>1, ListFacts DEF DInv
    <3>3. acking'[s] = {}
      BY <1>1, <3>1
    <3>4. Tracked(s)'
      BY <1>1, <2>1, CalmKeeps
    <3> QED BY <3>2, <3>3, <3>4 DEF InHand
  <2> QED BY <2>2, <2>3
<1>3. hand' \in [Subjects -> SUBSET Row]
  <2>1. CASE Poll(target)
    <3>1. hand' = [s \in Subjects |-> hand'[s]]
      BY <2>1 DEF Poll
    <3> QED BY <1>2, <3>1
  <2>2. CASE PollLost(target)
    BY <1>1, <2>2 DEF PollLost, applier, DTypeOK
  <2> QED BY <2>1, <2>2
<1>4. DTypeOK'
  BY <1>1, <1>3 DEF DTypeOK
<1> QED BY <1>1, <1>2, <1>4 DEF DInv

\* Applying the row in flight, for the first time or again, leads to one end.
LEMMA ApplyInv ==
  ASSUME DInv, NEW s \in Subjects, NEW r \in hand[s], ApplyChange(s, r)
  PROVE  DInv'
<1>1. /\ hand' = [hand EXCEPT ![s] = @ \ {r}]
      /\ roles' = [roles EXCEPT ![s] = With(@, r)]
      /\ acking' = [acking EXCEPT ![s] = @ \cup {r}]
      /\ UNCHANGED <<wanted, desired, applied, changes, lastId, held, approved, apply,
                     suppress, edits, history, copy>>
  BY DEF ApplyChange, With, vars
<1>2. /\ hand \in [Subjects -> SUBSET Row] /\ acking \in [Subjects -> SUBSET Row]
      /\ roles \in [Subjects -> SUBSET Tiers]
      /\ r \in changes[s] /\ r.dispatched /\ r \in Row /\ acking[s] = {}
      /\ \A q \in changes[s] : q = r
      /\ r.add \notin r.remove
  BY DEF DInv, DTypeOK, InHand, Inv, Orderly
<1>3. With(roles[s], r) \in SUBSET Tiers
  <2>1. r.add \in Tiers \cup {NoTier} /\ roles[s] \in SUBSET Tiers
    BY <1>2 DEF Row
  <2> QED BY <2>1 DEF With
<1>4. DTypeOK'
  BY <1>1, <1>2, <1>3 DEF DTypeOK, DInv
<1>5. Inv'
  BY <1>1 DEF DInv, Inv, TypeOK, history
<1>6. s \notin Reconciled => With(roles[s], r) = With(applied[s].tiers, r)
  <2> SUFFICES ASSUME s \notin Reconciled
               PROVE  With(roles[s], r) = With(applied[s].tiers, r)
    OBVIOUS
  <2>1. roles[s] \in {applied[s].tiers, With(applied[s].tiers, r)}
    BY <1>2 DEF DInv, Tracked
  <2> QED BY <1>2, <2>1 DEF With
<1>7. ASSUME NEW t \in Subjects PROVE InHand(t)' /\ Tracked(t)'
  <2>1. CASE t = s
    <3>1. /\ hand'[s] = hand[s] \ {r} /\ acking'[s] = {r}
          /\ roles'[s] = With(roles[s], r)
          /\ applied' = applied /\ changes' = changes /\ copy' = copy
      BY <1>1, <1>2
    <3>2. hand'[s] = {}
      BY <1>2, <3>1 DEF DInv, InHand
    <3>3. InHand(s)'
      BY <1>2, <1>6, <3>1, <3>2 DEF InHand, With
    <3>4. Tracked(s)'
      BY <1>2, <1>6, <3>1 DEF DInv, Tracked, With
    <3> QED BY <2>1, <3>3, <3>4
  <2>2. CASE t # s
    <3>1. /\ hand'[t] = hand[t] /\ acking'[t] = acking[t] /\ roles'[t] = roles[t]
          /\ applied' = applied /\ changes' = changes /\ copy' = copy
      BY <1>1, <1>2, <2>2
    <3> QED BY <3>1 DEF DInv, InHand, Tracked, With
  <2> QED BY <2>1, <2>2
<1> QED BY <1>4, <1>5, <1>7 DEF DInv

\* An acknowledged row was applied, so the record catches up with the roles.
LEMMA AckInv ==
  ASSUME DInv, NEW s \in Subjects, NEW r \in acking[s], Ack(s, r)
  PROVE  DInv'
<1>1. /\ acking' = [acking EXCEPT ![s] = @ \ {r}]
      /\ UNCHANGED <<hand, roles, copy>>
      /\ r \in changes[s] /\ r.dispatched /\ AckChange(s, r)
      /\ s \notin Reconciled => roles[s] = With(applied[s].tiers, r)
      /\ \A q \in changes[s] : q = r
      /\ hand[s] = {} /\ acking[s] = {r}
  BY DEF Ack, DInv, InHand, Inv, Orderly
<1>2. Inv'
  BY <1>1, StepInv DEF DInv, Next
<1>3. DTypeOK'
  BY <1>1 DEF DInv, DTypeOK
<1>4. ASSUME NEW t \in Subjects PROVE InHand(t)' /\ Tracked(t)'
  <2>1. CASE t = s
    <3>1. hand'[s] = {} /\ acking'[s] = {}
      BY <1>1 DEF DInv, DTypeOK
    <3>2. applied'[s].tiers = With(applied[s].tiers, r)
      <4>1. applied'[s] = Acknowledged(applied[s], r)
        BY <1>1 DEF AckChange, DInv, Inv, TypeOK
      <4> QED BY <4>1 DEF Acknowledged, With
    <3>3. Tracked(s)'
      BY <1>1, <3>2 DEF Tracked, DInv
    <3> QED BY <2>1, <3>1, <3>3 DEF InHand
  <2>2. CASE t # s
    <3>1. /\ applied'[t] = applied[t] /\ changes'[t] = changes[t]
          /\ acking'[t] = acking[t] /\ UNCHANGED <<hand, roles, copy>>
      BY <1>1, <2>2 DEF AckChange, DInv, Inv, TypeOK, DTypeOK
    <3>2. Calm(t)
      BY <3>1 DEF Calm
    <3> QED BY <3>1, <3>2, CalmKeeps DEF DInv
  <2> QED BY <2>1, <2>2
<1> QED BY <1>2, <1>3, <1>4 DEF DInv

\* A crash forgets what was in hand, not what was done to the roles.
LEMMA CrashInv ==
  ASSUME DInv, NEW target \in {Discord, Player}, Crash(target)
  PROVE  DInv'
<1>1. /\ hand' = [s \in Subjects |-> IF s \in target THEN {} ELSE hand[s]]
      /\ acking' = [s \in Subjects |-> IF s \in target THEN {} ELSE acking[s]]
      /\ UNCHANGED <<wanted, desired, applied, changes, lastId, held, approved, apply,
                     suppress, edits, history, roles, copy>>
  BY DEF Crash, vars
<1>2. Inv'
  BY <1>1 DEF DInv, Inv, TypeOK, history
<1>3. DTypeOK'
  BY <1>1 DEF DInv, DTypeOK
<1>4. ASSUME NEW s \in Subjects PROVE InHand(s)' /\ Tracked(s)'
  <2>1. Calm(s) /\ hand'[s] \subseteq hand[s] /\ acking'[s] \subseteq acking[s]
    BY <1>1 DEF Calm
  <2> QED BY <1>1, <2>1, CalmKeeps DEF DInv
<1> QED BY <1>2, <1>3, <1>4 DEF DInv

\* The roster names tiers, and only of identities that are reconciled.
LEMMA FetchRosterInv ==
  ASSUME DInv, NEW target \in {Discord, Player}, FetchRoster(target)
  PROVE  DInv'
<1> DEFINE known == {x \in target : applied[x].ever}
<1>1. /\ copy' = [s \in known |-> RosterTier(s)]
      /\ target \subseteq Reconciled
      /\ UNCHANGED <<wanted, desired, applied, changes, lastId, held, approved, apply,
                     suppress, edits, history, hand, acking, roles>>
  BY DEF FetchRoster, vars
<1>2. known \subseteq Subjects /\ known \subseteq Reconciled
  BY <1>1 DEF Subjects
<1>3. ASSUME NEW s \in Subjects PROVE RosterTier(s) \in Tiers \cup {NoTier}
  <2>1. desired[s].tier \in Tiers \cup {NoTier} /\ applied[s].tiers \subseteq Tiers
    <3>1. desired[s] \in Desired /\ applied[s] \in Applied
      BY DEF DInv, Inv, TypeOK
    <3> QED BY <3>1 DEF Desired, Applied
  <2> DEFINE S == applied[s].tiers \cup {NoTier}
                    \cup (IF apply THEN {desired[s].tier} ELSE {})
  <2>2. S \in SUBSET (Tiers \cup {NoTier}) /\ S # {}
    BY <2>1
  <2>3. Max(S) \in S
    <3> HIDE DEF S
    <3> QED BY <2>2, MaxOfTiers
  <2>4. RosterTier(s) \in {Max(S), desired[s].tier}
    BY DEF RosterTier
  <2> HIDE DEF S
  <2> QED BY <2>1, <2>2, <2>3, <2>4
<1> HIDE DEF known
<1>4. copy' \in [known -> Tiers \cup {NoTier}] /\ DOMAIN copy' = known
  BY <1>1, <1>2, <1>3
<1>5. Inv'
  BY <1>1 DEF DInv, Inv, TypeOK, history
<1>6. DTypeOK'
  BY <1>1, <1>2, <1>4 DEF DInv, DTypeOK
<1>7. ASSUME NEW s \in Subjects PROVE InHand(s)' /\ Tracked(s)'
  BY <1>1, <1>2, <1>4 DEF DInv, InHand, Tracked, With
<1> QED BY <1>5, <1>6, <1>7 DEF DInv

\* Reconciling touches only identities the roster names.
LEMMA ReconcileInv ==
  ASSUME DInv, ReconcileRoles
  PROVE  DInv'
<1>1. /\ copy' = NoCopy
      /\ roles' = [s \in Subjects |-> IF s \in DOMAIN copy THEN {copy[s]} \ {NoTier}
                                                           ELSE roles[s]]
      /\ UNCHANGED <<wanted, desired, applied, changes, lastId, held, approved, apply,
                     suppress, edits, history, hand, acking>>
  BY DEF ReconcileRoles, vars
<1>2. DOMAIN copy' = {} /\ copy' \in [{} -> Tiers \cup {NoTier}]
  BY <1>1 DEF NoCopy
<1>3. \A s \in DOMAIN copy : copy[s] \in Tiers \cup {NoTier}
  BY DEF DInv, DTypeOK
<1>4. roles' \in [Subjects -> SUBSET Tiers]
  BY <1>1, <1>3 DEF DInv, DTypeOK
<1>5. DTypeOK'
  BY <1>1, <1>2, <1>4 DEF DInv, DTypeOK
<1>6. Inv'
  BY <1>1 DEF DInv, Inv, TypeOK, history
<1>7. ASSUME NEW s \in Subjects PROVE InHand(s)' /\ Tracked(s)'
  <2>1. s \notin Reconciled => roles'[s] = roles[s]
    BY <1>1 DEF DInv, Tracked
  <2> QED BY <1>1, <1>2, <2>1 DEF DInv, InHand, Tracked, With
<1> QED BY <1>5, <1>6, <1>7 DEF DInv

LEMMA DStepInv == DInv /\ [DNext]_dvars => DInv'
<1> SUFFICES ASSUME DInv, [DNext]_dvars PROVE DInv'
  OBVIOUS
<1>1. CASE Backend
  <2>1. Inv' /\ (\A s \in Subjects : Calm(s)) /\ UNCHANGED <<hand, acking, roles, copy>>
    BY <1>1, BackendCalm DEF DInv, Backend, applier
  <2>2. DTypeOK'
    BY <2>1 DEF DInv, DTypeOK
  <2>3. \A s \in Subjects : InHand(s)' /\ Tracked(s)'
    BY <2>1, CalmKeeps DEF DInv
  <2> QED BY <2>1, <2>2, <2>3 DEF DInv
<1>2. ASSUME NEW target \in {Discord, Player},
             Poll(target) \/ PollLost(target) \/ Crash(target) \/ FetchRoster(target)
      PROVE  DInv'
  BY <1>2, PollInv, CrashInv, FetchRosterInv
<1>3. ASSUME NEW s \in Subjects, NEW r \in hand[s], ApplyChange(s, r)
      PROVE  DInv'
  BY <1>3, ApplyInv
<1>4. ASSUME NEW s \in Subjects, NEW r \in acking[s], Ack(s, r)
      PROVE  DInv'
  BY <1>4, AckInv
<1>5. CASE ReconcileRoles
  BY <1>5, ReconcileInv
<1>6. CASE UNCHANGED dvars
  BY <1>6 DEF dvars, vars, history, applier, DInv, DTypeOK, Inv, TypeOK, InHand, Tracked,
     With
<1> QED BY <1>1, <1>2, <1>3, <1>4, <1>5, <1>6 DEF DNext

\* What the outbox and its appliers keep, whatever is lost and whoever crashes.
THEOREM DInvariance == DSpec => []DInv
BY DInitInv, DStepInv, PTL DEF DSpec

\* What an identity really has is what the backend recorded, or that with the
\* one row in flight applied (list_changes, ack_changes and at-least-once
\* appliers).
THEOREM RolesAreTracked == DSpec => []RolesTracked
<1>1. DInv => RolesTracked
  BY DEF DInv, Tracked, RolesTracked, Acknowledged, With
<1> QED BY <1>1, DInvariance, PTL

-----------------------------------------------------------------------------
(* What the outbox promises, with real appliers                            *)

\* To the backend a step of the whole is one of its own, a change of
\* entitlement, or none.
LEMMA BackendSteps ==
  ASSUME DInv, [DNext]_dvars
  PROVE  [Next]_vars \/ \E s \in Subjects : Entitle(s, {1})
<1>1. CASE Backend
  BY <1>1 DEF Backend, Next
<1>2. ASSUME NEW target \in {Discord, Player},
             Poll(target) \/ PollLost(target) \/ Crash(target) \/ FetchRoster(target)
      PROVE  [Next]_vars
  BY <1>2 DEF Poll, PollLost, Crash, FetchRoster, Next
<1>3. ASSUME NEW s \in Subjects, NEW r \in hand[s], ApplyChange(s, r)
      PROVE  UNCHANGED vars
  BY <1>3 DEF ApplyChange
<1>4. ASSUME NEW s \in Subjects, NEW r \in acking[s], Ack(s, r)
      PROVE  [Next]_vars
  BY <1>4 DEF Ack, Next
<1>5. CASE ReconcileRoles
  BY <1>5 DEF ReconcileRoles
<1>6. CASE UNCHANGED dvars
  BY <1>6 DEF dvars
<1> QED BY <1>1, <1>2, <1>3, <1>4, <1>5, <1>6 DEF DNext

\* Appliers that lose replies, repeat acknowledgements and crash are still
\* made the promise of PatreonGrants: one change at a time, which stands until
\* it is acknowledged (list_changes, ack_changes).
THEOREM DeliveryImplementsGrants == DSpec => ImplementsGrants
<1>1. DInit => Grants!Init
  BY DEF DInit, Init, Grants!Init, OfferOf, NoApplied
<1>2. ASSUME DInv, [DNext]_dvars PROVE [Grants!Next]_(Grants!vars)
  <2>1. CASE [Next]_vars
    BY <1>2, <2>1, OfferStep DEF Grants!Next, DInv
  <2>2. ASSUME NEW s \in Subjects, Entitle(s, {1})
        PROVE  UNCHANGED Grants!vars
    BY <2>2 DEF Entitle, Grants!vars, OfferOf
  <2> QED BY <1>2, <2>1, <2>2, BackendSteps
<1> QED BY <1>1, <1>2, DInvariance, PTL DEF DSpec, ImplementsGrants, Grants!Spec

-----------------------------------------------------------------------------
(* What members really get                                                 *)

\* A role leaves an identity only if the backend has it recorded as granted,
\* so that roles staff gave by hand stay, whatever was lost or repeated.
TakesOnlyGranted ==
  [][\A s \in Subjects \ Reconciled : roles[s] \ roles'[s] \subseteq applied[s].tiers]_dvars

\* The row an applier applies, late or again, is still the one in flight, so
\* it takes away only what patreon_applied records (_plan, ack_changes).
THEOREM OnlyGrantedTaken == DSpec => TakesOnlyGranted
<1>1. ASSUME DInv, [DNext]_dvars, NEW s \in Subjects \ Reconciled
      PROVE  roles[s] \ roles'[s] \subseteq applied[s].tiers
  <2>1. CASE UNCHANGED roles
    BY <2>1
  <2>2. ASSUME NEW t \in Subjects, NEW r \in hand[t], ApplyChange(t, r)
        PROVE  roles[s] \ roles'[s] \subseteq applied[s].tiers
    <3>1. r.remove \subseteq applied[t].tiers
      BY <1>1 DEF DInv, InHand, Inv, Orderly
    <3>2. roles' = [roles EXCEPT ![t] = With(@, r)] /\ roles \in [Subjects -> SUBSET Tiers]
      BY <1>1, <2>2 DEF ApplyChange, With, DInv, DTypeOK
    <3> QED BY <3>1, <3>2 DEF With
  <2>3. CASE ReconcileRoles
    <3>1. s \notin DOMAIN copy
      BY <1>1 DEF DInv, Tracked
    <3> QED BY <2>3, <3>1 DEF ReconcileRoles
  <2> QED
    BY <1>1, <2>1, <2>2, <2>3
       DEF DNext, Backend, Poll, PollLost, Crash, FetchRoster, Ack, applier, dvars
<1>2. DInv /\ [DNext]_dvars =>
        [\A s \in Subjects \ Reconciled : roles[s] \ roles'[s] \subseteq applied[s].tiers]_dvars
  BY <1>1
<1> QED BY <1>2, DInvariance, PTL DEF DSpec, TakesOnlyGranted

\* An identity with nothing outstanding really has its desired tier and no
\* other, unless the brake holds: nothing is left that nobody will do.
QuietIsRight ==
  planned /\ ~held => \A s \in Subjects \ Reconciled :
    changes[s] = {} => roles[s] = {desired[s].tier} \ {NoTier}

\* The safety half of convergence: an empty outbox means the roles are right
\* (_compute, ack_changes and at-least-once appliers).
THEOREM QuietRolesAreRight == DSpec => []QuietIsRight
<1>1. DInit => Planned
  BY InitPlanned DEF DInit
<1>2. ASSUME DInv, Planned, [DNext]_dvars PROVE Planned'
  <2>1. CASE [Next]_vars
    BY <1>2, <2>1, StepPlanned DEF DInv
  <2>2. ASSUME NEW s \in Subjects, Entitle(s, {1}) PROVE Planned'
    BY <1>2, <2>2 DEF Entitle, history, Planned
  <2> QED BY <1>2, <2>1, <2>2, BackendSteps
<1>3. ASSUME DInv, Planned, planned, ~held, NEW s \in Subjects \ Reconciled,
             changes[s] = {}
      PROVE  roles[s] = {desired[s].tier} \ {NoTier}
  <2>1. Agrees(desired[s], applied[s], held)
    BY <1>3 DEF Planned, Settled
  <2>2. roles[s] = applied[s].tiers
    BY <1>3 DEF DInv, Tracked
  <2>3. NoTier \notin applied[s].tiers
    <3>1. applied[s].tiers \subseteq Tiers
      BY <1>3 DEF DInv, Inv, TypeOK, Applied
    <3> QED BY <3>1, OutboxAssumption DEF Tiers, NoTier
  <2> QED BY <1>3, <2>1, <2>2, <2>3 DEF Agrees
<1>4. DInv /\ Planned => QuietIsRight
  BY <1>3 DEF QuietIsRight
<1> QED BY <1>1, <1>2, <1>4, DInvariance, PTL DEF DSpec
=============================================================================
