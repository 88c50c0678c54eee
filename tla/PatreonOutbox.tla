--------------------------- MODULE PatreonOutbox ---------------------------
(***************************************************************************)
(* The change outbox of the Patreon integration                            *)
(* (backend/src/patreon/service.py).  Patreon decides which supporter tier *)
(* every linked identity should have (patreon_desired); appliers the       *)
(* backend does not control poll the rows of patreon_changes, apply them   *)
(* and acknowledge them, and only an acknowledgement changes what the      *)
(* backend believes it granted (patreon_applied).  A brake holds mass      *)
(* removals until staff release them.                                      *)
(*                                                                         *)
(* Every action is one database transaction under PATREON_LOCK, so         *)
(* transactions are atomic with respect to each other; what interleaves is *)
(* their order, with appliers, syncs, staff and restarts all independent.  *)
(*                                                                         *)
(* An identity is a (target, subject) pair: a Discord user in the          *)
(* "discord" outbox or a player in the "luckperms" one.  A tier is its     *)
(* rank (load_tiers refuses two tiers of one rank) and 0 is no tier.       *)
(***************************************************************************)
EXTENDS Naturals, Sequences, FiniteSets, FiniteSetsExt

CONSTANTS
  Discord,    \* identities of target "discord": they can be sent DMs
  Player,     \* identities of target "luckperms"
  MaxTier,    \* the tiers are 1..MaxTier
  MaxGrace,   \* grace deadlines are 1..MaxGrace, 0 is no grace
  BrakeMin,   \* fewest reductions that trip the brake (5 in the code)
  FracNum,    \* the brake trips when reductions / granted > FracNum/FracDen
  FracDen,
  Suppressing, \* the settings of PATREON_SUPPRESS_DMS a (re)start may find
  MaxEdits    \* bound: changes of entitlement, imports and restarts together

ASSUME OutboxAssumption ==
  /\ Discord \cap Player = {}
  /\ IsFiniteSet(Discord \cup Player)
  /\ MaxTier \in Nat /\ MaxGrace \in Nat /\ MaxEdits \in Nat
  /\ BrakeMin \in Nat /\ FracNum \in Nat /\ FracDen \in Nat \ {0}
  /\ Suppressing \subseteq BOOLEAN

Subjects == Discord \cup Player
Tiers == 1..MaxTier
NoTier == 0
NoDm == "none"
Dms == {NoDm, "payment_declined", "tier_changed", "tier_granted",
        "perks_ended", "link_success"}

VARIABLES
  wanted,    \* what members and links entitle each identity to now
  desired,   \* patreon_desired; gen = 0 where there is no row
  applied,   \* patreon_applied: acknowledged tiers, last DM generation
  changes,   \* the unacknowledged, uncancelled patreon_changes of each identity
  lastId,    \* the last row id of each identity that was dispatched
  held,      \* patreon_sync_state.brake_held
  approved,  \* patreon_brake_approvals; 0 where there is no row
  apply,     \* PATREON_APPLY of the running process
  suppress,  \* PATREON_SUPPRESS_DMS of the running process
  edits,     \* entitlement changes, imports and restarts so far
  planned,   \* history: the last recompute ran with apply on
  told       \* history: the last generation whose DM was dispatched

history == <<planned, told>>
vars == <<wanted, desired, applied, changes, lastId, held, approved, apply,
          suppress, edits, history>>

Row == [id : Nat, add : Tiers \cup {NoTier}, remove : SUBSET Tiers, dm : Dms, gen : Nat,
        suppressed : BOOLEAN, dispatched : BOOLEAN]
Wanted == [linked : BOOLEAN, tier : Tiers \cup {NoTier}, grace : 0..MaxGrace,
           event : Nat]
Desired == [tier : Tiers \cup {NoTier}, grace : 0..MaxGrace, dm : Dms,
            gen : Nat, event : Nat]
Applied == [tiers : SUBSET Tiers, ever : BOOLEAN, dmGen : Nat]

TypeOK ==
  /\ wanted \in [Subjects -> Wanted]
  /\ desired \in [Subjects -> Desired]
  /\ applied \in [Subjects -> Applied]
  /\ changes \in [Subjects -> SUBSET Row]
  /\ lastId \in [Subjects -> Nat]
  /\ approved \in [Subjects -> Nat]
  /\ held \in BOOLEAN /\ apply \in BOOLEAN /\ suppress \in BOOLEAN
  /\ planned \in BOOLEAN /\ edits \in Nat
  /\ told \in [Subjects -> Nat]

-----------------------------------------------------------------------------
(* Desired state and the rows planned towards it                           *)

Unlinked == [linked |-> FALSE, tier |-> NoTier, grace |-> 0, event |-> 0]
NoDesired == [tier |-> NoTier, grace |-> 0, dm |-> NoDm, gen |-> 0, event |-> 0]
NoApplied == [tiers |-> {}, ever |-> FALSE, dmGen |-> 0]

\* The highest tier an applier has acknowledged.
Top(owned) == Max(owned \cup {NoTier})

\* The DM a change of desired state announces; only Discord users get any.
DmFor(s, old, w, newLink) ==
  CASE s \notin Discord -> NoDm
    [] newLink /\ w.grace = 0 -> "link_success"
    [] w.tier # NoTier /\ w.grace # 0 /\ w.grace # old.grace -> "payment_declined"
    [] w.tier = old.tier -> NoDm
    [] w.tier = NoTier -> "perks_ended"
    [] old.tier = NoTier -> "tier_granted"
    [] OTHER -> "tier_changed"

\* _set_desired: a new generation unless nothing changed; ev = 0 is no event.
SetDesired(s, old, w, ev) ==
  LET newLink == s \in Discord /\ ev # 0 /\ ev # old.event
      same == old.gen > 0 /\ old.tier = w.tier /\ old.grace = w.grace
  IN IF same /\ ~newLink THEN old
     ELSE [tier |-> w.tier, grace |-> w.grace, dm |-> DmFor(s, old, w, newLink),
           gen |-> old.gen + 1, event |-> IF ev # 0 THEN ev ELSE old.event]

\* Faulty: lowers whatever is not desired, not only what was granted.
RowRemovesUngranted(s, d, a, h) ==
  LET dm == IF a.dmGen < d.gen THEN d.dm ELSE NoDm
  IN [id |-> lastId[s] + 1, add |-> d.tier, remove |-> Tiers \ {d.tier},
      dm |-> dm, gen |-> d.gen, suppressed |-> FALSE, dispatched |-> FALSE]

\* Faulty: forgets that the DM of this generation was acknowledged.
RowRepeatsDm(s, d, a, h) ==
  [id |-> lastId[s] + 1, add |-> IF d.tier \in a.tiers THEN NoTier ELSE d.tier,
   remove |-> IF h THEN {} ELSE a.tiers \ {d.tier},
   dm |-> d.dm, gen |-> d.gen, suppressed |-> FALSE, dispatched |-> FALSE]

\* Faulty: the brake holds the removal back but not its DM.
RowTellsHeld(s, d, a, h) ==
  [id |-> lastId[s] + 1, add |-> IF d.tier \in a.tiers THEN NoTier ELSE d.tier,
   remove |-> IF h THEN {} ELSE a.tiers \ {d.tier},
   dm |-> IF a.dmGen < d.gen THEN d.dm ELSE NoDm, gen |-> d.gen,
   suppressed |-> FALSE, dispatched |-> FALSE]

\* The row _plan wants for identity s, from its desired and applied rows.  Ids
\* are counted per identity, and ids of cancelled rows, which nobody saw, again.
\* A declined payment is announced on its own, before anything is granted.
RowFor(s, d, a, h) ==
  LET fresh == a.dmGen < d.gen
      lowered == d.tier < Top(a.tiers)
      dm == IF fresh /\ ~(h /\ lowered) THEN d.dm ELSE NoDm
      notice == dm = "payment_declined"
  IN [id |-> lastId[s] + 1,
      add |-> IF notice \/ d.tier \in a.tiers THEN NoTier ELSE d.tier,
      remove |-> IF h \/ notice THEN {} ELSE a.tiers \ {d.tier},
      dm |-> dm, gen |-> d.gen,
      suppressed |-> suppress /\ s \in Discord /\ dm # NoDm,
      dispatched |-> FALSE]

Empty(row) == row.add = NoTier /\ row.remove = {} /\ row.dm = NoDm

SameChange(r1, r2) ==
  /\ r1.add = r2.add /\ r1.remove = r2.remove
  /\ r1.dm = r2.dm /\ r1.gen = r2.gen

\* Faulty: queues the new row beside the old one.
PlanKeepsOld(s, d, a, h, rows) ==
  LET row == RowFor(s, d, a, h)
  IN IF d.gen = 0 \/ ~apply \/ Empty(row) \/ \E r \in rows : SameChange(r, row)
       THEN rows ELSE rows \cup {row}

\* Faulty: any row waiting is good enough.
PlanNeverReplaces(s, d, a, h, rows) ==
  LET row == RowFor(s, d, a, h)
  IN IF d.gen = 0 \/ ~apply \/ rows # {} \/ Empty(row) THEN rows ELSE {row}

\* Faulty: recalls a row that an applier may already be working on.
PlanRecalls(s, d, a, h, rows) ==
  LET row == RowFor(s, d, a, h)
  IN IF d.gen = 0 \/ ~apply \/ \E r \in rows : SameChange(r, row) THEN rows
     ELSE IF Empty(row) THEN {} ELSE {row}

\* Faulty: queues changes in shadow mode.
PlanIgnoresShadow(s, d, a, h, rows) ==
  LET row == RowFor(s, d, a, h)
  IN IF d.gen = 0 \/ \E r \in rows : r.dispatched \/ SameChange(r, row) THEN rows
     ELSE IF Empty(row) THEN {} ELSE {row}

\* _plan: a row in an applier's hands is immutable; one not dispatched is kept
\* if it still says the right thing, else cancelled and replaced.
Plan(s, d, a, h, rows) ==
  LET row == RowFor(s, d, a, h)
  IN IF \/ d.gen = 0
        \/ ~apply
        \/ \E r \in rows : r.dispatched
        \/ \E r \in rows : SameChange(r, row)
       THEN rows
       ELSE IF Empty(row) THEN {} ELSE {row}

\* The part of _compute that rewrites patreon_desired: identities neither
\* linked now nor known from before get no row.  An applied row without a
\* desired one is an imported grant, so it owns a tier.
Recomputed(apps, event) ==
  [s \in Subjects |->
     IF wanted[s].linked \/ desired[s].gen > 0 \/ apps[s].tiers # {}
       THEN SetDesired(s, desired[s], wanted[s], event[s])
       ELSE desired[s]]

\* The part of _compute that plans every desired row.
PlanAll(des, apps, h) ==
  [s \in Subjects |-> Plan(s, des[s], apps[s], h, changes[s])]

NoEvents == [s \in Subjects |-> 0]
EventOf(linker) ==
  [s \in Subjects |-> IF s \in linker /\ wanted[s].linked
                        THEN wanted[s].event ELSE 0]

\* Identities whose acknowledged tier a recompute to des would lower and
\* whose reduction staff have not approved.
Lowered(des) ==
  {s \in Subjects : /\ des[s].tier < Top(applied[s].tiers)
                    /\ des[s].gen # approved[s]}
Granted == {s \in Subjects : applied[s].tiers # {}}

BrakeTrips(des) ==
  /\ Cardinality(Lowered(des)) >= BrakeMin
  /\ Granted # {}
  /\ Cardinality(Lowered(des)) * FracDen > FracNum * Cardinality(Granted)

-----------------------------------------------------------------------------
(* Transactions                                                            *)

Init ==
  /\ wanted = [s \in Subjects |-> Unlinked]
  /\ desired = [s \in Subjects |-> NoDesired]
  /\ applied = [s \in Subjects |-> NoApplied]
  /\ changes = [s \in Subjects |-> {}]
  /\ lastId = [s \in Subjects |-> 0]
  /\ approved = [s \in Subjects |-> 0]
  /\ told = [s \in Subjects |-> 0]
  /\ held = FALSE
  /\ apply \in BOOLEAN /\ suppress \in Suppressing
  /\ edits = 0
  /\ planned = TRUE

\* _compute with the given applied rows, link events and brake, in one
\* transaction: desired rows, then the plan of every identity.
Compute(apps, event, h) ==
  LET des == Recomputed(apps, event)
  IN /\ desired' = des
     /\ applied' = apps
     /\ held' = h
     /\ changes' = PlanAll(des, apps, h)
     /\ planned' = apply
     /\ UNCHANGED <<lastId, told>>

\* The transaction of a sync or a member refresh: the only caller of _compute
\* that checks the brake.
Sync ==
  /\ Compute(applied, NoEvents, held \/ BrakeTrips(Recomputed(applied, NoEvents)))
  /\ UNCHANGED <<wanted, approved, apply, suppress, edits>>

\* recompute_link, staff_link and unlink; linker holds the Discord user whose
\* fresh link is announced, if there is one.
RecomputeLink(linker) ==
  /\ Compute(applied, EventOf(linker), held)
  /\ UNCHANGED <<wanted, approved, apply, suppress, edits>>

\* import_links with dry_run off: legacy grants count as acknowledged ones.
ImportGrants(grants) ==
  LET seeded == {s \in Player : grants[s] # NoTier /\ grants[s] \notin applied[s].tiers}
      apps == [s \in Subjects |->
                 IF s \in seeded
                   THEN [applied[s] EXCEPT !.tiers = @ \cup {grants[s]}, !.ever = TRUE]
                   ELSE applied[s]]
  IN /\ edits < MaxEdits
     /\ edits' = edits + 1
     /\ Compute(apps, NoEvents, held)
     /\ UNCHANGED <<wanted, approved, apply, suppress>>

\* Faulty: releases the brake and does not remember what was approved.
ReleaseForgets ==
  /\ Compute(applied, NoEvents, FALSE)
  /\ UNCHANGED <<wanted, approved, apply, suppress, edits>>

\* Staff release the brake: replan from the current state, and approve the
\* reductions that state still has so that the next sync does not hold them.
ReleaseBrake ==
  LET des == Recomputed(applied, NoEvents)
  IN /\ Compute(applied, NoEvents, FALSE)
     /\ approved' = [s \in Subjects |->
                       IF des[s].gen > 0 /\ des[s].tier < Top(applied[s].tiers)
                         THEN des[s].gen ELSE approved[s]]
     /\ UNCHANGED <<wanted, apply, suppress, edits>>

\* Faulty: forgets the brake.
ListedUnbraked(s) == changes[s]

\* The rows list_changes puts in its reply for identity s.
Listed(s) == {r \in changes[s] : ~(held /\ r.remove # {})}

\* The newest of the numbers of one row and those before it.
Newest(last, numbers) ==
  IF \E n \in numbers : n > last THEN CHOOSE n \in numbers : n > last ELSE last

\* list_changes of one target: every row in the reply is dispatched.
ListChanges(target) ==
  LET sent == [s \in Subjects |-> IF s \in target THEN Listed(s) ELSE {}]
  IN /\ apply
     /\ changes' = [s \in Subjects |-> (changes[s] \ sent[s])
                       \cup {[r EXCEPT !.dispatched = TRUE] : r \in sent[s]}]
     /\ lastId' = [s \in Subjects |-> Newest(lastId[s], {r.id : r \in sent[s]})]
     /\ told' = [s \in Subjects |->
                    Newest(told[s], {r.gen : r \in {q \in sent[s] : q.dm # NoDm}})]
     /\ UNCHANGED <<wanted, desired, applied, held, approved, apply, suppress,
                    edits, planned>>

\* Faulty: records an absent tier as granted.
AcknowledgedNone(app, row) ==
  LET tiers == (app.tiers \ row.remove) \cup {row.add}
  IN [tiers |-> tiers, ever |-> TRUE,
      dmGen |-> IF row.dm # NoDm /\ row.gen > app.dmGen THEN row.gen ELSE app.dmGen]

\* What the first acknowledgement of row records: exactly its contents.
Acknowledged(app, row) ==
  LET tiers == (app.tiers \ row.remove)
                 \cup (IF row.add = NoTier THEN {} ELSE {row.add})
  IN [tiers |-> tiers, ever |-> tiers # {} \/ app.ever,
      dmGen |-> IF row.dm # NoDm /\ row.gen > app.dmGen THEN row.gen ELSE app.dmGen]

\* Faulty: does not plan what is left to do.
AckNoReplan(s, row) ==
  /\ apply
  /\ row.dispatched
  /\ applied' = [applied EXCEPT ![s] = Acknowledged(@, row)]
  /\ changes' = [changes EXCEPT ![s] = @ \ {row}]
  /\ UNCHANGED <<wanted, desired, lastId, held, approved, apply, suppress,
                 edits, history>>

\* The first acknowledgement of row, one id of an ack_changes request: a
\* request runs its ids in order and each touches this row and identity only.
\* An id that is cancelled, acknowledged already or never dispatched changes
\* nothing, so it is no step.
AckChange(s, row) ==
  LET app == Acknowledged(applied[s], row)
  IN /\ apply
     /\ row.dispatched
     /\ applied' = [applied EXCEPT ![s] = app]
     /\ changes' = [changes EXCEPT
                      ![s] = Plan(s, desired[s], app, held, @ \ {row})]
     /\ UNCHANGED <<wanted, desired, lastId, held, approved, apply, suppress,
                    edits, history>>

\* A member, a link or the clock changes what identity s is entitled to: its
\* link ends or is replaced (a new event), or its patron's tier or grace
\* deadline changes.  A tier with a deadline is one kept in grace, no tier with
\* a deadline is one whose grace ran out.
Entitle(s, events) ==
  /\ edits < MaxEdits
  /\ edits' = edits + 1
  /\ \E w \in {Unlinked} \cup
       [linked : {TRUE}, tier : Tiers \cup {NoTier}, grace : 0..MaxGrace,
        event : events] :
        /\ w # wanted[s]
        /\ wanted' = [wanted EXCEPT ![s] = w]
  /\ UNCHANGED <<desired, applied, changes, lastId, held, approved, apply,
                 suppress, history>>

\* The service restarts with other settings in its environment.
Restart ==
  /\ edits < MaxEdits
  /\ edits' = edits + 1
  /\ apply' \in BOOLEAN /\ suppress' \in Suppressing
  /\ UNCHANGED <<wanted, desired, applied, changes, lastId, held, approved, history>>

Next ==
  \/ Sync
  \/ \E linker \in {{}} \cup {{s} : s \in Discord} : RecomputeLink(linker)
  \/ \E grants \in [Player -> Tiers \cup {NoTier}] : ImportGrants(grants)
  \/ ReleaseBrake
  \/ \E target \in {Discord, Player} : ListChanges(target)
  \/ \E s \in Subjects : \E row \in changes[s] : AckChange(s, row)
  \/ \E s \in Subjects : Entitle(s, {edits + 1, wanted[s].event} \ {0})
  \/ Restart

Spec == Init /\ [][Next]_vars

-----------------------------------------------------------------------------
(* Safety                                                                  *)

\* An identity never has two rows outstanding: an applier could run them in
\* either order (_plan cancels before it inserts and stops while a row is
\* dispatched).
OneLiveRow == \A s \in Subjects : \A r1, r2 \in changes[s] : r1 = r2

\* A row only removes tiers an applier acknowledged having granted, still so
\* when it is applied long after it was planned: patreon_applied is what
\* protects roles that staff gave by hand.
RemovesOnlyGranted ==
  \A s \in Subjects : \A r \in changes[s] :
     r.remove \subseteq applied[s].tiers /\ r.add \notin r.remove

\* Once a recompute ran with apply on, no difference between desired and
\* applied state is left without a row on its way to an applier: what an ack
\* answers is replanned at once, and while the brake holds only reductions wait.
NothingLost ==
  planned => \A s \in Subjects :
    \/ changes[s] # {}
    \/ /\ desired[s].tier \in applied[s].tiers \cup {NoTier}
       /\ held \/ applied[s].tiers \subseteq {desired[s].tier}

\* A row no applier has seen leads to the current desired state, never to an
\* older one it was planned for: it carries the current generation, and if
\* the brake does not hold and it is no mere notice, acknowledging it leaves
\* exactly the desired tier.
PendingIsCurrent ==
  planned => \A s \in Subjects : \A r \in changes[s] :
    ~r.dispatched =>
       /\ r.gen = desired[s].gen
       /\ held => r.remove = {}
       /\ ~held /\ r.dm # "payment_declined" =>
            Acknowledged(applied[s], r).tiers = {desired[s].tier} \ {NoTier}

\* While the brake holds, nobody is told about a reduction that waits: a row
\* no applier has seen carries no DM for an identity that owns a higher tier.
HeldIsQuiet ==
  planned /\ held => \A s \in Subjects : \A r \in changes[s] :
    ~r.dispatched /\ r.dm # NoDm => desired[s].tier >= Top(applied[s].tiers)

-----------------------------------------------------------------------------
(* What a step may never do                                                *)

\* Rows in an applier's hands are immutable: a step neither rewrites nor
\* cancels a dispatched row, and one that leaves the outbox was acknowledged,
\* its exact contents recorded.
DispatchedImmutable ==
  [][\A s \in Subjects : \A r \in changes[s] :
       r.dispatched => \/ r \in changes'[s]
                       \/ applied'[s] = Acknowledged(applied[s], r)]_vars

\* The DM of a generation is first handed out by one row only, whatever is
\* recomputed, held, restarted or acknowledged in between ("Backend recomputes
\* do not create a second DM for the same transition", patreon-backend.md).
OneDmPerGeneration ==
  [][\A s \in Subjects : \A r \in changes[s] :
       /\ ~r.dispatched /\ r.dm # NoDm
       /\ [r EXCEPT !.dispatched = TRUE] \in changes'[s]
       => r.gen > told[s]]_vars

\* While the brake holds, and in the step that makes it hold, no removal is
\* dispatched that an applier had not been given before.
NoHeldRemoval ==
  [][held \/ held' =>
       \A s \in Subjects : \A r \in changes'[s] :
          r.dispatched /\ r.remove # {} => r \in changes[s]]_vars

\* In shadow mode nothing is queued or recorded as applied, but for an
\* explicit import of grants, and nothing is dispatched.
ShadowIsSilent ==
  [][~apply => \A s \in Subjects :
       /\ changes'[s] = changes[s]
       /\ applied'[s] # applied[s] => s \in Player]_vars

\* A DM queued while DMs are suppressed stays hidden "including after the flag
\* is turned off, via dm_suppressed" (patreon-backend.md), also when its row is
\* replaced by another one with the same DM before an applier saw it.
SuppressedStaysHidden ==
  [][\A s \in Subjects : \A r \in changes[s] : \A q \in changes'[s] :
       r.suppressed /\ q.dm = r.dm /\ q.gen = r.gen => q.suppressed]_vars

-----------------------------------------------------------------------------
(* The promise to appliers, see PatreonGrants                              *)

OfferOf(s) == {[id |-> r.id, add |-> r.add, remove |-> r.remove] :
                 r \in {q \in changes[s] : q.dispatched}}

Grants == INSTANCE PatreonGrants
            WITH owned <- [s \in Subjects |-> applied[s].tiers],
                 offer <- [s \in Subjects |-> OfferOf(s)],
                 Importable <- Player

\* The outbox implements the promise: each identity is offered one change at
\* a time, which stands until it is acknowledged, and nothing else than its
\* acknowledgement changes what the backend believes it granted.
ImplementsGrants == Grants!Spec
=============================================================================
