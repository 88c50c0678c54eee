-------------------------- MODULE PatreonDelivery --------------------------
(***************************************************************************)
(* The outbox composed with the appliers that empty it: the Discord bot's  *)
(* patreon cog and the server plugin.  They are not in this repository; the *)
(* applier below does what the API they call lets them rely on and what    *)
(* docs/docs/integrations/patreon.md asks of them: poll, apply every row   *)
(* of the reply, acknowledge it, and now and then reconcile with the       *)
(* roster.  Replies and acknowledgements get lost, and an applier may      *)
(* crash between any two steps.                                            *)
(*                                                                         *)
(* The settings do not change here: apply is on.                           *)
(***************************************************************************)
EXTENDS PatreonOutbox

CONSTANT Reconciled   \* identities whose applier also reconciles with the roster

ASSUME DeliveryAssumption == Reconciled \subseteq Subjects

VARIABLES
  hand,    \* rows of the last poll's reply still to be applied
  acking,  \* rows applied and not yet acknowledged to the backend
  roles,   \* the tiers each identity really has, in Discord or LuckPerms
  copy     \* a roster an applier fetched and has not acted on yet

applier == <<hand, acking, roles, copy>>
dvars == <<vars, applier>>

NoCopy == [s \in {} |-> NoTier]

DTypeOK ==
  /\ hand \in [Subjects -> SUBSET Row]
  /\ acking \in [Subjects -> SUBSET Row]
  /\ roles \in [Subjects -> SUBSET Tiers]
  /\ \E S \in SUBSET Subjects : copy \in [S -> Tiers \cup {NoTier}]

DInit ==
  /\ Init /\ apply = TRUE /\ suppress = FALSE
  /\ hand = [s \in Subjects |-> {}]
  /\ acking = [s \in Subjects |-> {}]
  /\ roles = [s \in Subjects |-> {}]
  /\ copy = NoCopy

Idle(target) == \A s \in target : hand[s] = {} /\ acking[s] = {}

\* A poll: the reply arrives, or it is lost with its rows marked dispatched.
Poll(target) ==
  /\ Idle(target)
  /\ ListChanges(target)
  /\ hand' = [s \in Subjects |->
                IF s \in target
                  THEN {[r EXCEPT !.dispatched = TRUE] : r \in Listed(s)}
                  ELSE hand[s]]
  /\ UNCHANGED <<acking, roles, copy>>

PollLost(target) ==
  /\ Idle(target)
  /\ ListChanges(target)
  /\ UNCHANGED applier

ApplyChange(s, r) ==
  /\ r \in hand[s]
  /\ hand' = [hand EXCEPT ![s] = @ \ {r}]
  /\ roles' = [roles EXCEPT
                 ![s] = (@ \ r.remove) \cup (IF r.add = NoTier THEN {} ELSE {r.add})]
  /\ acking' = [acking EXCEPT ![s] = @ \cup {r}]
  /\ UNCHANGED <<vars, copy>>

\* An acknowledgement that arrives.  Unless its row is still the one in
\* flight it is a repeat and the backend changes nothing.
Ack(s, r) ==
  /\ r \in acking[s]
  /\ acking' = [acking EXCEPT ![s] = @ \ {r}]
  /\ IF r \in changes[s] THEN AckChange(s, r) ELSE UNCHANGED vars
  /\ UNCHANGED <<hand, roles, copy>>

\* The applier of one target dies, or gives an acknowledgement up after the
\* request or its answer was lost; all it had in hand is fetched again.
Crash(target) ==
  /\ hand' = [s \in Subjects |-> IF s \in target THEN {} ELSE hand[s]]
  /\ acking' = [s \in Subjects |-> IF s \in target THEN {} ELSE acking[s]]
  /\ UNCHANGED <<vars, roles, copy>>

\* The tier roster gives identity s: while the brake holds, the best it owns.
RosterTier(s) ==
  IF held \/ ~apply
    THEN Max(applied[s].tiers \cup {NoTier}
               \cup (IF apply THEN {desired[s].tier} ELSE {}))
    ELSE desired[s].tier

\* roster: a read-only snapshot of every identity ever granted a tier.
FetchRoster(target) ==
  /\ target # {} /\ target \subseteq Reconciled
  /\ copy = NoCopy
  /\ copy' = [s \in {x \in target : applied[x].ever} |-> RosterTier(s)]
  /\ UNCHANGED <<vars, hand, acking, roles>>

\* The applier gives every identity on its copy exactly the tier it names.
ReconcileRoles ==
  /\ copy # NoCopy
  /\ roles' = [s \in Subjects |-> IF s \in DOMAIN copy THEN {copy[s]} \ {NoTier}
                                                       ELSE roles[s]]
  /\ copy' = NoCopy
  /\ UNCHANGED <<vars, hand, acking>>

Backend ==
  /\ \/ Sync
     \/ RecomputeLink({})
     \/ ReleaseBrake
     \/ \E s \in Subjects : Entitle(s, {1})
  /\ UNCHANGED applier

DNext ==
  \/ Backend
  \/ \E target \in {Discord, Player} :
       Poll(target) \/ PollLost(target) \/ Crash(target) \/ FetchRoster(target)
  \/ \E s \in Subjects : \/ \E r \in hand[s] : ApplyChange(s, r)
                         \/ \E r \in acking[s] : Ack(s, r)
  \/ ReconcileRoles

\* Some process's sync loop runs forever; an applier keeps polling, and neither loses
\* every reply nor dies before finishing every time.
Fairness ==
  /\ WF_dvars(Sync /\ UNCHANGED applier)
  /\ \A target \in {Discord, Player} :
       WF_dvars(Poll(target)) /\ WF_dvars(FetchRoster(target))
  /\ \A s \in Subjects : /\ SF_dvars(\E r \in hand[s] : ApplyChange(s, r))
                         /\ SF_dvars(\E r \in acking[s] : Ack(s, r))
  /\ WF_dvars(ReconcileRoles)

DSpec == DInit /\ [][DNext]_dvars
FairSpec == DSpec /\ Fairness

-----------------------------------------------------------------------------
\* Unless its applier reconciles, the tiers an identity really has are the ones the
\* backend recorded, or those with its one row in flight applied, whatever is
\* lost, repeated or cut short: at-least-once delivery never drifts.
RolesTracked ==
  \A s \in Subjects \ Reconciled :
    \/ roles[s] = applied[s].tiers
    \/ \E r \in changes[s] :
         r.dispatched /\ roles[s] = Acknowledged(applied[s], r).tiers

\* Roles settle on what members and links entitle every identity to, unless
\* the brake is left held for good: staff who release it are not asked to
\* release the same reductions again and again.
RolesConverge ==
  \/ <>[]held
  \/ <>[](\A s \in Subjects : roles[s] = {wanted[s].tier} \ {NoTier})

\* "Additions continue" while the brake holds (patreon-backend.md): an
\* identity entitled to a higher tier than it owns gets it, or stops being
\* entitled to it, or the brake is released.
AdditionsContinue ==
  \A s \in Subjects :
    (held /\ desired[s].tier > Top(applied[s].tiers))
      ~> (~held \/ desired[s].tier <= Top(applied[s].tiers))
=============================================================================
