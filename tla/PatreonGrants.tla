--------------------------- MODULE PatreonGrants ---------------------------
(***************************************************************************)
(* What the Patreon outbox promises its appliers, without generations, DMs,*)
(* the brake or recomputes.  An identity owns the tiers acknowledged so    *)
(* far.  It is offered one change at a time, under a new id; the change    *)
(* removes nothing it does not own and stands unaltered until it is        *)
(* settled, and settling it is all that changes what the identity owns,    *)
(* except for grants imported from the system that came before.            *)
(***************************************************************************)
EXTENDS Naturals

CONSTANTS Subjects, Importable, Tiers, NoTier

VARIABLES
  owned,   \* acknowledged tiers of each identity
  offer,   \* the change each identity is offered, as a set of at most one
  lastId   \* id of the last change offered to each identity

vars == <<owned, offer, lastId>>

Change == [id : Nat, add : Tiers \cup {NoTier}, remove : SUBSET Tiers]

Init ==
  /\ owned = [s \in Subjects |-> {}]
  /\ offer = [s \in Subjects |-> {}]
  /\ lastId = [s \in Subjects |-> 0]

Idle(s) ==
  owned'[s] = owned[s] /\ offer'[s] = offer[s] /\ lastId'[s] = lastId[s]

Offer(s) ==
  /\ offer[s] = {}
  /\ \E c \in offer'[s] : /\ offer'[s] = {c}
                          /\ c \in Change
                          /\ c.remove \subseteq owned[s]
                          /\ c.add \notin c.remove
                          /\ c.id > lastId[s]
                          /\ lastId'[s] = c.id
  /\ owned'[s] = owned[s]

Settle(s) ==
  /\ \E c \in offer[s] :
       owned'[s] = (owned[s] \ c.remove)
                     \cup (IF c.add = NoTier THEN {} ELSE {c.add})
  /\ offer'[s] = {}
  /\ lastId'[s] = lastId[s]

Import(s) ==
  /\ s \in Importable
  /\ owned[s] \subseteq owned'[s]
  /\ offer'[s] = offer[s] /\ lastId'[s] = lastId[s]

Next == \A s \in Subjects : Idle(s) \/ Offer(s) \/ Settle(s) \/ Import(s)

Spec == Init /\ [][Next]_vars
=============================================================================
