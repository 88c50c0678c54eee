---------------------------- MODULE PatreonLease ----------------------------
(***************************************************************************)
(* A row of patreon_leases (backend/src/patreon/service.py): a named lease *)
(* that one run owns until it releases it or LEASE_SECONDS pass without a  *)
(* renewal.  What is left of it is counted in ticks, so that time needs no *)
(* bound; a lease with nothing left, or no row, is free to take.           *)
(*                                                                         *)
(* Every acquisition has an owner of its own (a fresh uuid).  A model that *)
(* names owners after workers disowns the lease of a worker that dies, so  *)
(* that its next run is a stranger to it.                                  *)
(***************************************************************************)
EXTENDS Naturals

CONSTANTS Nobody,  \* the owner of a lease whose run is gone
          Ttl      \* ticks a lease lasts without renewal

ASSUME LeaseAssumption == Ttl \in Nat \ {0}

Lease(owners) == [owner : owners \cup {Nobody}, left : 0..Ttl]

Unowned == [owner |-> Nobody, left |-> 0]

\* acquire_lease takes a free or an expired lease only.
Available(lease) == lease.left = 0

Acquired(w) == [owner |-> w, left |-> Ttl]

\* What renew_lease and a transaction that depends on the lease ask for: it is
\* still w's and its time has not run out, even if nobody took it since.
Holds(lease, w) == lease.owner = w /\ lease.left > 0

\* renew_lease gives a lease that is held its full time again.
Renewed(lease) == [lease EXCEPT !.left = Ttl]

\* Faulty: deletes rows without an owner.
ReleasedNever(lease, w) == IF lease.owner = Nobody THEN Unowned ELSE lease

\* release_lease deletes the row only while w owns it.
Released(lease, w) == IF lease.owner = w THEN Unowned ELSE lease

Orphaned(lease, w) == IF lease.owner = w THEN [lease EXCEPT !.owner = Nobody]
                                         ELSE lease

Aged(lease) == [lease EXCEPT !.left = IF @ = 0 THEN 0 ELSE @ - 1]
=============================================================================
