-------------------------- MODULE MCPatreonDelivery ------------------------
(* Small instances of PatreonDelivery for TLC.                               *)
EXTENDS PatreonDelivery, TLC
CONSTANTS d1, p1
=============================================================================
