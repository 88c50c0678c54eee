---------------------------- MODULE MCPatreonSync ---------------------------
(* Small instances of PatreonSync for TLC.                                 *)
EXTENDS PatreonSync, TLC

CONSTANTS w1, w2, m1
=============================================================================
