-------------------------- MODULE MCPatreonOutbox --------------------------
(* Small instances of PatreonOutbox for TLC.                               *)
EXTENDS PatreonOutbox, TLC
CONSTANTS d1, p1
=============================================================================
