-------------------------- MODULE MCPatreonConsent --------------------------
(* Small instances of PatreonConsent for TLC.                              *)
EXTENDS PatreonConsent, TLC

CONSTANTS t1, t2, w1, w2

Symmetry == Permutations(Tokens) \cup Permutations(Workers)
=============================================================================
