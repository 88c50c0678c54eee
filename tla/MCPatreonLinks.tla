--------------------------- MODULE MCPatreonLinks ---------------------------
(* Small instances of PatreonLinks for TLC.                                *)
EXTENDS PatreonLinks, TLC

CONSTANTS u1, u2, d1, d2, p1, p2

Symmetry == Permutations(Patrons) \cup Permutations(DiscordUsers)
              \cup Permutations(Players)
=============================================================================
