\* Two Patreon accounts, two Discord users and two players.
CONSTANTS
  u1 = u1
  u2 = u2
  d1 = d1
  d2 = d2
  p1 = p1
  p2 = p2
  None = None
  Patrons = {u1, u2}
  DiscordUsers = {d1, d2}
  Players = {p1, p2}
  Cooldown = 1
SPECIFICATION Spec
SYMMETRY Symmetry
INVARIANTS
  OneController
  NeverStuck
  ControlFollowsLinks
PROPERTIES
  SyncKeepsLinks
  MovesAreRare
