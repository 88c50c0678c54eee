\* The bot reconciles with the roster, the plugin does not.
CONSTANTS
  d1 = d1
  p1 = p1
  Discord = {d1}
  Player = {p1}
  MaxTier = 2
  MaxGrace = 0
  BrakeMin = 1
  FracNum = 1
  FracDen = 2
  Suppressing = {FALSE}
  MaxEdits = 3
  Reconciled = {d1}
SPECIFICATION FairSpec
INVARIANTS
  RolesTracked
PROPERTIES
  RolesConverge
