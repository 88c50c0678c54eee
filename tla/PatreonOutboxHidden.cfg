\* The documented promise that a suppressed DM stays hidden.
CONSTANTS
  d1 = d1
  p1 = p1
  Discord = {d1}
  Player = {}
  MaxTier = 2
  MaxGrace = 0
  BrakeMin = 1
  FracNum = 1
  FracDen = 4
  Suppressing = {FALSE, TRUE}
  MaxEdits = 4
SPECIFICATION Spec
PROPERTIES
  SuppressedStaysHidden
