\* The documented promise that the brake lets additions through.
CONSTANTS
  d1 = d1
  p1 = p1
  Discord = {d1}
  Player = {}
  MaxTier = 2
  MaxGrace = 0
  BrakeMin = 1
  FracNum = 1
  FracDen = 4
  Suppressing = {FALSE}
  MaxEdits = 3
  Reconciled = {}
SPECIFICATION FairSpec
PROPERTIES
  AdditionsContinue
