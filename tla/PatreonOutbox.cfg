\* One identity in each outbox, two tiers, a grace deadline and the brake.
CONSTANTS
  d1 = d1
  p1 = p1
  Discord = {d1}
  Player = {p1}
  MaxTier = 2
  MaxGrace = 1
  BrakeMin = 1
  FracNum = 1
  FracDen = 2
  Suppressing = {FALSE}
  MaxEdits = 3
SPECIFICATION Spec
INVARIANTS
  TypeOK
  OneLiveRow
  RemovesOnlyGranted
  NothingLost
  PendingIsCurrent
  HeldIsQuiet
PROPERTIES
  OneDmPerGeneration
  DispatchedImmutable
  NoHeldRemoval
  ShadowIsSilent
  ImplementsGrants
