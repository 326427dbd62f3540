CONSTANTS
  MaxSnapshots = 2
  MaxContacts = 2
  FootCount = 1
  ConfirmTime = 1
  ReleaseTime = 1
  Rotors = {r1}
  FullGain = 2
  TargetGain = 2
  GainRise = 1
  MaxRaw = 1
  ThrustMin = 0
  ThrustMax = 3
  AntiWindup = TRUE
  FreezesLegs = TRUE
  MaxSampleGap = 2
  MaxAge = 9
  MinSamples = 2
  HalfTicks = 2
  MaxTickJump = 1
SPECIFICATION RuntimeSpec
INVARIANTS
  ConfirmedFallbackHolds
  LegsMatchRotors
  OldResidualIsHandled
PROPERTIES
  RotorSideEnds
