SPECIFICATION FairSpec
CONSTANTS
  MaxDeliveries = 3
  MaxCrashes = 2
  MaxEvents = 3
INVARIANTS
  TypeOK
  NoSilentLoss
  EffectsInOrder
  BoundedDeliveries
PROPERTIES
  NoPoisonPill
  DeliversInOrder
CHECK_DEADLOCK FALSE
