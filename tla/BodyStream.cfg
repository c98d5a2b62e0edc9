CONSTANTS
  MaxBytes = 4
  Lengths = {0, 2, 3, 4}
  NoLength = none
  Limit = 3
  Idle = 2
SPECIFICATION Spec
INVARIANTS
  StoredWhole
  SettledWhenWhole
PROPERTIES
  ImplementsTransfer
  IdleIsTheOrigins
  BodySettles
