SPECIFICATION Spec
CONSTANTS
  Capacity = 3
  MaxStamp = 6
INVARIANT
  TypeOK
PROPERTY DeliveredForward
