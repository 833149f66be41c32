SPECIFICATION Spec
CONSTANTS
  a = a
  b = b
  c = c
  NoArg = NoArg
  MaxTime = 100
  VectorSize = 2
  Workers = {w1, w2}
  CPUs = 2
  ChannelNames = {a, b, c}
  Layouts <- MCLayouts
  Requests <- MCRequests
INVARIANTS
  OnlyWanted
  CardinalityHonest
PROPERTY
  DeliverySpec
