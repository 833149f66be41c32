SPECIFICATION Spec
CONSTANTS
  NoArg = NoArg
  NoRule = NoRule
  MaxTime = 100
  Second = 10
  MaxRate = 5
  VectorSize = 2
  Workers = {w1, w2}
  CPUs = 2
  Spellings <- MCSpellings
  Units = {"u"}
  FileLists <- MCFileLists
  Requests <- MCRequests
  Groups = {1, 2}
INVARIANTS
  OnlyWanted
  CardinalityExact
PROPERTY
  DeliverySpec
