SPECIFICATION MCSpec
CONSTANTS
  Workers = {w1, w2, w3}
  CPUs = 3
  VectorSize = 2
  Scans <- MCScans
  ItemCounts <- MCItemCounts
  Files = {1, 2}
  NoFile = NoFile
  NotBuilt = NotBuilt
  Built = Built
  RangeLists <- MCRangeLists
  Calls <- MCCalls
  Projections <- MCProjections
INVARIANTS
  SegmentsFit
  SegmentsDisjoint
  PlanIsTotal
  FilledAsDeclared
  TypeOK
  NoItemTwice
  CompleteIsTotal
  CounterBounded
  BuiltOnce
PROPERTIES
  DeliverySpec
  ClaimLoop
  ScanEnds
