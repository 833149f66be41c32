SPECIFICATION MCSpec
CONSTANTS
  Jobs = {j1, j2}
  Files <- MCFiles
  Source = "run.ld"
  Targets <- MCTargets
  LdxOf <- MCLdxOf
  Nobody = Nobody
  MayFail = TRUE
  MayCrash = TRUE
  NoUnit = NoUnit
  Lower <- MCLower
  Registry <- MCRegistry
  Sources <- MCSources
  Mappings <- MCMappings
  SumLists <- MCSumLists
  Exclusions <- MCExclusions
INVARIANTS
  HeadersTellTheTruth
  TargetsDistinct
  AsDeclared
  SumsShareClock
  ReportedOnce
  ReceiptHolds
  SidecarComesLast
  ExportsTheRecording
PROPERTY
  ExportEnds
