SPECIFICATION FairSpec
CONSTANTS
  Jobs = {j1}
  Files <- MCFiles
  Source = "run.ld"
  Targets <- OverSource
  LdxOf <- OverSourceLdx
  Nobody = Nobody
  MayFail = FALSE
  MayCrash = FALSE
INVARIANT
  BeaconsOfFullInput
