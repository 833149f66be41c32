SPECIFICATION Spec
CONSTANTS
  race = race
  street = street
  timed = timed
  short = short
  bad = bad
  Runs <- Pair
  Extension <- PairExtension
  Laps <- PairLaps
  Counted <- PairCounted
  Timed <- NoRuns
  Crossing <- MCCrossing
  Broken <- NoRuns
  Demo = race
  Channels = {"speed"}
  Slots = {1, 2}
  Impatient = {"load", "select", "compare", "inspect", "roles"}
  MaxStarted = 1
  None = None
CHECK_DEADLOCK FALSE
PROPERTY
  ChosenStays
