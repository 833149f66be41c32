SPECIFICATION Spec
CONSTANTS
  race = race
  street = street
  timed = timed
  short = short
  bad = bad
  Runs <- MCRuns
  Extension <- MCExtension
  Laps <- MCLaps
  Counted <- MCCounted
  Timed <- MCTimed
  Crossing <- MCCrossing
  Broken <- MCBroken
  Demo = race
  Channels = {"speed"}
  Slots = {1, 2}
  Impatient = {"load", "select", "compare", "inspect", "roles"}
  MaxStarted = 3
  None = None
CHECK_DEADLOCK FALSE
INVARIANTS
  SolidIsSelectedLap
  LapViewsAgree
  ReferenceAgrees
  InspectorAnswers
  ChosenIsShown
PROPERTY
  Settles
