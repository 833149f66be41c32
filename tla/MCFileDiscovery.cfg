SPECIFICATION Spec
CONSTANTS
  Unknown = Unknown
  Any = Any
  Absent = Absent
  NoArg = NoArg
  NoBirth = NoBirth
  MaxChanges = 2
  Paths <- MCPaths
  FormatOf <- MCFormatOf
  Disks <- MCDisks
  Entries <- MCEntries
  Requests <- MCRequests
INVARIANTS
  SteadyFilesExactly
  NoFileTwice
  PrunedByWhatIsShown
