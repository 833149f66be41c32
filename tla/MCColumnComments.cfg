SPECIFICATION CommentsSpec
CONSTANTS
  NoRule = NoRule
  Malformed = Malformed
  Words <- MCWords
  MapFiles <- MCMapFiles
  FileLists <- MCFileLists
  Filters <- MCFilters
  Texts <- MCTexts
INVARIANTS
  EveryColumnCommented
  CommentsAgreeWithTags
  EveryRuleKept
  RecoveredMapReproduces
