\* Every tree that insertions and deletions of up to nine keys can build.
SPECIFICATION Spec
CONSTANTS
  MaxKey = 9
INVARIANTS
  WellFormed
  PickFree
PROPERTIES
  ScanMeetsEach
