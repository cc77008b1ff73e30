SPECIFICATION Spec
CONSTANTS
  Names <- MCNames
  Filters <- MCFilters
INVARIANTS OneGlobLanguage
CHECK_DEADLOCK FALSE
