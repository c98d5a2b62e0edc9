CONSTANTS
  MaxLen = 7
SPECIFICATION ParseSpec
CHECK_DEADLOCK FALSE
INVARIANTS
  SplitsOutsideQuotes
  ReadsTheDirectives
