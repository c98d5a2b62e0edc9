CONSTANTS
  Request = {r1, r2}
  MaxVersion = 3
  Len = {1, 2, 3}
  Time = {t1, t2, t3}
  MaxEntry = 2
  SameTime = FALSE
  None = none
SPECIFICATION Spec
CHECK_DEADLOCK FALSE
INVARIANTS
  StoredCopyTrue
  EditedReadAgain
