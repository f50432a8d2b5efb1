CONSTANTS
  Requests <- MCRequests
  MaxTries = 9
SPECIFICATION Spec
INVARIANTS ValueConserved FeePaysForSize ChangeIsNoDust RequiredSpent
           ShortOnlyWhenShort ConfirmedFirst SearchAgrees
CHECK_DEADLOCK FALSE
