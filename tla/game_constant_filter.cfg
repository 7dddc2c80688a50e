\* The filter of cancelled plys is the Python constant False.
SPECIFICATION Spec
CONSTANTS
  Session = {s1}
  Sip <- MCSip
  StartSip = "w0"
  Reach <- MCReach
  ToMove <- MCToMove
  Finality <- MCFinality
  Remainders <- MCNoRemainders
  External = FALSE
  Fischer = TRUE
  StartTime = 3
  Bonus = 2
  FilterPerRow = FALSE
  MaxTime = 4
  MaxPlies = 4
  MaxTimes = 8
  MaxOffers = 4
INVARIANT TurnsAlternate
CHECK_DEADLOCK FALSE
