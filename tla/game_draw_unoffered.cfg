\* A draw is accepted that was not offered.
SPECIFICATION Spec
CONSTANTS
  Session = {s1}
  Sip <- LineSip
  StartSip = "w0"
  Reach <- LineReach
  ToMove <- LineToMove
  Finality <- LineFinality
  Remainders <- MCNoRemainders
  External = FALSE
  Fischer = TRUE
  StartTime = 3
  Bonus = 2
  FilterPerRow = TRUE
  MaxTime = 6
  MaxPlies = 4
  MaxTimes = 8
  MaxOffers = 4
INVARIANT DrawWasOffered
CHECK_DEADLOCK FALSE
