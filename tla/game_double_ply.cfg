\* Two requests to ply at a time.
SPECIFICATION Spec
CONSTANTS
  Session = {s1, s2}
  Sip <- LineSip
  StartSip = "w0"
  Reach <- LineReach
  ToMove <- LineToMove
  Finality <- LineFinality
  Remainders <- MCNoRemainders
  External = FALSE
  Fischer = TRUE
  StartTime = 3
  Bonus = 2
  FilterPerRow = TRUE
  MaxTime = 2
  MaxPlies = 4
  MaxTimes = 8
  MaxOffers = 4
INVARIANT TurnsAlternate
CHECK_DEADLOCK FALSE
