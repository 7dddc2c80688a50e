\* One request at a time in a game played here with a time control.
SPECIFICATION Spec
CONSTANTS
  Session = {s1}
  Sip <- LineSip
  StartSip = "w0"
  Reach <- ForkReach
  ToMove <- LineToMove
  Finality <- ForkFinality
  Remainders <- MCNoRemainders
  External = FALSE
  Fischer = TRUE
  StartTime = 1
  Bonus = 1
  FilterPerRow = TRUE
  MaxTime = 1
  MaxPlies = 4
  MaxTimes = 6
  MaxOffers = 3
INVARIANTS LegalLine TicksForMover
PROPERTY ImplementsRecord
CHECK_DEADLOCK FALSE
