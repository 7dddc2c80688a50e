\* Two requests at a time in a game played here with a time control.
SPECIFICATION Spec
CONSTANTS
  Session = {s1, s2}
  Sip <- LineSip
  StartSip = "w0"
  Reach <- LineReach
  ToMove <- LineToMove
  Finality <- LineFinality
  Remainders <- MCNoRemainders
  External = FALSE
  Fischer = TRUE
  StartTime = 1
  Bonus = 1
  FilterPerRow = TRUE
  MaxTime = 1
  MaxPlies = 3
  MaxTimes = 4
  MaxOffers = 3
SYMMETRY Interchangeable
INVARIANTS ClockPositive PlyStartsItsClock TakebackAtomic
CHECK_DEADLOCK FALSE
