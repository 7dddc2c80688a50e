\* A game uploaded over REST, requests one at a time.
SPECIFICATION Spec
CONSTANTS
  Session = {s1}
  Sip <- MCSip
  StartSip = "w0"
  Reach <- MCReach
  ToMove <- MCToMove
  Finality <- MCFinality
  Remainders <- MCRemainders
  External = TRUE
  Fischer = TRUE
  StartTime = 3
  Bonus = 2
  FilterPerRow = TRUE
  MaxTime = 1
  MaxPlies = 3
  MaxTimes = 5
  MaxOffers = 4
INVARIANTS LegalLine PlyStartsItsClock
CHECK_DEADLOCK FALSE
