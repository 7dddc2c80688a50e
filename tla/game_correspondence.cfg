\* A game played here without a time control, from a position with Black to
\* move.
SPECIFICATION Spec
CONSTANTS
  Session = {s1}
  Sip <- MCSip
  StartSip = "b1"
  Reach <- MCReach
  ToMove <- MCToMove
  Finality <- MCFinality
  Remainders <- MCNoRemainders
  External = FALSE
  Fischer = FALSE
  StartTime = 3
  Bonus = 2
  FilterPerRow = TRUE
  MaxTime = 2
  MaxPlies = 4
  MaxTimes = 8
  MaxOffers = 4
INVARIANTS TypeOK PlyStartsItsClock OffersAgree
PROPERTY ImplementsRecord
CHECK_DEADLOCK FALSE
