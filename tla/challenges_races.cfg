\* Two requests at a time.
SPECIFICATION Spec
CONSTANTS
  Session = {s1, s2}
  User = {"ann", "bob"}
  Guest = {}
  Banned = {}
  Terms <- MCTerms
  Plain <- MCPlain
  Request <- RacingRequests
  MaxActive = 1
  MaxChallenges = 2
  MaxGames = 2
SYMMETRY Interchangeable
INVARIANTS TypeOK GameClosesItsChallenge NobodyPlaysThemself LimitOvershoot OneLeftBehind
PROPERTY ClosedToChallenges
