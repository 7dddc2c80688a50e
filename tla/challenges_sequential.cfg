\* One request at a time.
SPECIFICATION Spec
CONSTANTS
  Session = {s1}
  User = {"ann", "bob"}
  Guest = {}
  Banned = {"bob"}
  Terms <- MCTerms
  Plain <- MCPlain
  Request <- MergingRequests
  MaxActive = 2
  MaxChallenges = 3
  MaxGames = 2
INVARIANT NothingLeftToMerge
PROPERTY ImplementsBoard
