\* The shutdown of a server with open challenges.
SPECIFICATION Spec
CONSTANTS
  Session = {s1}
  User = {"ann", "bob"}
  Guest = {}
  Banned = {}
  Terms <- MCTerms
  Plain <- MCPlain
  Request <- OpenRequests
  MaxActive = 2
  MaxChallenges = 3
  MaxGames = 2
INVARIANT AnnouncedAreClosed
