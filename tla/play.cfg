\* Every ply of the positions of MCPlay.
SPECIFICATION Spec
CONSTANTS
  Start <- MCStart
  MaxPlys = 1
INVARIANTS TypeOK AcceptsTheRules TextIsThePosition OutcomeIsTheMovers ListsWhitePlys NotationNamesThePly
PROPERTIES FollowsTheRules NoPieceIsGained
CHECK_DEADLOCK FALSE
