\* Two auth requests for one login, two clients of which one sends a message, and a shutdown.
SPECIFICATION Spec
CONSTANTS
  Login = {l1}
  Password = {p1}
  Token = {t1, t2}
  Request = {r1, r2}
  Admin = {l1}
  MaxGuests = 1
  Conn = {c1, c2}
  MaxMessages = 1
INVARIANTS TypeOK MapsInverse OwnersAreKnown SubscribedWhileServed IssuedTokensAreAccepted
PROPERTIES IssuesOnce NoSendIsLost DepartedAreForgotten AnnouncementReachesAll
CHECK_DEADLOCK FALSE
