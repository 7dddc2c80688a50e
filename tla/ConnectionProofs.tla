-------------------------- MODULE ConnectionProofs --------------------------
(***************************************************************************)
(* Proofs about Connections: next to the connections the sessions behave   *)
(* as Sessions says, so that what is proved of them alone holds of the     *)
(* whole; and the subscribers are the connections that are served, for any *)
(* numbers of connections, messages, users and tokens.                     *)
(***************************************************************************)
EXTENDS Connections, SessionProofs

Inv == TypeOK /\ SubscribedWhileServed /\ IssuedTokensAreAccepted

-----------------------------------------------------------------------------
(* Every step of Connections is a step of Sessions or leaves its variables alone. *)
LEMMA StepsOfSessions == [Next]_vars => [SessionsNext]_sessionVars
<1> SUFFICES ASSUME [Next]_vars PROVE [SessionsNext]_sessionVars
  OBVIOUS
<1>1. ASSUME NEW c \in Conn, Connect(c) \/ SendMessage(c) \/ GoAway(c) \/ Serve(c) \/ SendEvent(c)
      PROVE  UNCHANGED sessionVars
  BY <1>1 DEF Connect, SendMessage, GoAway, Serve, Receive, NoticeDeparture, SendAnswer, SendEvent,
       sessionVars
<1>2. ASSUME RequestShutdown \/ Announce PROVE UNCHANGED sessionVars
  BY <1>2 DEF RequestShutdown, Announce, CancelAllChallengesFails, Broadcast, Announced, sessionVars
<1>3. CASE UNCHANGED vars
  BY <1>3 DEF vars, sessionVars
<1> QED
  BY <1>1, <1>2, <1>3 DEF Next

(* The connections, the dispatcher and the broadcast leave the sessions to *)
(* auth/routes.py: the whole implements Sessions.                          *)
THEOREM ConnectionsImplementSessions == Spec => SessionsSpec
<1>1. Init => SessionsInit
  BY DEF Init
<1> QED
  BY <1>1, StepsOfSessions, PTL DEF Spec, SessionsSpec

(* BijectiveMap.add, with connections being served and a broadcast going on. *)
THEOREM ConnectionsMapsInverse == Spec => []MapsInverse
BY ConnectionsImplementSessions, MapsStayInverse, PTL

(* register and signin, with connections being served and a broadcast going on. *)
THEOREM ConnectionsOwnersAreKnown == Spec => []OwnersAreKnown
BY ConnectionsImplementSessions, OwnersStayKnown, PTL

(* add_guest and add_logged: the whole server issues tokens as TokenRegistry says. *)
THEOREM ConnectionsIssueOnce == Spec => IssuesOnce
BY ConnectionsImplementSessions, IssuesOnceCorrect, PTL

-----------------------------------------------------------------------------
LEMMA InitInv == Init => Inv
<1> SUFFICES ASSUME Init PROVE Inv
  OBVIOUS
<1>1. SessionsTypeOK
  BY SessionsInitInv DEF Init, SessionsInv
<1>2. TypeOK
  BY <1>1, ConnectionsAssumption
  DEF Init, TypeOK, Loop, Message, NoMessage, Other, Answer, Announcer
<1>3. SubscribedWhileServed
  BY DEF Init, SubscribedWhileServed, Serving
<1>4. IssuedTokensAreAccepted
  BY DEF Init, IssuedTokensAreAccepted
<1> QED
  BY <1>2, <1>3, <1>4 DEF Inv

(* Tokens are never taken back: whatever step is taken, an issued token stays one. *)
LEMMA TokensStay ==
  ASSUME SessionsInv, [Next]_vars
  PROVE  SessionsTypeOK' /\ DOMAIN straight \subseteq DOMAIN straight'
<1>1. [SessionsNext]_sessionVars
  BY StepsOfSessions
<1>2. SessionsTypeOK'
  BY <1>1, SessionsNextInv DEF SessionsInv
<1>3. DOMAIN straight \subseteq DOMAIN straight'
  <2>1. CASE SignInAsGuest
    BY <2>1 DEF SignInAsGuest, Add, Put
  <2>2. ASSUME NEW r \in Request, AddLogged(r) PROVE DOMAIN straight \subseteq DOMAIN straight'
    BY <2>2 DEF AddLogged, Add, Put
  <2> QED
    BY <1>1, <2>1, <2>2 DEF SessionsNext, ReadForSignIn, ReadForRegister, ReadForUpdate,
       CommitRegister, CommitUpdate, Abort, sessionVars
<1> QED
  BY <1>2, <1>3

(* The steps that leave the connections alone. *)
LEMMA ConnectionsAlone ==
  ASSUME Inv, SessionsInv, [Next]_vars,
         UNCHANGED <<loop, inbox, subscribers>>
  PROVE  SubscribedWhileServed' /\ IssuedTokensAreAccepted'
BY TokensStay DEF Inv, SubscribedWhileServed, IssuedTokensAreAccepted

(* What a client sends. *)
LEMMA MessagesSent ==
  ASSUME NEW m \in {Event(t) : t \in Token} \cup {Other(k) : k \in OtherKind}
  PROVE  m \in Message /\ (m.kind = "event" /\ m.issued => m.token \in DOMAIN straight)
<1>1. CASE m \in {Event(t) : t \in Token}
  <2>1. PICK t \in Token : m = Event(t)
    BY <1>1
  <2>2. m.kind = "event" /\ m.token = t
    BY <2>1 DEF Event
  <2>3. m.issued = (t \in DOMAIN straight)
    BY <2>1, Zenon DEF Event
  <2>4. m \in [kind : {"event"}, token : Token, issued : BOOLEAN]
    <3>1. PICK b \in BOOLEAN : b = (t \in DOMAIN straight)
      <4>1. CASE t \in DOMAIN straight
        <5>1. TRUE = (t \in DOMAIN straight)
          BY <4>1
        <5> QED
          BY <5>1, Zenon
      <4>2. CASE t \notin DOMAIN straight
        <5>1. FALSE = (t \in DOMAIN straight)
          BY <4>2
        <5> QED
          BY <5>1, Zenon
      <4> QED
        BY <4>1, <4>2
    <3>2. m = [kind |-> "event", token |-> t, issued |-> b]
      BY <2>1, <3>1, Zenon DEF Event
    <3> QED
      BY <3>2
  <2> QED
    BY <2>2, <2>3, <2>4 DEF Message
<1>2. CASE m \in {Other(k) : k \in OtherKind}
  <2>1. PICK k \in OtherKind : m = Other(k)
    BY <1>2
  <2>2. m.kind = k /\ k # "event"
    BY <2>1 DEF Other, OtherKind
  <2>3. m \in [kind : OtherKind]
    BY <2>1 DEF Other
  <2> QED
    BY <2>2, <2>3 DEF Message
<1> QED
  BY <1>1, <1>2

LEMMA NextInv == Inv /\ SessionsInv /\ [Next]_vars => Inv'
<1> SUFFICES ASSUME Inv, SessionsInv, [Next]_vars PROVE Inv'
  OBVIOUS
<1>0. SessionsTypeOK' /\ DOMAIN straight \subseteq DOMAIN straight'
  BY TokensStay
<1> USE DEF Loop, Answer, Announcer, Serving
<1>1. CASE SessionsNext /\ UNCHANGED <<connVars, broadcastVars, sent>>
  <2>1. TypeOK'
    BY <1>0, <1>1 DEF Inv, TypeOK, connVars, broadcastVars
  <2> QED
    BY <1>1, <2>1, ConnectionsAlone DEF Inv, connVars
<1>2. ASSUME NEW c \in Conn, Connect(c) PROVE Inv'
  <2>1. TypeOK'
    BY <1>0, <1>2 DEF Inv, TypeOK, Connect, broadcastVars
  <2>2. SubscribedWhileServed'
    BY <1>2 DEF Inv, TypeOK, Connect, SubscribedWhileServed
  <2>3. IssuedTokensAreAccepted'
    BY <1>0, <1>2 DEF Inv, Connect, IssuedTokensAreAccepted
  <2> QED
    BY <2>1, <2>2, <2>3 DEF Inv
<1>3. ASSUME NEW c \in Conn, SendMessage(c) PROVE Inv'
  <2>1. PICK m \in {Event(t) : t \in Token} \cup {Other(k) : k \in OtherKind} :
          inbox' = [inbox EXCEPT ![c] = m]
    BY <1>3 DEF SendMessage
  <2>2. m \in Message /\ (m.kind = "event" /\ m.issued => m.token \in DOMAIN straight)
    BY MessagesSent
  <2>3. TypeOK'
    BY <1>0, <1>3, <2>1, <2>2, ConnectionsAssumption DEF Inv, TypeOK, SendMessage, broadcastVars
  <2>4. SubscribedWhileServed'
    BY <1>3 DEF Inv, SendMessage, SubscribedWhileServed
  <2>6. IssuedTokensAreAccepted'
    BY <1>0, <2>1, <2>2 DEF Inv, TypeOK, IssuedTokensAreAccepted
  <2> QED
    BY <2>3, <2>4, <2>6 DEF Inv
<1>4. ASSUME NEW c \in Conn, GoAway(c) PROVE Inv'
  <2>1. TypeOK'
    BY <1>0, <1>4 DEF Inv, TypeOK, GoAway, broadcastVars
  <2> QED
    BY <1>4, <2>1, ConnectionsAlone DEF Inv, GoAway
<1>5. ASSUME NEW c \in Conn, Receive(c) PROVE Inv'
  <2>1. inbox'[c] = NoMessage /\ \A d \in Conn \ {c} : inbox'[d] = inbox[d]
    BY <1>5 DEF Inv, TypeOK, Receive
  <2>2. TypeOK'
    BY <1>0, <1>5 DEF Inv, TypeOK, Receive, Fail, AnswerTo, broadcastVars
  <2>3. SubscribedWhileServed'
    BY <1>5 DEF Inv, TypeOK, Receive, Fail, SubscribedWhileServed
  <2>4. IssuedTokensAreAccepted'
    BY <1>0, <1>5, <2>1 DEF Inv, IssuedTokensAreAccepted
  <2> QED
    BY <2>2, <2>3, <2>4 DEF Inv
<1>6. ASSUME NEW c \in Conn, NoticeDeparture(c) PROVE Inv'
  <2>1. TypeOK'
    BY <1>0, <1>6 DEF Inv, TypeOK, NoticeDeparture, FullyRemove, broadcastVars
  <2>2. SubscribedWhileServed'
    BY <1>6 DEF Inv, TypeOK, NoticeDeparture, FullyRemove, SubscribedWhileServed
  <2>3. IssuedTokensAreAccepted'
    BY <1>0, <1>6 DEF Inv, NoticeDeparture, IssuedTokensAreAccepted
  <2> QED
    BY <2>1, <2>2, <2>3 DEF Inv
<1>7. ASSUME NEW c \in Conn, SendAnswer(c) PROVE Inv'
  <2>1. TypeOK'
    BY <1>0, <1>7 DEF Inv, TypeOK, SendAnswer, Fail, FullyRemove, broadcastVars
  <2>2. SubscribedWhileServed'
    BY <1>7 DEF Inv, TypeOK, SendAnswer, Fail, FullyRemove, SubscribedWhileServed
  <2>3. IssuedTokensAreAccepted'
    BY <1>0, <1>7 DEF Inv, SendAnswer, IssuedTokensAreAccepted
  <2> QED
    BY <2>1, <2>2, <2>3 DEF Inv
<1>8. ASSUME NEW c \in Conn, SendEvent(c) PROVE Inv'
  <2>1. TypeOK'
    BY <1>0, <1>8 DEF Inv, TypeOK, SendEvent, Raise
  <2> QED
    BY <1>8, <2>1, ConnectionsAlone DEF Inv, SendEvent
<1>9. CASE RequestShutdown \/ Announce
  <2>1. TypeOK'
    BY <1>0, <1>9 DEF Inv, TypeOK, RequestShutdown, Announce, CancelAllChallengesFails, Broadcast,
       Announced, connVars
  <2> QED
    BY <1>9, <2>1, ConnectionsAlone
    DEF Inv, RequestShutdown, Announce, CancelAllChallengesFails, Broadcast, Announced, connVars
<1>10. CASE UNCHANGED vars
  <2>1. TypeOK'
    BY <1>0, <1>10 DEF Inv, TypeOK, vars, connVars, broadcastVars
  <2> QED
    BY <1>10, <2>1, ConnectionsAlone DEF Inv, vars, connVars
<1> QED
  BY <1>1, <1>2, <1>3, <1>4, <1>5, <1>6, <1>7, <1>8, <1>9, <1>10 DEF Next, Serve

LEMMA SpecInv == Spec => []Inv
<1>1. Spec => []SessionsInv
  BY ConnectionsImplementSessions, SessionsSpecInv, PTL
<1> QED
  BY <1>1, InitInv, NextInv, PTL DEF Spec

(* Connections keeps its variables in their types. *)
THEOREM ConnectionsTypeCorrect == Spec => []TypeOK
<1>1. Inv => TypeOK
  BY DEF Inv
<1> QED
  BY <1>1, SpecInv, PTL

(* websocket_endpoint: the subscribers are the connections that are served *)
(* and those whose endpoint has failed.                                    *)
THEOREM SubscribersAreServed == Spec => []SubscribedWhileServed
<1>1. Inv => SubscribedWhileServed
  BY DEF Inv
<1> QED
  BY <1>1, SpecInv, PTL

(* WebSocketHandlerCollection.handle: a token that stood for someone when  *)
(* it was sent still does when it is looked up.                            *)
THEOREM TokensStayAccepted == Spec => []IssuedTokensAreAccepted
<1>1. Inv => IssuedTokensAreAccepted
  BY DEF Inv
<1> QED
  BY <1>1, SpecInv, PTL

-----------------------------------------------------------------------------
(* What liveness rests on.  The provers know nothing of ENABLED; what can  *)
(* be proved is that no step undoes the progress of another one.           *)

\* A marked socket is that of a client who connected and went, and nobody comes back as
\* the same connection; before the broadcast begins nothing is being sent.
MarkedAreGone ==
  /\ announcer \in {"idle", "cancelling"} => pending = {}
  /\ \A c \in Conn : /\ marked[c] => ~up[c] /\ loop[c] # "none"
                     /\ c \in pending => loop[c] # "none"

LEMMA MarkedInit == Init => MarkedAreGone
BY DEF Init, MarkedAreGone

LEMMA MarkedNext == Inv /\ MarkedAreGone /\ [Next]_vars => MarkedAreGone'
<1> SUFFICES ASSUME Inv, MarkedAreGone, [Next]_vars PROVE MarkedAreGone'
  OBVIOUS
<1> USE DEF Inv, TypeOK, MarkedAreGone, Serving
<1>1. CASE SessionsNext /\ UNCHANGED <<connVars, broadcastVars, sent>>
  BY <1>1 DEF connVars, broadcastVars
<1>2. ASSUME NEW c \in Conn, Connect(c) PROVE MarkedAreGone'
  BY <1>2 DEF Connect, broadcastVars
<1>3. ASSUME NEW c \in Conn, SendMessage(c) PROVE MarkedAreGone'
  BY <1>3 DEF SendMessage, broadcastVars
<1>4. ASSUME NEW c \in Conn, GoAway(c) PROVE MarkedAreGone'
  BY <1>4 DEF GoAway, broadcastVars
<1>5. ASSUME NEW c \in Conn, Receive(c) PROVE MarkedAreGone'
  BY <1>5 DEF Receive, Fail, broadcastVars
<1>6. ASSUME NEW c \in Conn, NoticeDeparture(c) PROVE MarkedAreGone'
  BY <1>6 DEF NoticeDeparture, FullyRemove, broadcastVars
<1>7. ASSUME NEW c \in Conn, SendAnswer(c) PROVE MarkedAreGone'
  BY <1>7 DEF SendAnswer, Fail, FullyRemove, broadcastVars
<1>8. ASSUME NEW c \in Conn, SendEvent(c) PROVE MarkedAreGone'
  BY <1>8 DEF SendEvent, Raise
<1>9. CASE RequestShutdown \/ Announce
  BY <1>9 DEF RequestShutdown, Announce, CancelAllChallengesFails, Broadcast, Announced, connVars,
       SubscribedWhileServed
<1>10. CASE UNCHANGED vars
  BY <1>10 DEF vars, connVars, broadcastVars
<1> QED
  BY <1>1, <1>2, <1>3, <1>4, <1>5, <1>6, <1>7, <1>8, <1>9, <1>10 DEF Next, Serve

LEMMA SpecMarked == Spec => []MarkedAreGone
BY MarkedInit, MarkedNext, SpecInv, PTL DEF Spec

\* Only SendEvent ends a send, and only its own.
LEMMA SendsEndAlone ==
  ASSUME Inv, MarkedAreGone, [Next]_vars, NEW c \in pending, c \notin pending'
  PROVE  c \in Conn /\ SendEvent(c)
<1>0. c \in Conn
  BY DEF Inv, TypeOK
<1>1. ASSUME NEW d \in Conn, Connect(d) \/ SendMessage(d) \/ GoAway(d) \/ Serve(d) PROVE FALSE
  BY <1>1 DEF Connect, SendMessage, GoAway, Serve, Receive, NoticeDeparture, SendAnswer, broadcastVars
<1>2. ASSUME NEW d \in Conn, SendEvent(d) PROVE d = c
  BY <1>2 DEF SendEvent
<1>3. ~(RequestShutdown \/ Announce)
  BY DEF RequestShutdown, Announce, CancelAllChallengesFails, Broadcast, Announced, MarkedAreGone
<1>4. ~(UNCHANGED broadcastVars)
  BY DEF broadcastVars
<1> QED
  BY <1>0, <1>1, <1>2, <1>3, <1>4 DEF Next, vars

(* SubscriberStorage.broadcast: a send of the announcement is over only    *)
(* when its client got it or had gone, or its log row failed, whatever the *)
(* other sends, the request and the endpoints do meanwhile.                *)
THEOREM SendsAreNeverLost == Spec => NoSendIsLost
<1> DEFINE Reason(c) == c \in heard' \/ c \in unlogged' \/ ~up[c]
<1>1. Inv /\ MarkedAreGone /\ [Next]_vars => [\A c \in pending \ pending' : Reason(c)]_vars
  <2> SUFFICES ASSUME Inv, MarkedAreGone, [Next]_vars, NEW c \in pending, c \notin pending'
               PROVE  Reason(c)
    OBVIOUS
  <2>1. c \in Conn /\ SendEvent(c)
    BY SendsEndAlone
  <2> QED
    BY <2>1 DEF SendEvent, MarkedAreGone
<1> QED
  BY <1>1, SpecInv, SpecMarked, PTL DEF Spec, NoSendIsLost

\* How many steps of its endpoint a departed connection is from its end, at most.
StepsToGo(c) ==
  IF loop[c] = "answering" THEN IF inbox[c] = NoMessage THEN 2 ELSE 4
  ELSE IF inbox[c] = NoMessage THEN 1 ELSE 3

Departed(c) == loop[c] \in Serving /\ ~up[c]

(* websocket_endpoint: a client who has gone is on a one-way street of at  *)
(* most four steps of its endpoint.  No step of anyone brings it back or   *)
(* makes that way longer, each step of the endpoint makes it shorter, and  *)
(* at its end the connection is removed or the endpoint has failed.        *)
DeparturesComeCloser ==
  [][\A c \in Conn : Departed(c) =>
       \/ Departed(c)' /\ StepsToGo(c)' < StepsToGo(c)
       \/ Departed(c)' /\ ~Serve(c) /\ StepsToGo(c)' = StepsToGo(c)
       \/ c \notin subscribers' \/ loop'[c] = "failed"]_vars

LEMMA DeparturesStep ==
  ASSUME Inv, Next, NEW c \in Conn, Departed(c)
  PROVE  \/ Departed(c)' /\ StepsToGo(c)' < StepsToGo(c)
         \/ Departed(c)' /\ ~Serve(c) /\ StepsToGo(c)' = StepsToGo(c)
         \/ c \notin subscribers' \/ loop'[c] = "failed"
<1> USE DEF Departed, Serving
<1>1. CASE Receive(c)
  BY <1>1 DEF Inv, TypeOK, Receive, StepsToGo, Fail
<1>2. CASE NoticeDeparture(c)
  BY <1>2 DEF NoticeDeparture, FullyRemove
<1>3. CASE SendAnswer(c)
  BY <1>3 DEF Inv, TypeOK, SendAnswer, StepsToGo, Fail, FullyRemove
<1>4. CASE ~Serve(c)
  <2> SUFFICES UNCHANGED <<loop[c], up[c], inbox[c]>>
    BY <1>4 DEF StepsToGo
  <2>1. CASE UNCHANGED connVars
    BY <2>1 DEF connVars
  <2>2. ASSUME NEW d \in Conn, SendEvent(d) PROVE UNCHANGED <<loop[c], up[c], inbox[c]>>
    BY <2>2 DEF SendEvent
  <2>3. ASSUME NEW d \in Conn, Connect(d) PROVE UNCHANGED <<loop[c], up[c], inbox[c]>>
    BY <2>3 DEF Inv, TypeOK, Connect
  <2>4. ASSUME NEW d \in Conn, SendMessage(d) PROVE UNCHANGED <<loop[c], up[c], inbox[c]>>
    BY <2>4 DEF Inv, TypeOK, SendMessage
  <2>5. ASSUME NEW d \in Conn, GoAway(d) PROVE UNCHANGED <<loop[c], up[c], inbox[c]>>
    BY <2>5 DEF Inv, TypeOK, GoAway
  <2>6. ASSUME NEW d \in Conn, Serve(d) PROVE UNCHANGED <<loop[c], up[c], inbox[c]>>
    BY <1>4, <2>6
    DEF Inv, TypeOK, Serve, Receive, NoticeDeparture, SendAnswer, Fail, FullyRemove
  <2> QED
    BY <2>1, <2>2, <2>3, <2>4, <2>5, <2>6
    DEF Next, RequestShutdown, Announce, CancelAllChallengesFails, Broadcast, Announced
<1> QED
  BY <1>1, <1>2, <1>3, <1>4 DEF Serve

(* The way of a departed connection to its end never gets longer.          *)
THEOREM DeparturesAreFinal == Spec => DeparturesComeCloser
<1> DEFINE Closer(c) ==
      \/ Departed(c)' /\ StepsToGo(c)' < StepsToGo(c)
      \/ Departed(c)' /\ ~Serve(c) /\ StepsToGo(c)' = StepsToGo(c)
      \/ c \notin subscribers' \/ loop'[c] = "failed"
<1>1. Inv /\ [Next]_vars => [\A c \in Conn : Departed(c) => Closer(c)]_vars
  BY DeparturesStep
<1> QED
  BY <1>1, SpecInv, PTL DEF Spec, DeparturesComeCloser
=============================================================================
