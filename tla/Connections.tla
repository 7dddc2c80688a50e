---------------------------- MODULE Connections -----------------------------
(***************************************************************************)
(* The WebSocket side of the server next to its sessions: the service loop *)
(* of a connection (net/core.py), the dispatch of a message                *)
(* (net/incoming.py), the subscribers (net/sub_storage.py) and the one     *)
(* event that is ever broadcast to them, the shutdown (other/routes.py).   *)
(*                                                                         *)
(* Code between two awaits is one step.  The commits that log a message    *)
(* and its answer are one step, which may raise.  What the socket does is  *)
(* external: sending to a client that is gone is lost or raises            *)
(* WebSocketDisconnect, and the socket is then marked as disconnected, so  *)
(* that sending or receiving afterwards raises RuntimeError.               *)
(***************************************************************************)
EXTENDS Sessions

CONSTANTS
  Conn,        \* the connections that are ever opened
  MaxMessages  \* bound: the messages of all clients

ASSUME ConnectionsAssumption == MaxMessages \in Nat

VARIABLES
  loop,         \* where the endpoint of a connection is
  up,           \* TRUE while the client's end is there
  marked,       \* TRUE once the socket is marked as disconnected
  inbox,        \* the message on its way from a client
  answer,       \* what the endpoint is about to send
  subscribers,  \* subscribers of the channel everyone listens to
  announcer,    \* where the shutdown request is
  pending,      \* sends of the broadcast that are not over
  heard,        \* who got the announcement
  unlogged,     \* whose announcement failed in the database
  sent          \* messages so far

connVars == <<loop, up, marked, inbox, answer, subscribers>>
broadcastVars == <<announcer, pending, heard, unlogged>>
vars == <<sessionVars, connVars, broadcastVars, sent>>

Loop == {"none", "receiving", "answering", "left", "failed"}
Serving == {"receiving", "answering"}
Announcer == {"idle", "cancelling", "sending", "raised", "done"}

\* An event carries a token; issued tells whether it stood for someone when it was
\* sent.  A flawed message is not a valid one, or carries no token.
Event(token) == [kind |-> "event", token |-> token, issued |-> token \in DOMAIN straight]
Other(kind) == [kind |-> kind]
NoMessage == Other("none")
OtherKind == {"ping", "flawed", "not_json"}
Message == [kind : {"event"}, token : Token, issued : BOOLEAN] \cup [kind : OtherKind]
Answer == {"none", "pong", "error", "authorization_error"}

-----------------------------------------------------------------------------
(* the clients *)

Connect(c) ==
  /\ loop[c] = "none"
  /\ loop' = [loop EXCEPT ![c] = "receiving"]
  /\ up' = [up EXCEPT ![c] = TRUE]
  /\ subscribers' = subscribers \cup {c}
  /\ UNCHANGED <<sessionVars, marked, inbox, answer, broadcastVars, sent>>

SendMessage(c) ==
  /\ up[c] /\ inbox[c] = NoMessage /\ sent < MaxMessages
  /\ \E m \in {Event(t) : t \in Token} \cup {Other(k) : k \in OtherKind} :
       inbox' = [inbox EXCEPT ![c] = m]
  /\ sent' = sent + 1
  /\ UNCHANGED <<sessionVars, loop, up, marked, answer, subscribers, broadcastVars>>

GoAway(c) ==
  /\ up[c] /\ up' = [up EXCEPT ![c] = FALSE]
  /\ UNCHANGED <<sessionVars, loop, marked, inbox, answer, subscribers, broadcastVars, sent>>

-----------------------------------------------------------------------------
(* the endpoint *)

\* an exception other than WebSocketDisconnect: the socket is closed, nobody is removed
Fail(c) ==
  /\ loop' = [loop EXCEPT ![c] = "failed"]
  /\ up' = [up EXCEPT ![c] = FALSE]
  /\ UNCHANGED <<marked, subscribers>>

\* mutant: the endpoint ends and nothing is removed
EndOnly(c) == loop' = [loop EXCEPT ![c] = "left"] /\ UNCHANGED subscribers

\* WebSocketDisconnect, wherever it is raised
FullyRemove(c) ==
  /\ loop' = [loop EXCEPT ![c] = "left"]
  /\ subscribers' = subscribers \ {c}

\* What the dispatcher answers.  The client of a token is set back to None before
\* the handler is called, and every handler asks for one.
AnswerTo(m) ==
  IF m.kind = "ping" THEN "pong"
  ELSE IF m.kind = "event" /\ m.token \notin DOMAIN straight THEN "authorization_error"
  ELSE "error"

Receive(c) ==
  /\ loop[c] = "receiving" /\ inbox[c] # NoMessage
  /\ inbox' = [inbox EXCEPT ![c] = NoMessage]
  /\ \/ inbox[c].kind = "not_json" /\ Fail(c) /\ UNCHANGED answer
     \/ /\ inbox[c].kind # "not_json"
        /\ answer' = [answer EXCEPT ![c] = AnswerTo(inbox[c])]
        /\ loop' = [loop EXCEPT ![c] = "answering"]
        /\ UNCHANGED <<up, marked, subscribers>>
  /\ UNCHANGED <<sessionVars, broadcastVars, sent>>

\* mutant: a departure is noticed only after a send has failed
NoticeMarked(c) ==
  /\ loop[c] = "receiving" /\ marked[c]
  /\ FullyRemove(c)
  /\ UNCHANGED <<sessionVars, up, marked, inbox, answer, broadcastVars, sent>>

\* a message that arrived before the client went is still received
NoticeDeparture(c) ==
  /\ loop[c] = "receiving" /\ ~up[c] /\ inbox[c] = NoMessage
  /\ FullyRemove(c)
  /\ UNCHANGED <<sessionVars, up, marked, inbox, answer, broadcastVars, sent>>

\* The answer, but for a pong, is logged first; then the endpoint goes back to
\* receive_json.
SendAnswer(c) ==
  /\ loop[c] = "answering"
  /\ answer' = [answer EXCEPT ![c] = "none"]
  /\ \/ answer[c] # "pong" /\ Fail(c)
     \/ marked[c] /\ Fail(c)
     \/ /\ ~marked[c]
        /\ loop' = [loop EXCEPT ![c] = "receiving"] /\ UNCHANGED <<up, marked, subscribers>>
     \/ /\ ~marked[c] /\ ~up[c] /\ marked' = [marked EXCEPT ![c] = TRUE]
        /\ FullyRemove(c) /\ UNCHANGED up
  /\ UNCHANGED <<sessionVars, inbox, broadcastVars, sent>>

Serve(c) == Receive(c) \/ NoticeDeparture(c) \/ SendAnswer(c)

-----------------------------------------------------------------------------
(* the shutdown *)

\* shutdown_activated is set before anything else, so that a second request returns
RequestShutdown ==
  /\ announcer = "idle" /\ announcer' = "cancelling"
  /\ UNCHANGED <<sessionVars, connVars, pending, heard, unlogged, sent>>

CancelAllChallengesFails ==
  /\ announcer = "cancelling" /\ announcer' = "raised"
  /\ UNCHANGED <<sessionVars, connVars, pending, heard, unlogged, sent>>

\* one coroutine for each subscriber there is now
Broadcast ==
  /\ announcer = "cancelling" /\ announcer' = "sending"
  /\ pending' = subscribers
  /\ UNCHANGED <<sessionVars, connVars, heard, unlogged, sent>>

\* gather raises with the first send that does; the other sends go on
Raise == announcer' = IF announcer = "sending" THEN "raised" ELSE announcer

\* mutant: a send that raises cancels the others
SendEventInGroup(c) ==
  /\ c \in pending
  /\ \/ up[c] /\ heard' = heard \cup {c} /\ pending' = pending \ {c} /\ UNCHANGED announcer
     \/ ~up[c] /\ pending' = {} /\ announcer' = "raised" /\ UNCHANGED heard
  /\ UNCHANGED <<sessionVars, connVars, unlogged, sent>>

SendEvent(c) ==
  /\ c \in pending /\ pending' = pending \ {c}
  /\ \/ unlogged' = unlogged \cup {c} /\ Raise /\ UNCHANGED <<heard, marked>>
     \/ marked[c] /\ Raise /\ UNCHANGED <<heard, marked, unlogged>>
     \/ up[c] /\ ~marked[c] /\ heard' = heard \cup {c} /\ UNCHANGED <<announcer, marked, unlogged>>
     \/ ~up[c] /\ ~marked[c] /\ UNCHANGED <<announcer, heard, marked, unlogged>>
     \/ ~up[c] /\ ~marked[c] /\ marked' = [marked EXCEPT ![c] = TRUE] /\ Raise
        /\ UNCHANGED <<heard, unlogged>>
  /\ UNCHANGED <<sessionVars, loop, up, inbox, answer, subscribers, sent>>

Announced ==
  /\ announcer = "sending" /\ pending = {} /\ announcer' = "done"
  /\ UNCHANGED <<sessionVars, connVars, pending, heard, unlogged, sent>>

Announce == CancelAllChallengesFails \/ Broadcast \/ Announced

-----------------------------------------------------------------------------

Init ==
  /\ SessionsInit
  /\ loop = [c \in Conn |-> "none"] /\ up = [c \in Conn |-> FALSE] /\ marked = [c \in Conn |-> FALSE]
  /\ inbox = [c \in Conn |-> NoMessage] /\ answer = [c \in Conn |-> "none"]
  /\ subscribers = {}
  /\ announcer = "idle" /\ pending = {} /\ heard = {} /\ unlogged = {}
  /\ sent = 0

Next ==
  \/ SessionsNext /\ UNCHANGED <<connVars, broadcastVars, sent>>
  \/ \E c \in Conn : Connect(c) \/ SendMessage(c) \/ GoAway(c) \/ Serve(c) \/ SendEvent(c)
  \/ RequestShutdown \/ Announce

(***************************************************************************)
(* The event loop runs every coroutine that can go on, and a commit or a   *)
(* send ends or raises, so the endpoint of a connection, the shutdown      *)
(* request and each of its sends go on.  Nothing is assumed of the clients *)
(* nor of the auth requests.                                               *)
(***************************************************************************)
Fairness ==
  /\ \A c \in Conn : WF_vars(Serve(c)) /\ WF_vars(SendEvent(c))
  /\ WF_vars(Announce)

Spec == Init /\ [][Next]_vars /\ Fairness

-----------------------------------------------------------------------------
TypeOK ==
  /\ SessionsTypeOK
  /\ loop \in [Conn -> Loop] /\ up \in [Conn -> BOOLEAN] /\ marked \in [Conn -> BOOLEAN]
  /\ inbox \in [Conn -> Message \cup {NoMessage}] /\ answer \in [Conn -> Answer]
  /\ subscribers \subseteq Conn
  /\ announcer \in Announcer /\ pending \subseteq Conn /\ heard \subseteq Conn /\ unlogged \subseteq Conn
  /\ sent \in 0 .. MaxMessages

(* The subscribers are the connections that are served and those whose     *)
(* endpoint failed: websocket_endpoint removes a connection only on        *)
(* WebSocketDisconnect.  No connection that is served is left out, whatever *)
(* a broadcast does to its socket meanwhile.                               *)
SubscribedWhileServed == subscribers = {c \in Conn : loop[c] \in Serving \cup {"failed"}}

(* A client who shows a token that stood for someone when it was sent is   *)
(* never told that the token is invalid: the dispatcher looks the token up *)
(* later, when requests of other users have gone on.                       *)
IssuedTokensAreAccepted ==
  \A c \in Conn : /\ inbox[c] # NoMessage /\ inbox[c].kind = "event" /\ inbox[c].issued
                  => inbox[c].token \in DOMAIN straight

(* SubscriberStorage.broadcast: no send of the announcement is dropped     *)
(* without a reason.  One is over when its client got the announcement or  *)
(* had gone, or its log row failed: never because another send raised, the *)
(* request ended, or its endpoint marked the socket of a client who stays. *)
NoSendIsLost ==
  [][\A c \in pending \ pending' : c \in heard' \/ c \in unlogged' \/ ~up[c]]_vars

(* Whoever goes is removed from the subscribers, unless the endpoint       *)
(* failed, although the departure may be noticed by an answer, by a        *)
(* broadcast or by neither.                                                *)
DepartedAreForgotten ==
  \A c \in Conn : (c \in subscribers /\ ~up[c]) ~> (c \notin subscribers \/ loop[c] = "failed")

(* SubscriberStorage.broadcast: the announcement reaches every subscriber  *)
(* who stays and whose log row is stored, also after the send to another   *)
(* one has raised and the request has ended with an error.                 *)
AnnouncementReachesAll ==
  \A c \in Conn : c \in pending ~> (c \in heard \/ ~up[c] \/ c \in unlogged)
=============================================================================
