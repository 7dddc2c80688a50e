----------------------------- MODULE Challenges -----------------------------
(***************************************************************************)
(* The challenges of the server: how they are created, merged, accepted,   *)
(* declined and cancelled, by their users and by the shutdown.             *)
(*                                                                         *)
(* As in Game, a handler is one action that reads and decides in the       *)
(* snapshot of its session, then one action per commit.  Notifications     *)
(* are left out; their commits are kept where they commit something else.  *)
(***************************************************************************)
EXTENDS Integers, FiniteSets, Sequences

CONSTANTS
  Session,     \* the requests that can be in progress at the same time
  User,        \* the references of users
  Guest,       \* those of guests
  Banned,      \* those that may not play rated games
  Terms,       \* time controls with starting positions
  Plain,       \* the terms with the starting position left out
  Request,     \* the payloads of the two routes that create a challenge
  MaxActive,   \* limits.max_total_active_challenges
  MaxChallenges, MaxGames  \* bounds of the model

Kind == {"public", "link_only", "direct"}
AcceptorColor == {"white", "black", "random"}
Payload == [kind : Kind, callee : User \cup {"none"}, color : AcceptorColor,
            rated : BOOLEAN, terms : Terms]

ASSUME ChallengeAssumption ==
  /\ IsFiniteSet(Session) /\ Session # {}
  /\ Guest \subseteq User /\ Banned \subseteq User
  /\ Plain \in [Terms -> Terms]
  /\ Request \subseteq Payload
  /\ \A r \in Request : (r.callee = "none") = (r.kind # "direct")
  /\ "none" \notin User
  /\ MaxActive \in Nat /\ MaxChallenges \in Nat /\ MaxGames \in Nat

VARIABLES
  challenges,  \* Challenge rows, by id
  games,       \* the games created from challenges, by id
  shutdown,    \* MutableState.shutdown_activated
  announced,   \* history: the challenges the server said it has cancelled
  job          \* what each session is doing

vars == <<challenges, games, shutdown, announced, job>>

ChallengeRow == [caller : User, kind : Kind, callee : User \cup {"none"},
                 color : AcceptorColor, rated : BOOLEAN, terms : Terms,
                 active : BOOLEAN, game : Nat]
\* of is the challenge the game was created from; the code keeps only the
\* reference from the challenge to its (last) game
GameRow == [white : User, black : User, rated : BOOLEAN, terms : Terms, of : Nat]

Job == [stage : {"idle", "admitted", "create", "game", "close", "list", "cancelling"},
        new : SUBSET ChallengeRow,  \* the row to add
        id : Nat,                   \* the challenge to close
        client : User \cup {"none"},\* who accepts it
        todo : SUBSET Nat, done : SUBSET Nat]
NoJob == [stage |-> "idle", new |-> {}, id |-> 0, client |-> "none", todo |-> {}, done |-> {}]

Init ==
  /\ challenges = <<>>
  /\ games = <<>>
  /\ shutdown = FALSE
  /\ announced = {}
  /\ job = [s \in Session |-> NoJob]

----------------------------------------------------------------------------
(* Queries *)

\* get_total_active_challenges_by_caller
ActiveOf(caller) == {i \in DOMAIN challenges : challenges[i].active /\ challenges[i].caller = caller}

\* validate_bracket, then validate_special_conditions
Validated(caller, r) ==
  IF r.rated /\ caller \notin Guest \cup Banned
  THEN [r EXCEPT !.color = "random", !.terms = Plain[@]]
  ELSE [r EXCEPT !.rated = FALSE]

\* get_identical_challenge
Identical(caller, r) ==
  {i \in ActiveOf(caller) :
     LET c == challenges[i]
     IN  /\ c.color = r.color /\ c.rated = r.rated /\ c.terms = r.terms
         /\ r.kind = "direct" => c.kind = "direct" /\ c.callee = r.callee}

MergeableWithAnyOther(a, b) == a = "random" \/ b = "random"
MergeableWith(a, b) == a = "random" \/ b = "random" \/ a # b

\* get_mergeable_challenge
MergeableOfAnyone(caller, r) ==
  {i \in DOMAIN challenges :
     LET c == challenges[i]
     IN  /\ r.kind # "link_only"
         /\ c.active
         /\ MergeableWith(c.color, r.color)
         /\ c.rated = r.rated /\ c.terms = r.terms
         /\ c.kind = "public" \/ (c.kind = "direct" /\ c.callee = caller)
         /\ r.kind = "direct" => c.caller = r.callee}
Mergeable(caller, r) ==
  {i \in DOMAIN challenges :
     LET c == challenges[i]
     IN  /\ r.kind # "link_only"
         /\ c.active
         /\ MergeableWith(c.color, r.color)
         /\ c.caller # caller
         /\ c.rated = r.rated /\ c.terms = r.terms
         /\ c.kind = "public" \/ (c.kind = "direct" /\ c.callee = caller)
         /\ r.kind = "direct" => c.caller = r.callee}

NewRowWithoutCallee(caller, r) ==
  [caller |-> caller, kind |-> r.kind, callee |-> "none", color |-> r.color,
   rated |-> r.rated, terms |-> r.terms, active |-> TRUE, game |-> 0]
NewRow(caller, r) ==
  [caller |-> caller, kind |-> r.kind, callee |-> r.callee, color |-> r.color,
   rated |-> r.rated, terms |-> r.terms, active |-> TRUE, game |-> 0]

\* assign_player_colors, as <<white, black>>
Seats(color, caller, acceptor) ==
  CASE color = "white" -> {<<acceptor, caller>>}
    [] color = "black" -> {<<caller, acceptor>>}
    [] color = "random" -> {<<acceptor, caller>>, <<caller, acceptor>>}

----------------------------------------------------------------------------
(* Creation *)

Begin(s, j) == job' = [job EXCEPT ![s] = j] /\ UNCHANGED <<challenges, games, shutdown, announced>>

\* mutant: the flag is not looked at
AdmitAlways(s) ==
  /\ job[s].stage = "idle"
  /\ Len(challenges) < MaxChallenges /\ Len(games) < MaxGames
  /\ Begin(s, [NoJob EXCEPT !.stage = "admitted"])

\* perform_common_validations looks at the flag before it awaits its first query
Admit(s) ==
  /\ job[s].stage = "idle"
  /\ ~shutdown
  /\ Len(challenges) < MaxChallenges /\ Len(games) < MaxGames
  /\ Begin(s, [NoJob EXCEPT !.stage = "admitted"])

WithinLimitsOrOneMore(caller) == Cardinality(ActiveOf(caller)) <= MaxActive
\* "Too many active challenges"; the limit of challenges to one callee tests the same
WithinLimits(caller) == Cardinality(ActiveOf(caller)) < MaxActive

\* validate_direct_callee: a guest is refused, or fails the assertion of its login
ValidCallee(caller, r) == r.kind = "direct" => r.callee # caller /\ r.callee \notin Guest

\* The rest of the validations, then try_merging: the first of the mergeable
\* challenges by a creation time of one second's resolution.
ReadAndMerge(s, caller, payload) ==
  LET r == Validated(caller, payload)
  IN  /\ job[s].stage = "admitted"
      /\ WithinLimits(caller)
      /\ Identical(caller, r) = {}
      /\ ValidCallee(caller, r)
      /\ IF Mergeable(caller, r) = {}
         THEN Begin(s, [NoJob EXCEPT !.stage = "create", !.new = {NewRow(caller, r)}])
         ELSE \E i \in Mergeable(caller, r) :
                Begin(s, [NoJob EXCEPT !.stage = "game", !.id = i, !.client = caller])

CommitChallenge(s) ==
  /\ job[s].stage = "create"
  /\ \E row \in job[s].new : challenges' = Append(challenges, row)
  /\ job' = [job EXCEPT ![s] = NoJob]
  /\ UNCHANGED <<games, shutdown, announced>>

----------------------------------------------------------------------------
(* Acceptance, refusal and cancellation by a user *)

MayAcceptUncalled(client, i) == challenges[i].kind = "direct" => challenges[i].callee = client
\* a direct challenge by its callee, any other by anyone but its caller
MayAccept(client, i) ==
  IF challenges[i].kind = "direct" THEN challenges[i].callee = client ELSE challenges[i].caller # client

ReadAccept(s, client, i) ==
  /\ job[s].stage = "idle" /\ Len(games) < MaxGames
  /\ challenges[i].active
  /\ MayAccept(client, i)
  /\ Begin(s, [NoJob EXCEPT !.stage = "game", !.id = i, !.client = client])

\* create_internal_game: the game and the challenge it closes, in one commit
CommitGameLeavingChallenge(s) ==
  LET i == job[s].id
      c == challenges[i]
  IN  /\ job[s].stage = "game"
      /\ \E seats \in Seats(c.color, c.caller, job[s].client) :
           games' = Append(games, [white |-> seats[1], black |-> seats[2],
                                   rated |-> c.rated, terms |-> c.terms, of |-> i])
      /\ challenges' = [challenges EXCEPT ![i].game = Len(games) + 1]
      /\ job' = [job EXCEPT ![s] = NoJob]
      /\ UNCHANGED <<shutdown, announced>>
CommitGame(s) ==
  LET i == job[s].id
      c == challenges[i]
  IN  /\ job[s].stage = "game"
      /\ \E seats \in Seats(c.color, c.caller, job[s].client) :
           games' = Append(games, [white |-> seats[1], black |-> seats[2],
                                   rated |-> c.rated, terms |-> c.terms, of |-> i])
      /\ challenges' = [challenges EXCEPT ![i].active = FALSE, ![i].game = Len(games) + 1]
      /\ job' = [job EXCEPT ![s] = NoJob]
      /\ UNCHANGED <<shutdown, announced>>

\* cancel_challenge fails for a link-only challenge: the event it broadcasts
\* is assigned for the other kinds only
CancelFails(i) == challenges[i].kind = "link_only"

ReadCancel(s, client, i) ==
  /\ job[s].stage = "idle"
  /\ challenges[i].active
  /\ challenges[i].caller = client
  /\ ~CancelFails(i)
  /\ Begin(s, [NoJob EXCEPT !.stage = "close", !.id = i])

ReadDecline(s, client, i) ==
  /\ job[s].stage = "idle"
  /\ challenges[i].active
  /\ challenges[i].kind = "direct" /\ challenges[i].callee = client
  /\ Begin(s, [NoJob EXCEPT !.stage = "close", !.id = i])

CommitClose(s) ==
  /\ job[s].stage = "close"
  /\ challenges' = [challenges EXCEPT ![job[s].id].active = FALSE]
  /\ job' = [job EXCEPT ![s] = NoJob]
  /\ UNCHANGED <<games, shutdown, announced>>

----------------------------------------------------------------------------
(* Shutdown *)

ActivateShutdown(s) ==
  /\ job[s].stage = "idle"
  /\ ~shutdown
  /\ shutdown' = TRUE
  /\ job' = [job EXCEPT ![s] = [NoJob EXCEPT !.stage = "list"]]
  /\ UNCHANGED <<challenges, games, announced>>

ReadActive(s) ==
  /\ job[s].stage = "list"
  /\ Begin(s, [NoJob EXCEPT !.stage = "cancelling",
                 !.todo = {i \in DOMAIN challenges : challenges[i].active}])

CancelNextUncommitted(s) ==
  /\ job[s].stage = "cancelling"
  /\ \E i \in job[s].todo :
       job' = [job EXCEPT ![s] = IF CancelFails(i) THEN NoJob
                                 ELSE [job[s] EXCEPT !.id = i, !.todo = @ \ {i}, !.done = @ \cup {i}]]
  /\ UNCHANGED <<challenges, games, shutdown, announced>>
\* cancel_challenge for one of them.  It begins with the commit of the session
\* (that of its notifications), which commits the change to the one before.
CancelNext(s) ==
  /\ job[s].stage = "cancelling"
  /\ \E i \in job[s].todo :
       job' = [job EXCEPT ![s] = IF CancelFails(i) THEN NoJob
                                 ELSE [job[s] EXCEPT !.id = i, !.todo = @ \ {i}, !.done = @ \cup {i}]]
  /\ challenges' = [i \in DOMAIN challenges |->
                      IF i = job[s].id THEN [challenges[i] EXCEPT !.active = FALSE] ELSE challenges[i]]
  /\ UNCHANGED <<games, shutdown, announced>>

\* All of them are announced as cancelled; nothing commits the last change.
\* What follows, the end of the process, hangs on a coroutine and never comes.
EndCancelAll(s) ==
  /\ job[s].stage = "cancelling"
  /\ job[s].todo = {}
  /\ announced' = announced \cup job[s].done
  /\ job' = [job EXCEPT ![s] = NoJob]
  /\ UNCHANGED <<challenges, games, shutdown>>

----------------------------------------------------------------------------
\* A handler ends before its next commit, with an exception.
Abort(s) ==
  /\ job[s].stage # "idle"
  /\ Begin(s, NoJob)

\* The process is stopped and started again.
Restart ==
  /\ shutdown' = FALSE
  /\ job' = [s \in Session |-> NoJob]
  /\ UNCHANGED <<challenges, games, announced>>

Step(s) ==
  \/ Admit(s)
  \/ \E caller \in User, payload \in Request : ReadAndMerge(s, caller, payload)
  \/ CommitChallenge(s)
  \/ \E client \in User, i \in DOMAIN challenges : ReadAccept(s, client, i)
  \/ CommitGame(s)
  \/ \E client \in User, i \in DOMAIN challenges : ReadCancel(s, client, i)
  \/ \E client \in User, i \in DOMAIN challenges : ReadDecline(s, client, i)
  \/ CommitClose(s)
  \/ ActivateShutdown(s)
  \/ ReadActive(s)
  \/ CancelNext(s)
  \/ EndCancelAll(s)
  \/ Abort(s)

Next == Restart \/ \E s \in Session : Step(s)

Spec == Init /\ [][Next]_vars

----------------------------------------------------------------------------
(* Properties *)

\* Every row and every job has the shape the code gives it, and the direct
\* challenges, and only they, have a callee.
TypeOK ==
  /\ challenges \in Seq(ChallengeRow)
  /\ \A i \in DOMAIN challenges : (challenges[i].callee = "none") = (challenges[i].kind # "direct")
  /\ games \in Seq(GameRow)
  /\ shutdown \in BOOLEAN
  /\ announced \subseteq DOMAIN challenges
  /\ job \in [Session -> Job]

\* A game and the end of its challenge are one commit: a challenge that a game
\* was created from is inactive for good and leads to such a game, even when
\* two requests accept it (create_game).
GameClosesItsChallenge ==
  \A g \in DOMAIN games :
    LET i == games[g].of
    IN  /\ i \in DOMAIN challenges
        /\ ~challenges[i].active
        /\ challenges[i].game \in DOMAIN games
        /\ games[challenges[i].game].of = i

\* Nobody plays against themselves, neither by accepting a challenge nor by
\* creating one that is merged with another (accept_challenge, try_merging).
NobodyPlaysThemself == \A g \in DOMAIN games : games[g].white # games[g].black

\* The limit of active challenges is checked in one snapshot and the challenge
\* committed later: it can be exceeded by one for each further request in
\* progress and no more (validate_spam_limits).
LimitOvershoot ==
  \A u \in User : Cardinality(ActiveOf(u)) <= MaxActive + Cardinality(Session) - 1

\* Of the challenges the server has announced as cancelled at most one is still
\* active, whatever was accepted, refused or restarted meanwhile
\* (cancel_all_challenges).
OneLeftBehind ==
  \A i, j \in announced : challenges[i].active /\ challenges[j].active => i = j

\* A request that has passed the test of the shutdown flag may still post its
\* challenge after all the others were cancelled, but such requests run out: of
\* a server that is closed, the challenges and the requests that are creating
\* one never grow in number together (perform_common_validations, shutdown).
Creating == {s \in Session : job[s].stage \in {"admitted", "create"}}
ClosedToChallenges ==
  [][shutdown /\ shutdown' => Len(challenges') + Cardinality(Creating')
                               <= Len(challenges) + Cardinality(Creating)]_vars

\* Two challenges that suit each other: their callers can sit down to a game
\* that each of them asks for.
SuitEachOther(i, j) ==
  LET c == challenges[i]
      d == challenges[j]
  IN  /\ c.active /\ d.active
      /\ c.caller # d.caller
      /\ c.kind = "public" \/ (c.kind = "direct" /\ c.callee = d.caller)
      /\ d.kind = "public" \/ (d.kind = "direct" /\ d.callee = c.caller)
      /\ c.rated = d.rated /\ c.terms = d.terms
      /\ Seats(c.color, c.caller, d.caller) \cap Seats(d.color, d.caller, c.caller) # {}

\* One request at a time no two challenges that suit each other wait side by
\* side: the second would have been merged with the first (try_merging).
NothingLeftToMerge == \A i, j \in DOMAIN challenges : ~SuitEachOther(i, j)

(* What a description in the code says, and the code does not do *)

\* "The server will ALWAYS cancel ALL active challenges": a challenge that was
\* announced as cancelled by the server is not active.
AnnouncedAreClosed == \A i \in announced : ~challenges[i].active
=============================================================================
