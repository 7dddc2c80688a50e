# Specifications of IntellectorServerV2

TLA+ models of the game server of Intellector (a chess-like game on hexagons),
checked with TLC and, where the properties matter most, proved with TLAPS. The
server is a FastAPI application with REST routes (`routes.py` of each package)
and a WebSocket protocol (`net/incoming.py`, `game/ws/`), a MySQL database behind
SQLModel, and a little state in memory (`net/core.py`, `MutableState`). Paths
below are relative to `src/src/`.

## 1. The system

| Component | State | Operations | Promises |
|---|---|---|---|
| Game play: `game/endpoint_sinks.py`, `game/ws/`, `game/methods/` | tables of plys, time updates, offers, rollbacks (and outcome, which nothing writes) | ply, draw and takeback offers, added time, resignation | a legal game, the right clock running, offers and takebacks that are all or nothing |
| External games: `game/routes/external.py` | the same tables | upload of plys with or without declared reserves, rollback, added time, end | the same, without the players' rules |
| Challenges: `challenge/` | table of challenges | create (and merge), accept, decline, cancel, cancel all | each challenge is closed once, nobody plays themselves, limits |
| Game creation: `game/methods/create.py` | first rows of a game, the challenge's end | called by acceptance, merge and upload | game and challenge change together |
| Shutdown: `other/routes.py` | a flag in memory | closes the server to challenges, cancels them all, ends the process | "The server will ALWAYS cancel ALL active challenges" |
| Connections and dispatch: `net/core.py`, `net/incoming.py`, `net/sub_storage.py` | sockets, subscribers | receive, look up the token, dispatch, answer, broadcast | events reach the subscribers of a channel, gone connections are forgotten |
| Public subscriptions: `pubsub/` | none of their own | channels and payloads; `ws_handlers.py` is empty | |
| Sessions and tokens: `auth/`, `utils/bijective_map.py` | tokens in memory, passwords, last guest id | guest, sign in, register, change a password | one token per user, a token stands for one known user for good |
| Rules: `rules/` | none; a game keeps its position as text (SIP) | validate and perform a ply, list plys, final positions, write and read texts and notation | what is accepted is what the rules allow, the text is the position, the right player wins |
| Players, studies, notifications, log, configuration, drawer | single rows, calls to messengers, files | | |

They interact through the database and through `MutableState`. A handler is a
coroutine with one database session of its own; everything between two of its
`await`s runs alone, and everything else may interleave. A session reads, from
its first SELECT to its commit, one snapshot (MySQL's REPEATABLE READ), and no row
is locked and no version compared. An exception ends a handler and whatever it
has not committed is gone; so is `MutableState` at a restart.

What is hard here, and what the properties are for (each hazard is in
`PROJECT.json` at its line):

* a decision that is made on a snapshot and committed later: turns, offers,
  challenges and limits are all checked this way;
* handlers of several commits: a ply cancels the offers first, then reads the
  clock, then records itself; the cancellation of all challenges commits each one
  with the next;
* datetime columns of one second: rows with the same stamp come in any order;
* custom starts that are hardly looked at: a text may name hexes that are not on the board;
* arithmetic of ply indices under takebacks and rollbacks, when rows stay in the
  table and are only marked as cancelled;
* the unfinished move from blocking to `async` calls: coroutines that are not
  awaited are true, and decide;
* sockets that two coroutines use: the endpoint of a connection and a broadcast, either
  of which may be the one to find out that the client is gone;
* hexes in columns of two parities, seen by two colours, with halves that are floored:
  three codings of the same movements (validators, generator, notation).

## 2. Modules

| Module | Content |
|---|---|
| `Game` | one game: its tables, every request of players and uploaders, split at its commits |
| `GameRecord` | the abstract record: a line of play, the active offers, and six kinds of change |
| `GameImplementsRecord` | the refinement mapping from the tables to the record |
| `MCGame` | small instances |
| `Challenges` | challenges, the games made from them, the shutdown |
| `ChallengeBoard` | the abstract board: a challenge is posted, and closed or played once |
| `ChallengesImplementBoard` | the refinement mapping from the tables to the board |
| `MCChallenges` | small instances |
| `Coords` | colours, hexes, their numbers, directions and steps |
| `Rules` | pieces, positions, the validators, performing a ply, final positions |
| `Notation` | the generator of plys, and the notation of a ply |
| `Sip` | the text of a position in both versions, written and read |
| `MovementRules` | the abstract game: what the table of movement rules says of a ply |
| `Play` | a game from text to text, as `append_ply_sink` plays it |
| `PlayFollowsRules` | its properties, and the mapping to the abstract game |
| `MCPlay` | the starting positions, and texts that no writer wrote |
| `TokenRegistry` | the abstract registry: a token is issued once, a user gets at most one |
| `Sessions` | tokens, passwords and guests: the auth requests split at their awaits |
| `Connections` | `Sessions` next to the connections, the dispatcher and the announcement of the shutdown |
| `GameProofs` | proofs about `Game`: types, what the steps do to the plys |
| `GameClockProofs` | about its time rows: each ply has its own, reserves stay positive |
| `GameOfferProofs` | about its offers: takebacks are atomic, the two ways to tell an active offer agree |
| `GameTurnProofs` | about one request at a time: the line of play, the clock, the record |
| `ChallengeProofs`, `RulesProofs`, `SessionProofs`, `ConnectionProofs` | about the other components |

Who implements what: `Game` the record (`GameImplementsRecord`), `Challenges` the board
(`ChallengesImplementBoard`), `Play` the movement rules (`PlayFollowsRules`), `Sessions` the registry,
and `Connections`, which composes the sessions with the sockets, implements `Sessions`.

### How handlers become actions

A handler is one action that reads and decides (`Read...`, or the name of the
handler's function), then one action per commit (`Commit...`, `Record...`). In
between, `job[s]` of its session holds what the handler's locals hold. A request
that is refused without a write changes nothing and is a guard that is not met.
`Abort` ends a handler before its next commit; a stop of the process after the last
commit of a handler leaves nothing to do that the tables could show, and a stop
before it is the same as `Abort` of every session (and in `Challenges` the
action `Restart`, which also clears the flag).

What Python decides is modelled as Python decides it: a coroutine that is not
awaited is true, a variable that was not assigned raises, `a - b % 2` is
`a - (b % 2)`, a change that no commit follows is lost. What SQLAlchemy, pydantic,
FastAPI and MySQL decide is external, and is modelled from how the code uses
them: a column read from a row object gives the row's value, also after a commit;
an object that was copied with `model_copy` and added is a new row; a condition
in a query means the predicate it is written for (such as
`Challenge.acceptor_color.mergeable_with(...)` in `challenge/methods/get.py:67`).
One condition has two readings, `not GamePlyEvent.is_cancelled`: for each
row, as it is meant, or once, in Python, as the constant `False`. `FilterPerRow` selects one. All
runs but one take the first, since with the second no game gets past its first ply and nothing
else could be asked of it; the run `game_constant_filter` takes the second and shows that.

### Game

| State | In the code |
|---|---|
| `plies`, `times`, `offers`, `rollbacks` | `GamePlyEvent`, `GameTimeUpdate`, `GameOfferEvent`, `GameRollbackEvent` |
| `outcome` | `GameOutcome`; no line of the code writes it |
| `ended` | not stored; the last call of `end_game`, so that it can be spoken of |
| `now` | the clock, in units of the datetime columns |
| `job` | the locals of the handlers in progress |

`ReadPly`, `CancelAllActiveOffers`, `ReadClock`, `RecordPly` (or `TimeoutReached`)
are `append_ply_sink` of a player; `ReadExternalPly` and `RecordExternalPly` the
same for an uploader. `CreateTakeback`, `CreateDraw`, `AnswerOffer`, `VoidTakeback`
and `CommitOffer` are the handlers of `game/ws/offer.py`; `AcceptTakeback`,
`ReadRollback` and `CommitRollback` are `perform_rollback` for players and
uploaders. `ReadTime`, `CommitTime`, `Resign` and `EndExternal` are the rest. The
positions are a graph given by constants (`Reach`, `ToMove`, `Finality`); `Play` computes
what the graph stands for, one request at a time. A finality of `INVALID` is treated as
none. The handlers take the client as given; the dispatcher, which forgets it
(`net/incoming.py:121`), is in `Connections`.
The several readings of the clock in one request are one, and times are exact.

A stamp is the value of `now` when its row is made, and any number of requests fall in one unit, so
that stamps may be equal. `LatestActions` are those of the rows of an offer with the greatest stamp, and
`is_offer_active` may go by any of them. An offer that is created and cancelled within a second may thus
be taken as active by its latest row and as closed by the count, and be accepted or cancelled once more;
from then on the two may disagree. `ToldApart` says that no two rows of an offer share a stamp. The record
(`GameRecord`) keeps the other players in `doubt`: whether one of them has a takeback on offer is left
open there, the line of play and the clock are not.

### Challenges

| State | In the code |
|---|---|
| `challenges` | `Challenge` rows with their time control |
| `games` | `Game` rows; `of`, the challenge they come from, is not stored there |
| `shutdown` | `MutableState.shutdown_activated` |
| `announced` | not stored; the ids the server has broadcast as cancelled |
| `job` | the locals of the handlers in progress |

`Admit` is the test of the shutdown flag, before the first `await` of the
validations; `ReadAndMerge` is the rest of them and `try_merging`;
`CommitChallenge` and `CommitGame` are their ends. `ReadAccept`, `ReadCancel`,
`ReadDecline`, `CommitGame` and `CommitClose` are the other routes.
`ActivateShutdown`, `ReadActive`, `CancelNext` and `EndCancelAll` are `shutdown` and
`cancel_all_challenges`. Which of several mergeable challenges comes first is left
open, since `created_at` has one second's resolution. `Terms` stands for time
control and starting position, `Plain` for the loss of the latter in rated
challenges. What follows a last commit (notifications, broadcasts, the answer)
is left out; commits of notifications are kept where they commit something else.

### Rules of the game: Coords, Rules, Notation, Sip, Play

Functions of the code are operators of the same name in TLA+'s capitals (`is_hex_under_aura` is
`IsHexUnderAura`); a validator that raises is a predicate that is false, a piece or a morph that is
`None` is `Empty` or `"none"`. Python takes `*` and `//` from left to right, so that
`j - sign * (d + a) // 2` halves after the sign is applied, and `StepTarget` does so too. `Ray` is a
step repeated until it leaves the board. A text is a record of its version, the letter of the
mover and, for each colour, the set of its pairs of characters: the code of the character for the hex,
computed as the writers compute it, and the letter of the kind. Left out are the order of the pairs
(the writers sort them); pairs that a later one of the same colour and hex overwrites; and letters of
the mover other than "w", which are all read as Black. A text with another letter for a kind raises when
it is read, and is no text of the model (`Sips`). The reader puts a piece on whatever hex a character
gives, on the board or not, and a position is an arrangement of pieces on the board and on such places
(`Place`, `PositionOver`).

| State of `Play` | In the code |
|---|---|
| `sip` | `GamePlyEvent.sip_after` of the last ply, or the custom start: any text that can be read |
| `ply_count` | `ply_index` of the next ply |

`AppendPly` is the part of `append_ply_sink` between reading the last ply and writing the
next: `position_from_sip`, `is_ply_possible`, `perform_ply`, `get_sip`. `MovementRules` turns the
table `PieceKind.get_movement_rules`, which no code reads, into a game of its own on a board of
vectors, with three leniencies of the validators as named actions (section 5).

### Sessions and Connections

| State | In the code |
|---|---|
| `straight`, `inverse` | the two dictionaries of `MutableState.token_to_user` |
| `last_guest_id` | `MutableState.last_guest_id` |
| `passwords` | `PlayerPassword` rows |
| `auth` | the locals of the auth requests in progress |
| `loop`, `answer` | where `websocket_endpoint` is, and what it is about to send |
| `up`, `marked` | the client's end of the socket, and Starlette's mark that it is disconnected |
| `inbox` | the message on its way |
| `subscribers` | `SubscriberStorage.subscribers[EveryoneEventChannel()]` |
| `announcer`, `pending` | where `shutdown` is, and the sends `gather` has started |
| `heard`, `unlogged`, `sent` | not stored; who got the announcement, whose log row failed, messages so far |

`SignInAsGuest` is `guest`, which awaits nothing; `ReadForSignIn` and `AddLogged` are `signin`;
`ReadForRegister`, `CommitRegister` and `AddLogged` are `register`; `ReadForUpdate` and
`CommitUpdate` are `update_password`; `Abort` is the `BijectionError` of a second sign-in or a
failed commit. `Connect`, `Receive`, `NoticeDeparture` and `SendAnswer` are `websocket_endpoint` with
`handle`, split where it sends; `RequestShutdown`, `Broadcast`, `SendEvent` and `Announced` are
`shutdown` with `broadcast` (its cancellations are in `Challenges`). A send to a client that is gone may be
lost or raise `WebSocketDisconnect`, which marks the socket; on a marked socket sending
and receiving raise `RuntimeError`. bcrypt, `secrets`, Starlette and asyncio are external.

## 3. What is checked

| Run | Question | Bounds |
|---|---|---|
| `game_sequential` | is a game played here, one request at a time, always a legal game (`LegalLine`) with the right clock (`TicksForMover`), and is every commit a step of the record (`ImplementsRecord`)? | a fork of two first plys, one of them a fatum, and a repetition; 4 plys, 6 time rows, 3 rows of each offer, 2 units of the stamps (741 000 states) |
| `game_races` | with two requests at a time: are reserves positive (`ClockPositive`), does each ply own its time row (`PlyStartsItsClock`), are takebacks all or nothing (`TakebackAtomic`)? | a line of four positions, 3 plys, 4 time rows, 3 rows of each offer |
| `game_correspondence` | the same without a time control and with Black to begin: no time rows, and no takeback below the first ply (`PlyStartsItsClock`, `TypeOK`, `ImplementsRecord`); do the two readings of an active offer agree where stamps tell its rows apart (`OffersAgree`)? | six positions with a fork, a repetition, a fatum and a breakthrough; 4 plys, 4 rows of each offer, 3 units of the stamps (748 000 states) |
| `game_external` | is an uploaded game a legal game whose plys start their clocks, with rollbacks to any count and declared reserves, zero among them? | six positions, 3 plys, 5 time rows |
| `game_constant_filter` | "It's not your turn", with the filter of cancelled plys as Python evaluates it: refuted, White plies twice in a row, one request after the other (`TurnsAlternate`) | one request, six positions |
| `game_double_ply` | "It's not your turn": refuted, two requests of one player both ply (`TurnsAlternate`) | two requests |
| `game_draw_unoffered` | "Offer is not active": refuted, an offer of a draw is recorded as accepting one (`DrawWasOffered`) | one request |
| `challenges_sequential` | are there never two challenges side by side that suit each other (`NothingLeftToMerge`), and is every commit a step of the board (`ImplementsBoard`)? | two users, one of them banned from rated games, seven requests, 3 challenges, 2 games |
| `challenges_races` | with two requests at a time, the shutdown and restarts: `GameClosesItsChallenge`, `NobodyPlaysThemself`, `LimitOvershoot`, `OneLeftBehind`, `TypeOK`; and do the challenges that a closed server still adds run out (`ClosedToChallenges`)? | two users, public, link-only and direct requests, 2 challenges, 2 games, a limit of 1 |
| `challenges_shutdown` | "The server will ALWAYS cancel ALL active challenges": refuted (`AnnouncedAreClosed`) | one request |
| `play` | does the server accept exactly the plys of the movement rules and three leniencies (`AcceptsTheRules`), and is every game of the server one of theirs as long as it is on the board (`FollowsTheRules`)? Can the stored text be read (`TypeOK`), is it the position (`TextIsThePosition`), does no ply put a piece on the board (`NoPieceIsGained`), whatever text the game starts from? Does the right player win (`OutcomeIsTheMovers`), are White's plys listed and written rightly (`ListsWhitePlys`, `NotationNamesThePly`)? | 23 starting positions, two of them in both versions of the text, and five texts that no writer wrote; every ply from each (617 states) |
| `server` | are tokens issued as the registry says (`IssuesOnce`, `MapsInverse`, `OwnersAreKnown`) and accepted when a message shows them later (`IssuedTokensAreAccepted`), are exactly the connections that are served, and those that failed, subscribed (`SubscribedWhileServed`), is whoever leaves forgotten (`DepartedAreForgotten`), does the announcement reach everyone who stays (`AnnouncementReachesAll`), and is no send of it dropped without a reason (`NoSendIsLost`)? | two auth requests of one player, a guest, two tokens, two connections, one message, one shutdown (425 000 states) |

The bounds are the constants `Max...`, in the guards of the actions that start a
request (and of `Tick`). Four plys are enough for a takeback of one ply and of two
after the clock has begun to tick (at the second), for a new ply on an index that was
cancelled, and for the line to return to its first position. Two sessions are
enough for every race of the code, which are all of the form "two requests read, both
commit"; the proofs cover any number. Two units of the stamps are enough for rows that the
stamps tell apart and rows that they do not, in every run of `Game`. `CHECK_DEADLOCK FALSE` in the runs of
`Game` is due to the bounds only: time is up and the rows are full.

`play` starts from the usual position and from positions that put a piece of each kind in a
column of either parity, in either colour, next to its intellector (so that the aura matters),
with pieces to take, pieces in the way and a swap; and from one at the edge, with
promotions, captures of the intellector and a swap onto the final row. Five texts put pieces off the
board: below it, among them a defensor next to the intellector; before the first number; on numbers whose
characters are those of other hexes; and on a hex that both colours name. The properties
quantify over all plys from a position, so one ply of depth visits some 600 positions; a
second would only repeat the geometry. In `server` two requests of one login race to register and to
sign in, and the second token is left for the guest; a message is sent by one of two clients while
the other is in the broadcast; a second message would only repeat the loop.
`CHECK_DEADLOCK FALSE` is due to the bounds in `play`; in `server` everything has ended or failed.

`PROJECT.json` gives, for each property of each passing run, a mutant: a plausible
mistake in the code that makes the property fail in that run. Their definitions
stand before the ones they are mistakes of (`FlagFallenLate` before `FlagFallen`).

### Fairness and liveness

`Connections` assumes weak fairness of three things: that the endpoint of a connection goes on when
there is a message, a departure or an answer to send (`Serve`), that each send of a broadcast
goes on (`SendEvent`), and that the shutdown request does (`Announce`). asyncio runs every
coroutine whose awaited future is done, in the order it became so, and a commit or a send
either ends or raises. Nothing is assumed of clients (they need not send, leave or
connect) nor of the auth requests, and which way a commit or a send ends is left open. Under
it `DepartedAreForgotten` and `AnnouncementReachesAll` hold: the second because `gather` lets
the other sends go on when one raises.

In `Game` and `Challenges` no fairness is assumed and no liveness property stated. A handler may
always end with an exception before a commit (`Abort`), so that no request need ever succeed,
and the two things the code should do by itself, to end a game on time and to end the
process after the shutdown, are never done: `check_timeout` reads a dictionary
that nothing fills, and the process waits for `not` of a coroutine.

## 4. What is proved

All theorems hold for any positions, users, sessions and bounds that meet the
assumptions of the modules (`PositionAssumption`, `SettingAssumption`, `ChallengeAssumption`, `StartAssumption`,
`SessionsAssumption`, `ConnectionsAssumption`): the graph of positions alternates colours, the
sets of sessions are finite, a game starts from a position that is not final, and the
like. Those of `RulesProofs` hold for games from any text that can be read. Four of their properties
speak of what is on the board only: `AcceptsTheRules` of the plys of the pieces on it, `FollowsTheRules` of
the steps from positions that are wholly on it, `ListsWhitePlys` and `NotationNamesThePly` of such positions.

| Theorem | Says | Rests on |
|---|---|---|
| `GameProofs!TypeCorrect` | `TypeOK` | the ids of time rows that plys carry exist (`PlyTimesExist`), so that a takeback restores a row |
| `GameClockProofs!PliesStartTheirClock` | `PlyStartsItsClock` | the clock that a job carries to its commit is the row of its ply, and there are time rows exactly if there is a time control |
| `GameClockProofs!ReservesStayPositive` | `ClockPositive` | the clock that a job of a player carries is positive as well, and no uploader has a job; the starting time is positive (`StartTime > 0`; the payloads of challenges demand it) |
| `GameOfferProofs!TakebacksAreAtomic` | `TakebackAtomic` | a job that rolls back accepts a takeback and does not cancel it too; no other job accepts one; counting of appended rows |
| `GameOfferProofs!OffersAgreeInTurn` † | `OffersAgree` | `OfferInv`: stamps do not decrease along the rows of an offer; where they tell its rows apart, a takeback has one creation more than answers exactly if its latest row creates it, and a job creates only what is not active and answers only what is; a draw is never created |
| `GameTurnProofs!PlysAreALegalGame`, `TurnsAlternateInTurn` † | `LegalLine`, `TurnsAlternate`, of uploaded games too | `LineInv`: the plys that are left are numbered `0..n-1` (`LineOf`), a job that will record one holds the index and a neighbour of the last position; colours alternate along `Reach` |
| `GameTurnProofs!ClockTicksForTheMover` † | `TicksForMover` | `TickInv`: a job holds the clock it would work out now from the latest time row; one that rolls back, that of the position before its author's last ply |
| `GameTurnProofs!TablesKeepTheRecord` † | `ImplementsRecord` | all of these: with them each commit is shown to be one change of the record or none; whose rows have once shared a stamp stays in `doubt` |
| `ChallengeProofs!TypeCorrect` | `TypeOK` | the rows a job refers to stay (`Kept`: rows keep users and kind and are never reopened) |
| `ChallengeProofs!PlayersDiffer` | `NobodyPlaysThemself` | a job that will commit a game has a client who is not the caller; a direct challenge never calls its caller |
| `ChallengeProofs!GamesCloseTheirChallenges` | `GameClosesItsChallenge` | rows are never reopened, and only `CommitGame` changes where a challenge leads |
| `ChallengeProofs!AtMostOneLeftBehind` | `OneLeftBehind` | one session at a time shuts down; of what it has cancelled only the last is not committed; what was announced before and left active is on its list again |
| `ChallengeProofs!LimitHoldsUpToRaces` | `LimitOvershoot` | the open challenges of a user and the sessions that are about to add one together stay within the bound |
| `ChallengeProofs!LateChallengesRunOut` | `ClosedToChallenges` | the types alone: the commit of a challenge ends its request, and only a request that found the server open creates one |
| `ChallengeProofs!SuitingChallengesMerge` † | `NothingLeftToMerge` | `AloneInv`: nothing suits a challenge that is about to be posted; what suits a new challenge is what it would have been merged with (`SuitingMerged`) |
| `ChallengeProofs!TablesKeepTheBoard` † | `ImplementsBoard` | `AloneInv`: a challenge about to be closed or played is still open, and open to who plays it; the caller of one about to be posted is within the limit |
| `SessionProofs!MapsStayInverse`, `OwnersStayKnown`, `IssuesOnceCorrect` | `MapsInverse`, `OwnersAreKnown` and the refinement of `TokenRegistry`, of the sessions alone | `SessionsInv`: the types, the two maps inverse, and a granted job's login has a password row |
| `ConnectionProofs!ConnectionsImplementSessions` | the server implements `Sessions` | every other action leaves its variables alone; with it `ConnectionsMapsInverse`, `ConnectionsOwnersAreKnown` and `ConnectionsIssueOnce` carry the three over |
| `ConnectionProofs!ConnectionsTypeCorrect`, `SubscribersAreServed`, `TokensStayAccepted` | `TypeOK`, `SubscribedWhileServed`, `IssuedTokensAreAccepted` | the types; the last also on the fact that no step takes a token out of `straight`, which `SessionsNext` is shown to keep |
| `ConnectionProofs!SendsAreNeverLost`, `DeparturesAreFinal` | `NoSendIsLost`; `DeparturesComeCloser`, that the endpoint of whoever has gone ends within four of its steps | `MarkedAreGone`: a marked socket belongs to a client who connected and went, nobody comes back, nothing is sent before the broadcast |
| `RulesProofs!PlayTypeCorrect`, `NoPieceIsEverGained` | `TypeOK` of `Play`, `NoPieceIsGained` | different characters that version 2 writes are read as different hexes; a ply puts down no more pieces than it takes up, and pieces that share a character become one (`Lasting`) |
| `RulesProofs!TextAlwaysThePosition` | `TextIsThePosition` | numbers and places stand for each other, on the board and off it; in version 1 all characters are apart, in version 2 those of the numbers 0 .. 68 |
| `RulesProofs!RulesAlwaysAccepted`, `PlayFollowsTheRules` | `AcceptsTheRules`; `FollowsTheRules`, the refinement of `MovementRules` | each test of the validators is a line of the rules (below); a piece off the board is in nobody's way (`BoardPlys`); the text is read back as the position, and a swap gives the same board whatever morph is asked for (`SwapsIgnoreMorphs`) |
| `RulesProofs!OutcomeAlwaysTheMovers` | `OutcomeIsTheMovers` | what the validators let through makes no intellector (`NoNewIntellector`) except a quiet morph; where the intellectors are after a move and after a swap; a position that is not final has one of each colour, neither on its final row |
| `RulesProofs!WhitePlysAlwaysListed` | `ListsWhitePlys` | what is listed for a piece of each kind is a line of the rules (`ListedFrom`), which the validators accept and `MovementRules` allows, but for the exceptions that the property names |
| `RulesProofs!NotationAlwaysNamesThePly` | `NotationNamesThePly` | different departures are written differently, and the departure is written if another piece of the kind could make the ply (`SomethingIsListed`) |

In most cases the property alone is not inductive: it speaks of rows, and the next
commit writes what a handler decided on an earlier snapshot. The strengthening
says what the jobs in progress may hold.

The theorems marked † assume one request at a time (`OneAtATime`: the set of sessions has at most one
member), as the runs of their properties do. The properties are false without it, and a run
(`game_double_ply`) shows how the first breaks. Their strengthenings have one form: *a job holds what its
request would read if it read now* (`ReadsNow`, `ReadsOffers`, `ReadsClock`, `ReadsRollback`), which is
what serial execution gives and what races take away. The other hypotheses are named where they
are needed:

* `FilterPerRow`, the reading of `not is_cancelled` as a condition on rows (of the other
  reading the run `game_constant_filter` shows that `TurnsAlternate` is false);
* `~External` for `TicksForMover` and the record: an uploader's rollback names the wrong side
  (section 5) and uploaded reserves are what the uploader says.

The refinements are proved by cases over `Next`: the initial state is the initial state of the
abstract module, and each commit one of its actions. Of the record this takes what each commit
does to the sequence that the mapping reads off the rows (`LineAppended`, `LineCut`), because the
rows that a takeback cancels stay in the table.

The theorems about the movement rules compare two geometries. `MovementRules` adds vectors on a board of
columns and heights, the code subtracts columns and rows, whose heights differ from column to column,
and follows rays. `AlongIs` says that a hex lies on a line exactly if its column and height are so far
away, which makes the neighbours, jumps and advances of the code (`NeighbourIs`, `JumpIs`, `AdvanceIs`)
arithmetic; `RayIs`, that a ray is the part of a line that is on the board, by unfolding
its eight steps; `RaycastIs`, `DominatorIs` and `AggressorIs`, that the direction which the validators
guess from two differences is the only one in which the piece can slide there. What is left is a case
for each kind (`DestinationsGo`, `CaptureIs`, `PossibleIs`), and `OutcomeIs` for the board after the ply.

The generator is followed kind by kind (`ListedFrom`): single steps, jumps and the part of each ray up
to the first piece (`OneStepIs`, `RayReaches`, `AvalancheIs`) are again lines of the rules. For the
notation it takes three facts more: hexes that are written alike are the same, swaps that are written
alike have the same effect (`HexesAreWritten`, `SwapsAreWritten`), and a piece that could end on a hex is
found by the search for it among what is listed (`SomethingIsListed`), so that the departure is
written whenever it is needed (`DifferentPlysAreWritten`).

Every invariant, refinement and action property of the passing runs is the statement of a theorem, for
any constants. Model-checked only are the two liveness properties, `DepartedAreForgotten` and
`AnnouncementReachesAll`, since the provers know nothing of ENABLED. What they rest on, and what could
really be wrong in the code, is proved: `SendsAreNeverLost`, that a send of the announcement
ends only for a reason the property allows, and `DeparturesAreFinal`, that a client who has gone is on a
way of at most four steps of its endpoint that no step of anyone makes longer. What is left is that
the steps which fairness speaks of can be taken while they are owed: `SendEvent(c)` while `c` is
pending, and `Serve(c)` while `c` is served and gone.

## 5. Where the code departs from its own words

Four disagreements have a run that shows them (`findings` in `PROJECT.json`). The model
reproduces these others as well:

* an ended game goes on: `end_game` stores no outcome (`game/methods/update.py:28`);
* a ply to a position that is not final ends the game by repetition, at its first
  occurrence: `has_occured_thrice` is not awaited (`game/endpoint_sinks.py:61`);
* the rows of an offer are ordered by a stamp of one second (`game/methods/get.py:74`): one that is
  created and cancelled within a second can be taken as active, and accepted, although the count
  (`get_active_offers`) says it is closed;
* one offer can be closed twice by two requests at a time (`game/ws/offer.py:53`,
  `:69`);
* whether a takeback comes too early depends on the colour to move and not on the
  author (`game/ws/offer.py:30`), so that White is refused after the first ply;
* an uploader's rollback names the wrong side: the parity test binds `%` before
  `-` (`game/endpoint_sinks.py:187`), and `TicksForMover` fails in external games;
* a link-only challenge cannot be cancelled, and a shutdown ends at one
  (`challenge/methods/update.py:38`, `event` is not assigned);
* a challenge that was past the flag's test is committed after the shutdown (one for each such
  request, `ClosedToChallenges`);
* the limit of challenges to one callee compares the totals instead
  (`challenge/methods/validation.py:49`) and has no effect;
* whoever is merged with a challenge of random colours has no say in the colours;
* a quiet step of a liberator may name any kind to become, the intellector among them
  (`rules/ply_validation.py:80` does not look at `morph_into`); the position that follows may be
  `INVALID`, and `_get_simple_outcome` (`game/endpoint_sinks.py`) takes no note of it, so that from there a
  capture can name the wrong winner. `OutcomeIsTheMovers` leaves such plys out;
* a progressor that moves onto its final row does not check whose piece is there
  (`rules/ply_validation.py:53`): promoting onto a piece of its own changes places with it, without a
  promotion. A defensor that swaps may name any kind, which is ignored;
* `HexCoordinates.step` (`rules/coords.py:60`) halves after the sign is applied, so that Black's
  diagonal steps are wrong from every other column: the generator and the notation, which
  follow them, are checked for White only. The validators do not;
* the generator lists morphs of a liberator's jump away from the aura, which the validators
  refuse, and leaves out the capture of an intellector on the final row without promoting
  (`rules/position.py:147-175`);
* a custom start is asked only for its finality group (`challenge/methods/validation.py:31`), that of an
  uploaded game for nothing (`game/routes/external.py:48`). Its text may name hexes off the board ("9"
  in version 2 is below it), the pairs may be in any order and name a hex twice. Such pieces can be plied,
  and intellectors among them count. Version 2 writes some of their hexes with the characters of others, so
  that storing a ply can move pieces nobody plied and merge two into one; `NoPieceIsGained` is what
  remains true;
* a custom start of version 1 is kept as it was sent and its text never equals one of version 2,
  so that a return to it is not a repetition;
* the dispatcher sets the client back to None after it has authenticated it
  (`net/incoming.py:121`), so that every event is answered with an error;
* a connection whose endpoint ends with another exception than `WebSocketDisconnect` stays among
  the subscribers for good (`net/core.py:191`); a broadcast that finds the client gone can cause
  one, and every later broadcast to it is lost or raises;
* a player who signs in a second time gets an error until the process ends
  (`utils/bijective_map.py:17`); the answer to a registration can be one, too, when a sign-in
  of the player came between its commit and its token;
* the launch reads the last guest id from a coroutine that is not awaited
  (`net/core.py:146`), which has no method `scalar`: nothing is modelled before the launch or
  after a restart.

## 6. Not modelled

* The timeout check and the end of the process after a shutdown: no reachable state lets them
  act.
* The chat: its handler reads a coroutine's attributes and fails before it writes.
* Public subscriptions (`pubsub/`): classes of payloads; the module of handlers is empty, so that
  `EveryoneEventChannel` is the only channel with subscribers, no connection carries a tag and no
  saved token. The queries on subscribers that look for a token therefore find nobody.
* Of a connection, the two time stamps of its last message and activity: they feed a status
  that is computed from the clock when it is asked for.
* Players and studies: single-row reads and writes behind a check of the role or the
  author. Roles and restrictions enter `Sessions` and `Challenges` as the constants `Admin` and
  `Banned`. That a preferred role may be one that was revoked is said where it is declared
  (`player/models.py`).
* The columns' widths of passwords and tokens, bcrypt's own types, and what a
  database refuses besides a second primary key.
* Notifications (calls to messengers), the log and the configuration, the lists and refreshes for clients
  (which change nothing), the documentation that is generated, the drawer.
