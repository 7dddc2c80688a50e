-------------------------------- MODULE Game --------------------------------
(***************************************************************************)
(* One game of the server: its tables (plys, time updates, offers,         *)
(* rollbacks, outcome) and the requests that read and write them.          *)
(*                                                                         *)
(* A handler runs in one database session.  Its SELECTs, up to the next    *)
(* commit, see the snapshot taken by the first of them, and its writes are *)
(* seen by other sessions only at the commit, so a handler is one action   *)
(* that reads and decides, then one action per commit.  Other requests run *)
(* between any two of them.  What the request carries from one action to   *)
(* the next is its job.  A request that is refused without having written  *)
(* anything leaves the state as it was: it is a guard that is not met.     *)
(***************************************************************************)
EXTENDS Integers, FiniteSets, Sequences

CONSTANTS
  Session,      \* the requests that can be in progress at the same time
  Sip,          \* serialized positions
  StartSip,     \* the position the game starts from
  Reach,        \* the positions one possible ply away from a position
  ToMove,       \* the colour to move in a position
  Finality,     \* "none", "fatum" or "breakthrough" for a position
  External,     \* TRUE for a game uploaded over REST, FALSE for a game played here
  Fischer,      \* TRUE if there is a time control, FALSE for correspondence
  StartTime,    \* the reserve of each player at the start
  Bonus,        \* what one request to add time adds
  Remainders,   \* the reserves an uploader may declare with a ply
  FilterPerRow, \* TRUE if "not is_cancelled" is evaluated for each row, FALSE if
                \* it is the Python constant False
  MaxTime, MaxPlies, MaxTimes, MaxOffers  \* bounds of the model

Color == {"white", "black"}
Opposite(c) == IF c = "white" THEN "black" ELSE "white"
OfferKind == {"draw", "takeback"}
OfferAction == {"create", "cancel", "accept", "decline"}
Offer == OfferKind \X Color          \* an offer is known by its kind and author
FinalityGroup == {"none", "fatum", "breakthrough"}
DrawishKind == {"draw_agreement", "repetition", "no_progress", "abort"}
OutcomeKind == DrawishKind \cup {"fatum", "breakthrough", "timeout", "resign", "abandon"}

ASSUME PositionAssumption ==
  /\ StartSip \in Sip
  /\ Reach \in [Sip -> SUBSET Sip]
  /\ ToMove \in [Sip -> Color]
  /\ Finality \in [Sip -> FinalityGroup]
  /\ \A s \in Sip : \A t \in Reach[s] : ToMove[t] = Opposite(ToMove[s])

ASSUME SettingAssumption ==
  /\ External \in BOOLEAN /\ Fischer \in BOOLEAN
  /\ FilterPerRow \in BOOLEAN
  /\ StartTime \in Int /\ Bonus \in Nat
  /\ Remainders \subseteq [Color -> Int]
  /\ MaxTime \in Nat /\ MaxPlies \in Nat /\ MaxTimes \in Nat /\ MaxOffers \in Nat

VARIABLES
  plies,      \* GamePlyEvent rows
  times,      \* GameTimeUpdate rows, by id
  offers,     \* GameOfferEvent rows of each offer
  rollbacks,  \* GameRollbackEvent rows
  outcome,    \* the GameOutcome row's kind, "none" if there is no row
  ended,      \* history: the kind and winner of the last call of end_game
  now,        \* the clock, in units of the datetime columns
  job         \* what each session is doing

vars == <<plies, times, offers, rollbacks, outcome, ended, now, job>>
tables == <<plies, times, offers, rollbacks, outcome>>

----------------------------------------------------------------------------
(* Rows *)

TimeRow == [ms : [Color -> Int], ticking : Color \cup {"none"}, at : Nat,
            reason : {"none", "init", "ply", "rollback", "time_added"}]
NoRow == [ms |-> [c \in Color |-> 0], ticking |-> "none", at |-> 0, reason |-> "none"]
InitRow == [NoRow EXCEPT !.ms = [c \in Color |-> StartTime], !.reason = "init"]

PlyRow == [idx : Nat, sip : Sip, cancelled : BOOLEAN, time : Nat]
OfferRow == [action : OfferAction, at : Nat]
RollbackRow == [before : Nat, after : Nat, by : Color, time : Nat]
EndCall == [kind : OutcomeKind \cup {"none"}, winner : Color \cup {"none"}]

(* A job: its stage, the time it began (or its ply_dt once that is read),  *)
(* the ply count it read, and what it is going to write.                   *)
Job == [stage : {"idle", "ply", "cleared", "clocked", "charge", "declared",
                 "offer", "rollback", "add"},
        at : Nat, cnt : Nat, sip : Sip, clock : TimeRow,
        cancels : SUBSET Offer, offer : Offer, action : OfferAction \cup {"none"},
        drop : SUBSET Nat, keep : Nat, by : Color]
NoJob == [stage |-> "idle", at |-> 0, cnt |-> 0, sip |-> StartSip, clock |-> NoRow,
          cancels |-> {}, offer |-> <<"draw", "white">>, action |-> "none",
          drop |-> {}, keep |-> 0, by |-> "white"]

(***************************************************************************)
(* create_game: the game row and, with a time control, the first time row. *)
(***************************************************************************)
Init ==
  /\ plies = <<>>
  /\ times = IF Fischer THEN <<InitRow>> ELSE <<>>
  /\ offers = [x \in Offer |-> <<>>]
  /\ rollbacks = <<>>
  /\ outcome = "none"
  /\ ended = [kind |-> "none", winner |-> "none"]
  /\ now = 0
  /\ job = [s \in Session |-> NoJob]

----------------------------------------------------------------------------
(* Queries *)

LiveByRow == {i \in DOMAIN plies : ~plies[i].cancelled}
Live == IF FilterPerRow THEN LiveByRow ELSE {}

\* get_last_ply_event: rows with the same index come in any order
LastLive == {i \in Live : \A j \in Live : plies[j].idx <= plies[i].idx}

\* get_current_sip_and_ply_cnt of the last ply event
Current ==
  IF Live = {}
  THEN {[sip |-> StartSip, cnt |-> 0]}
  ELSE {[sip |-> plies[i].sip, cnt |-> plies[i].idx + 1] : i \in LastLive}

LatestTime == IF times = <<>> THEN NoRow ELSE times[Len(times)]
InitialTime == IF times = <<>> THEN NoRow ELSE times[1]

CountOf(x, actions) == Cardinality({i \in DOMAIN offers[x] : offers[x][i].action \in actions})

\* get_active_offers
ActiveByCount(x) == CountOf(x, {"create"}) > CountOf(x, OfferAction \ {"create"})

\* is_offer_active: one of the rows with the latest stamp, in any order
LatestActions(x) ==
  {offers[x][i].action :
     i \in {k \in DOMAIN offers[x] : \A j \in DOMAIN offers[x] : offers[x][j].at <= offers[x][k].at}}
ActiveAnswers(x) ==
  IF offers[x] = <<>> THEN {FALSE} ELSE {a = "create" : a \in LatestActions(x)}

----------------------------------------------------------------------------
(* The clock of a ply *)

Charged(row, t) ==
  IF row.ticking = "none" THEN row.ms
  ELSE [row.ms EXCEPT ![row.ticking] = @ - (t - row.at)]

FlagFallenLate(row, t) == row.ticking # "none" /\ Charged(row, t)[row.ticking] < 0
FlagFallen(row, t) == row.ticking # "none" /\ Charged(row, t)[row.ticking] <= 0

\* ticking_side of the row a ply adds; cnt is the ply's index
TickingFromFirstPly(cnt, toMove) == toMove
TickingAfterPly(cnt, toMove) == IF cnt >= 1 THEN toMove ELSE "none"

\* construct_new_ply_time_update once the flag has been seen not to have fallen
PlyClockOfNoClock(row, t, cnt, toMove) ==
  [ms |-> Charged(row, t), ticking |-> TickingAfterPly(cnt, toMove), at |-> t, reason |-> "ply"]
PlyClock(row, t, cnt, toMove) ==
  IF row = NoRow THEN NoRow
  ELSE [ms |-> Charged(row, t), ticking |-> TickingAfterPly(cnt, toMove), at |-> t, reason |-> "ply"]

----------------------------------------------------------------------------
(* Writes shared by the handlers *)

\* end_game deletes notifications; the tables of the game stay as they are
EndGame(kind, winner) == ended' = [kind |-> kind, winner |-> winner]

\* _get_simple_outcome: the repetition test is a coroutine that is not awaited,
\* and that is true
SimpleOutcome(sip) ==
  IF Finality[sip] = "none" THEN [kind |-> "repetition", winner |-> "none"]
  ELSE [kind |-> Finality[sip], winner |-> Opposite(ToMove[sip])]

\* new offer rows: a cancellation of each of cancels, and action on x
OfferRowsLeavingRest(cancels, x, action, t) ==
  [y \in Offer |->
     IF action # "none" /\ y = x THEN Append(offers[y], [action |-> action, at |-> t])
     ELSE offers[y]]
OfferRows(cancels, x, action, t) ==
  [y \in Offer |->
     IF y \in cancels THEN Append(offers[y], [action |-> "cancel", at |-> t])
     ELSE IF action # "none" /\ y = x THEN Append(offers[y], [action |-> action, at |-> t])
     ELSE offers[y]]

AddTimeRow(row) == times' = IF row = NoRow THEN times ELSE Append(times, row)
NewTimeId(row) == IF row = NoRow THEN 0 ELSE Len(times) + 1

\* the end of append_ply_sink: the event, its time row, the outcome
AppendPly(s, row) ==
  /\ plies' = Append(plies, [idx |-> job[s].cnt, sip |-> job[s].sip,
                             cancelled |-> FALSE, time |-> NewTimeId(row)])
  /\ AddTimeRow(row)
  /\ LET o == SimpleOutcome(job[s].sip) IN EndGame(o.kind, o.winner)
  /\ job' = [job EXCEPT ![s] = NoJob]
  /\ UNCHANGED <<offers, rollbacks, outcome, now>>

\* the session is free, the game has no outcome, and the model has room
Ready(s) ==
  /\ job[s].stage = "idle"
  /\ outcome = "none"
  /\ Len(times) < MaxTimes
  /\ Cardinality({r \in Offer \X (1..MaxOffers) : r[2] \in DOMAIN offers[r[1]]}) < MaxOffers

Start(s, j) == job' = [job EXCEPT ![s] = j] /\ UNCHANGED <<tables, ended, now>>

----------------------------------------------------------------------------
(* append_ply_sink *)

\* The checks of append_ply_sink.  client is the colour of the player (it is
\* not known for an uploader), original the position the client believes in.
CanPly(cur, client, original, sip) ==
  /\ External \/ ToMove[cur.sip] = client
  /\ original \in {"none", cur.sip}
  /\ sip \in Reach[cur.sip]

\* A player's ply: the handler reads the position and the active offers.
ReadPly(s, client, original, sip) ==
  /\ Ready(s) /\ Len(plies) < MaxPlies
  /\ ~External
  /\ \E cur \in Current :
       /\ CanPly(cur, client, original, sip)
       /\ Start(s, [NoJob EXCEPT !.stage = "ply", !.at = now, !.cnt = cur.cnt, !.sip = sip,
                                 !.cancels = {x \in Offer : ActiveByCount(x)}])

\* cancel_all_active_offers commits; its stamp is ply_dt.
CancelAllActiveOffers(s) ==
  /\ job[s].stage = "ply"
  /\ \E t \in job[s].at..now :
       /\ offers' = OfferRows(job[s].cancels, <<"draw", "white">>, "none", t)
       /\ job' = [job EXCEPT ![s].stage = "cleared", ![s].at = t]
  /\ UNCHANGED <<plies, times, rollbacks, outcome, ended, now>>

\* construct_new_ply_time_update reads the latest time row in a new snapshot.
ReadClock(s) ==
  /\ job[s].stage = "cleared"
  /\ ~FlagFallen(LatestTime, job[s].at)
  /\ Start(s, [job[s] EXCEPT !.stage = "clocked",
                 !.clock = PlyClock(LatestTime, job[s].at, job[s].cnt, ToMove[job[s].sip])])

\* TimeoutReachedException in the WebSocket handler: the ply is not recorded.
TimeoutReached(s) ==
  /\ job[s].stage = "cleared"
  /\ FlagFallen(LatestTime, job[s].at)
  /\ EndGame("timeout", Opposite(LatestTime.ticking))
  /\ job' = [job EXCEPT ![s] = NoJob]
  /\ UNCHANGED <<tables, now>>

RecordPly(s) ==
  /\ job[s].stage = "clocked"
  /\ AppendPly(s, job[s].clock)

\* An uploader's ply, with or without declared reserves: no offers, one snapshot.
ReadExternalPly(s, original, sip, declared) ==
  /\ Ready(s) /\ Len(plies) < MaxPlies
  /\ External
  /\ \E cur \in Current :
       /\ CanPly(cur, "white", original, sip)
       /\ declared # <<>> => Fischer
       /\ Start(s, [NoJob EXCEPT !.stage = IF declared = <<>> THEN "charge" ELSE "declared",
                      !.at = now, !.cnt = cur.cnt, !.sip = sip,
                      !.clock = IF declared = <<>> THEN LatestTime
                                ELSE [ms |-> declared,
                                      ticking |-> TickingAfterPly(cur.cnt, ToMove[sip]),
                                      at |-> 0, reason |-> "ply"]])

\* A time out is answered with an error and nothing is recorded.
RecordExternalPly(s) ==
  /\ job[s].stage \in {"charge", "declared"}
  /\ \E t \in job[s].at..now :
       /\ job[s].stage = "charge" => ~FlagFallen(job[s].clock, t)
       /\ AppendPly(s, IF job[s].stage = "charge"
                       THEN PlyClock(job[s].clock, t, job[s].cnt, ToMove[job[s].sip])
                       ELSE [job[s].clock EXCEPT !.at = t])

----------------------------------------------------------------------------
(* Offers *)

StartOffer(s, x, action) ==
  Start(s, [NoJob EXCEPT !.stage = "offer", !.at = now, !.offer = x, !.action = action])

\* "Draw cannot be offered during the first two moves of the game"
DrawTooEarly(cur) == cur.cnt < 2
\* "Cannot ask for a takeback before your first move"
TakebackTooEarly(cur) == cur.cnt < IF ToMove[cur.sip] = "white" THEN 1 ELSE 2

CreateTakebackWhileActive(s, client) ==
  /\ Ready(s)
  /\ ~External
  /\ \E cur \in Current : ~TakebackTooEarly(cur)
  /\ StartOffer(s, <<"takeback", client>>, "create")
CreateTakeback(s, client) ==
  /\ Ready(s)
  /\ ~External
  /\ \E cur \in Current : ~TakebackTooEarly(cur)
  /\ FALSE \in ActiveAnswers(<<"takeback", client>>)
  /\ StartOffer(s, <<"takeback", client>>, "create")

\* create_offer of a draw.  Whether the opponent has offered one too is asked
\* with a coroutine that is not awaited, and that is true: the handler goes on
\* to accept_draw, without its check, for an offer of the opponent.
CreateDraw(s, client) ==
  /\ Ready(s)
  /\ ~External
  /\ \E cur \in Current : ~DrawTooEarly(cur)
  /\ FALSE \in ActiveAnswers(<<"draw", client>>)
  /\ StartOffer(s, <<"draw", Opposite(client)>>, "accept")

\* cancel_offer, decline_offer and accept_draw of an offer that is active
AnswerOffer(s, client, action, kind) ==
  LET author == IF action = "cancel" THEN client ELSE Opposite(client)
  IN  /\ Ready(s)
      /\ ~External
      /\ action = "accept" => kind = "draw"
      /\ TRUE \in ActiveAnswers(<<kind, author>>)
      /\ StartOffer(s, <<kind, author>>, action)

\* append_offer_event commits; accepting a draw then calls end_game.
CommitOffer(s) ==
  /\ job[s].stage = "offer"
  /\ \E t \in job[s].at..now : offers' = OfferRows({}, job[s].offer, job[s].action, t)
  /\ IF job[s].action = "accept" THEN EndGame("draw_agreement", "none") ELSE UNCHANGED ended
  /\ job' = [job EXCEPT ![s] = NoJob]
  /\ UNCHANGED <<plies, times, rollbacks, outcome, now>>

----------------------------------------------------------------------------
(* Takebacks and rollbacks *)

\* perform_rollback, what it writes: the plys from index keep on are cancelled
\* and the clock of the last ply below (of the start if there is none) restored.
TimeRowsBelow(keep) ==
  LET below == {i \in Live : plies[i].idx < keep}
      last  == {i \in below : \A j \in below : plies[j].idx <= plies[i].idx}
  IN  IF below = {} THEN {InitialTime}
      ELSE {IF plies[i].time = 0 THEN NoRow ELSE times[plies[i].time] : i \in last}

RolledBackFromFirstPly(row, keep, by) ==
  IF row = NoRow THEN NoRow
  ELSE [row EXCEPT !.reason = "rollback", !.ticking = IF keep >= 1 THEN by ELSE "none"]
RolledBack(row, keep, by) ==
  IF row = NoRow THEN NoRow
  ELSE [row EXCEPT !.reason = "rollback", !.ticking = IF keep >= 2 THEN by ELSE "none"]

RollbackJobOfOnePly(cnt, keep, by, row) ==
  [NoJob EXCEPT !.stage = "rollback", !.at = now, !.cnt = cnt, !.keep = keep, !.by = by,
                !.clock = RolledBack(row, keep, by),
                !.drop = {i \in Live : plies[i].idx = keep}]
RollbackJob(cnt, keep, by, row) ==
  [NoJob EXCEPT !.stage = "rollback", !.at = now, !.cnt = cnt, !.keep = keep, !.by = by,
                !.clock = RolledBack(row, keep, by),
                !.drop = {i \in Live : plies[i].idx >= keep}]

\* validate_rollback for the author of an offer, from the last ply i
CountWithoutOneMove(i, author) == plies[i].idx
CountBeforeLastMoveOf(i, author) ==
  plies[i].idx + 1 - (IF author # ToMove[plies[i].sip] THEN 1 ELSE 2)

\* "Too early for a rollback"
EnoughPlysOrOneShort(keep) == keep >= -1
EnoughPlys(keep) == keep >= 0

\* accept_takeback of a takeback that can be performed
AcceptTakeback(s, client) ==
  LET author == Opposite(client)
  IN  /\ Ready(s)
      /\ ~External
      /\ TRUE \in ActiveAnswers(<<"takeback", author>>)
      /\ \E i \in LastLive :
           LET keep == CountBeforeLastMoveOf(i, author)
           IN  /\ EnoughPlys(keep)
               /\ \E row \in TimeRowsBelow(keep) :
                  \E cancels \in SUBSET (Offer \ {<<"takeback", author>>}) :
                    /\ \A x \in Offer \ {<<"takeback", author>>} : (x \in cancels) \in ActiveAnswers(x)
                    /\ Start(s, [RollbackJob(plies[i].idx + 1, keep, author, row)
                                   EXCEPT !.cancels = cancels, !.action = "accept",
                                          !.offer = <<"takeback", author>>])

\* accept_takeback of a takeback that is too early: the offer is cancelled
VoidTakeback(s, client) ==
  LET author == Opposite(client)
  IN  /\ Ready(s)
      /\ ~External
      /\ TRUE \in ActiveAnswers(<<"takeback", author>>)
      /\ \/ Live = {}
         \/ \E i \in LastLive : ~EnoughPlys(CountBeforeLastMoveOf(i, author))
      /\ StartOffer(s, <<"takeback", author>>, "cancel")

\* The REST rollback to keep plys.  requested_by is the colour to move when
\* new_ply_cnt - old_ply_cnt % 2 is 0, that is new_ply_cnt - (old_ply_cnt % 2).
Requester(cnt, keep, toMove) ==
  IF keep - (cnt % 2) = 0 THEN toMove ELSE Opposite(toMove)

ReadRollback(s, keep) ==
  /\ Ready(s)
  /\ External
  /\ \E i \in LastLive :
       /\ keep < plies[i].idx + 1
       /\ \E row \in TimeRowsBelow(keep) :
            Start(s, RollbackJob(plies[i].idx + 1, keep,
                       Requester(plies[i].idx + 1, keep, ToMove[plies[i].sip]), row))

\* One commit: offer rows, cancelled plys, the time row, the rollback event.
CommitRollbackWithoutPlies(s) ==
  /\ job[s].stage = "rollback"
  /\ \E t \in job[s].at..now :
       LET row == IF job[s].clock = NoRow THEN NoRow ELSE [job[s].clock EXCEPT !.at = t]
       IN  /\ offers' = OfferRows(job[s].cancels, job[s].offer, job[s].action, t)
           /\ AddTimeRow(row)
  /\ job' = [job EXCEPT ![s] = NoJob]
  /\ UNCHANGED <<plies, rollbacks, outcome, ended, now>>
CommitRollback(s) ==
  /\ job[s].stage = "rollback"
  /\ \E t \in job[s].at..now :
       LET row == IF job[s].clock = NoRow THEN NoRow ELSE [job[s].clock EXCEPT !.at = t]
       IN  /\ offers' = OfferRows(job[s].cancels, job[s].offer, job[s].action, t)
           /\ AddTimeRow(row)
           /\ rollbacks' = Append(rollbacks, [before |-> job[s].cnt, after |-> job[s].keep,
                                              by |-> job[s].by, time |-> NewTimeId(row)])
  /\ plies' = [i \in DOMAIN plies |-> [plies[i] EXCEPT !.cancelled = @ \/ i \in job[s].drop]]
  /\ job' = [job EXCEPT ![s] = NoJob]
  /\ UNCHANGED <<outcome, ended, now>>

----------------------------------------------------------------------------
(* Time, resignation, the end of an external game *)

\* add_time_sink: a player adds time to the opponent, an uploader to anyone.
ReadTime(s, receiver) ==
  /\ Ready(s)
  /\ times # <<>>
  /\ Start(s, [NoJob EXCEPT !.stage = "add", !.at = now,
                 !.clock = [LatestTime EXCEPT !.ms[receiver] = @ + Bonus, !.reason = "time_added"]])

CommitTime(s) ==
  /\ job[s].stage = "add"
  /\ \E t \in job[s].at..now : times' = Append(times, [job[s].clock EXCEPT !.at = t])
  /\ job' = [job EXCEPT ![s] = NoJob]
  /\ UNCHANGED <<plies, offers, rollbacks, outcome, ended, now>>

Resign(s, client) ==
  /\ Ready(s)
  /\ ~External
  /\ \E cur \in Current :
       IF cur.cnt < 2 THEN EndGame("abort", "none") ELSE EndGame("resign", Opposite(client))
  /\ UNCHANGED <<tables, now, job>>

\* The uploader ends the game; the payload's validator pairs kind and winner.
EndExternal(s, kind, winner) ==
  /\ Ready(s)
  /\ External
  /\ (kind \in DrawishKind) = (winner = "none")
  /\ EndGame(kind, winner)
  /\ UNCHANGED <<tables, now, job>>

\* A handler ends before its next commit: it raised, or the server stopped.
Abort(s) ==
  /\ job[s].stage # "idle"
  /\ Start(s, NoJob)

Tick ==
  /\ now < MaxTime
  /\ now' = now + 1
  /\ UNCHANGED <<tables, ended, job>>

Step(s) ==
  \/ \E client \in Color, original \in Sip \cup {"none"}, sip \in Sip : ReadPly(s, client, original, sip)
  \/ CancelAllActiveOffers(s)
  \/ ReadClock(s)
  \/ TimeoutReached(s)
  \/ RecordPly(s)
  \/ \E original \in Sip \cup {"none"}, sip \in Sip, declared \in Remainders \cup {<<>>} :
       ReadExternalPly(s, original, sip, declared)
  \/ RecordExternalPly(s)
  \/ \E client \in Color : CreateTakeback(s, client)
  \/ \E client \in Color : CreateDraw(s, client)
  \/ \E client \in Color, action \in {"cancel", "decline", "accept"}, kind \in OfferKind :
       AnswerOffer(s, client, action, kind)
  \/ CommitOffer(s)
  \/ \E client \in Color : AcceptTakeback(s, client)
  \/ \E client \in Color : VoidTakeback(s, client)
  \/ \E keep \in 0..MaxPlies : ReadRollback(s, keep)
  \/ CommitRollback(s)
  \/ \E receiver \in Color : ReadTime(s, receiver)
  \/ CommitTime(s)
  \/ \E client \in Color : Resign(s, client)
  \/ \E kind \in {"abort", "abandon", "draw_agreement", "resign"}, winner \in Color \cup {"none"} :
       EndExternal(s, kind, winner)
  \/ Abort(s)

Next == Tick \/ \E s \in Session : Step(s)

Spec == Init /\ [][Next]_vars

----------------------------------------------------------------------------
(* Properties *)

\* Every row has the columns its table declares and every job is one that a
\* handler can have: no count or index below zero, no colour that is not one.
TypeOK ==
  /\ plies \in Seq(PlyRow)
  /\ times \in Seq(TimeRow)
  /\ offers \in [Offer -> Seq(OfferRow)]
  /\ rollbacks \in Seq(RollbackRow)
  /\ outcome \in OutcomeKind \cup {"none"}
  /\ ended \in EndCall
  /\ now \in Nat
  /\ job \in [Session -> Job]

\* In a game played here no recorded reserve is ever zero or less: a ply that
\* would leave nothing to the player who made it is never recorded, whatever is
\* added, taken back or raced with (construct_new_ply_time_update).
ClockPositive ==
  ~External => \A i \in DOMAIN times : \A c \in Color : times[i].ms[c] > 0

\* Each recorded ply points to the time row that was added with it, no two plys
\* share one, and from the second ply on it starts the clock of the player to
\* move (append_ply_sink).
PlyStartsItsClock ==
  \A i \in DOMAIN plies :
    /\ (plies[i].time # 0) <=> Fischer
    /\ Fischer =>
         /\ plies[i].time \in DOMAIN times
         /\ times[plies[i].time].reason = "ply"
         /\ times[plies[i].time].ticking = IF plies[i].idx >= 1 THEN ToMove[plies[i].sip] ELSE "none"
         /\ \A j \in DOMAIN plies \ {i} : plies[j].time # plies[i].time

\* In a game played here a takeback is accepted and performed in one commit:
\* there are as many rollback events as accepted takebacks (accept_takeback).
TakebackAtomic ==
  ~External => CountOf(<<"takeback", "white">>, {"accept"})
                 + CountOf(<<"takeback", "black">>, {"accept"}) = Len(rollbacks)

\* The plys that are not cancelled are a legal game: indices without gap or
\* repetition, each position one ply away from the one before.
LegalLine ==
  /\ {plies[i].idx : i \in Live} = 0..(Cardinality(Live) - 1)
  /\ \A i \in Live : plies[i].idx = 0 => plies[i].sip \in Reach[StartSip]
  /\ \A i, j \in Live : plies[j].idx = plies[i].idx + 1 => plies[j].sip \in Reach[plies[i].sip]

\* The latest time row is the clock of the position: once two plys are on the
\* board it ticks for the player to move, and for nobody before that.
TicksForMover ==
  times # <<>> =>
    \A cur \in Current : LatestTime.ticking = IF cur.cnt >= 2 THEN ToMove[cur.sip] ELSE "none"

\* No two rows of the offer carry the same stamp, so that they have one order.
\* Stamps are whole seconds: two changes of an offer within one are not told apart.
ToldApart(x) == \A i, j \in DOMAIN offers[x] : i # j => offers[x][i].at # offers[x][j].at

\* The two ways the code tells an active offer, by counting its rows
\* (get_active_offers) and by its latest row (is_offer_active), disagree about
\* no offer but one that has been changed twice within one second.
OffersAgree == \A x \in Offer : ToldApart(x) => ActiveAnswers(x) = {ActiveByCount(x)}

(* What messages and names of the code say, and the code does not do *)

\* "It's not your turn": no player makes two plys in a row.
TurnsAlternate ==
  \A i, j \in LiveByRow :
    i < j /\ (\A k \in LiveByRow : k <= i \/ j <= k) => ToMove[plies[i].sip] # ToMove[plies[j].sip]

\* "Offer is not active": no draw is accepted that nobody offered.
DrawWasOffered ==
  \A c \in Color : CountOf(<<"draw", c>>, {"accept"}) <= CountOf(<<"draw", c>>, {"create"})
=============================================================================
