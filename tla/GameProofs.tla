----------------------------- MODULE GameProofs -----------------------------
(***************************************************************************)
(* Proofs about Game, for any positions, sessions and bounds.              *)
(***************************************************************************)
EXTENDS Game, SequenceTheorems, TLAPS

\* What type correctness rests on: a ply's time row, which a takeback goes back
\* to, exists.
PlyTimesExist == \A i \in DOMAIN plies : plies[i].time \in 0..Len(times)
TypeInv == TypeOK /\ PlyTimesExist

----------------------------------------------------------------------------
(* Types of the pieces *)

LEMMA NoRowType == NoRow \in TimeRow
  BY DEF NoRow, TimeRow

LEMMA InitRowType == InitRow \in TimeRow
<1> DEFINE reserves == [c \in Color |-> StartTime]
<1>1. reserves \in [Color -> Int]
  BY SettingAssumption
<1>2. InitRow = [NoRow EXCEPT !.ms = reserves, !.reason = "init"]
  BY DEF InitRow
<1> HIDE DEF reserves
<1> QED
  BY <1>1, <1>2, NoRowType DEF TimeRow

LEMMA NoJobType == NoJob \in Job
<1>1. StartSip \in Sip
  BY PositionAssumption
<1>2. <<"draw", "white">> \in Offer
  BY DEF Offer, OfferKind, Color
<1>3. "white" \in Color
  BY DEF Color
<1> QED
  BY <1>1, <1>2, <1>3, NoRowType DEF NoJob, Job

LEMMA OppositeType == \A c \in Color : Opposite(c) \in Color
  BY DEF Color, Opposite

LEMMA TimeRowTypes ==
  ASSUME TypeOK
  PROVE  LatestTime \in TimeRow /\ InitialTime \in TimeRow
  BY NoRowType, LenProperties, ElementOfSeq DEF TypeOK, LatestTime, InitialTime

LEMMA CurrentType ==
  ASSUME TypeOK, NEW cur \in Current
  PROVE  cur.sip \in Sip /\ cur.cnt \in Nat
<1>1. CASE Live = {}
  BY <1>1, PositionAssumption DEF Current
<1>2. CASE Live # {}
  <2>1. PICK i \in LastLive : cur = [sip |-> plies[i].sip, cnt |-> plies[i].idx + 1]
    BY <1>2 DEF Current
  <2>2. i \in DOMAIN plies
    BY DEF LastLive, Live, LiveByRow
  <2>3. plies[i] \in PlyRow
    BY <2>2 DEF TypeOK
  <2> QED
    BY <2>1, <2>3 DEF PlyRow
<1> QED
  BY <1>1, <1>2

\* A row charged with the time since its stamp is a row.
LEMMA PlyClockType ==
  ASSUME NEW row \in TimeRow, NEW t \in Nat, NEW cnt \in Nat, NEW c \in Color
  PROVE  PlyClock(row, t, cnt, c) \in TimeRow
<1>1. row.ms \in [Color -> Int] /\ row.ticking \in Color \cup {"none"} /\ row.at \in Nat
  BY DEF TimeRow
<1>2. Charged(row, t) \in [Color -> Int]
  BY <1>1 DEF Charged
<1>3. TickingAfterPly(cnt, c) \in Color \cup {"none"}
  BY DEF TickingAfterPly
<1> QED
  BY <1>2, <1>3, NoRowType DEF PlyClock, TimeRow

LEMMA RolledBackType ==
  ASSUME NEW row \in TimeRow, NEW keep \in Nat, NEW by \in Color
  PROVE  RolledBack(row, keep, by) \in TimeRow
  BY NoRowType DEF RolledBack, TimeRow

LEMMA TimeRowsBelowType ==
  ASSUME TypeInv, NEW keep \in Nat, NEW row \in TimeRowsBelow(keep)
  PROVE  row \in TimeRow
<1> DEFINE below == {i \in Live : plies[i].idx < keep}
           last  == {i \in below : \A j \in below : plies[j].idx <= plies[i].idx}
<1>1. CASE below = {}
  BY <1>1, TimeRowTypes DEF TypeInv, TimeRowsBelow
<1>2. CASE below # {}
  <2>1. PICK i \in last : row = IF plies[i].time = 0 THEN NoRow ELSE times[plies[i].time]
    BY <1>2 DEF TimeRowsBelow
  <2>2. i \in DOMAIN plies
    BY DEF Live, LiveByRow
  <2>3. plies[i].time \in 0..Len(times)
    BY <2>2 DEF TypeInv, PlyTimesExist
  <2>4. times \in Seq(TimeRow)
    BY DEF TypeInv, TypeOK
  <2>5. plies[i].time # 0 => plies[i].time \in 1..Len(times)
    BY <2>3, <2>4, LenProperties
  <2> QED
    BY <2>1, <2>4, <2>5, NoRowType, ElementOfSeq
<1> QED
  BY <1>1, <1>2

LEMMA JobStarts ==
  ASSUME TypeInv, NEW s \in Session, NEW j \in Job, Start(s, j)
  PROVE  TypeInv'
<1>1. job' \in [Session -> Job]
  BY DEF TypeInv, TypeOK, Start
<1> QED
  BY <1>1 DEF TypeInv, TypeOK, Start, tables, PlyTimesExist

LEMMA OfferRowsType ==
  ASSUME TypeOK, NEW cancels, NEW x, NEW action \in OfferAction \cup {"none"}, NEW t \in Nat
  PROVE  OfferRows(cancels, x, action, t) \in [Offer -> Seq(OfferRow)]
<1> SUFFICES ASSUME NEW y \in Offer
             PROVE  OfferRows(cancels, x, action, t)[y] \in Seq(OfferRow)
  BY DEF OfferRows
<1>1. offers[y] \in Seq(OfferRow)
  BY DEF TypeOK
<1>2. [action |-> "cancel", at |-> t] \in OfferRow
  BY DEF OfferRow, OfferAction
<1>3. action # "none" => [action |-> action, at |-> t] \in OfferRow
  BY DEF OfferRow
<1> QED
  BY <1>1, <1>2, <1>3, AppendProperties DEF OfferRows

LEMMA EndGameType ==
  ASSUME NEW kind \in OutcomeKind \cup {"none"}, NEW winner \in Color \cup {"none"},
         EndGame(kind, winner)
  PROVE  ended' \in EndCall
  BY DEF EndGame, EndCall

LEMMA SimpleOutcomeType ==
  ASSUME NEW sip \in Sip
  PROVE  /\ SimpleOutcome(sip).kind \in OutcomeKind \cup {"none"}
         /\ SimpleOutcome(sip).winner \in Color \cup {"none"}
<1>1. Finality[sip] \in FinalityGroup /\ ToMove[sip] \in Color
  BY PositionAssumption
<1> QED
  BY <1>1, OppositeType DEF SimpleOutcome, OutcomeKind, DrawishKind, FinalityGroup

\* Appending a row, or no row, keeps the time rows and the references to them.
LEMMA AddTimeRowType ==
  ASSUME TypeInv, NEW row \in TimeRow, AddTimeRow(row)
  PROVE  /\ times' \in Seq(TimeRow)
         /\ Len(times') \in Nat /\ Len(times) <= Len(times')
         /\ NewTimeId(row) \in 0..Len(times')
         /\ \A i \in 1..Len(times) : times'[i] = times[i]
<1>1. times \in Seq(TimeRow) /\ Len(times) \in Nat
  BY LenProperties DEF TypeInv, TypeOK
<1> QED
  BY <1>1, AppendProperties DEF AddTimeRow, NewTimeId

LEMMA AppendPlyType ==
  ASSUME TypeInv, NEW s \in Session, NEW row \in TimeRow, AppendPly(s, row)
  PROVE  TypeInv'
<1> DEFINE ply == [idx |-> job[s].cnt, sip |-> job[s].sip, cancelled |-> FALSE, time |-> NewTimeId(row)]
<1>1. job[s] \in Job
  BY DEF TypeInv, TypeOK
<1>2. /\ times' \in Seq(TimeRow)
      /\ Len(times') \in Nat /\ Len(times) <= Len(times')
      /\ NewTimeId(row) \in 0..Len(times')
  BY AddTimeRowType DEF AppendPly
<1>3. ply \in PlyRow
  BY <1>1, <1>2 DEF Job, PlyRow
<1>4. plies' = Append(plies, ply)
  BY DEF AppendPly
<1>5. plies \in Seq(PlyRow)
  BY DEF TypeInv, TypeOK
<1>6. ply.time = NewTimeId(row)
  OBVIOUS
<1> HIDE DEF ply
<1>7. plies' \in Seq(PlyRow)
  BY <1>3, <1>4, <1>5, AppendProperties
<1>8. PlyTimesExist'
  <2> SUFFICES ASSUME NEW i \in DOMAIN plies'
               PROVE  plies'[i].time \in 0..Len(times')
    BY DEF PlyTimesExist
  <2>1. DOMAIN plies' = 1..(Len(plies) + 1) /\ DOMAIN plies = 1..Len(plies) /\ Len(plies) \in Nat
    BY <1>3, <1>4, <1>5, <1>7, AppendProperties, LenProperties
  <2>2. CASE i = Len(plies) + 1
    BY <1>2, <1>3, <1>4, <1>5, <1>6, <2>2, AppendProperties
  <2>3. CASE i \in DOMAIN plies
    <3>1. plies'[i] = plies[i]
      BY <1>3, <1>4, <1>5, <2>1, <2>3, AppendProperties
    <3>2. plies[i].time \in 0..Len(times) /\ Len(times) \in Nat
      BY <2>3, LenProperties DEF TypeInv, TypeOK, PlyTimesExist
    <3> QED
      BY <1>2, <3>1, <3>2
  <2> QED
    BY <2>1, <2>2, <2>3
<1>9. ended' \in EndCall
  <2>1. job[s].sip \in Sip
    BY <1>1 DEF Job
  <2> QED
    BY <2>1, SimpleOutcomeType, EndGameType DEF AppendPly
<1>10. job' \in [Session -> Job]
  BY NoJobType DEF AppendPly, TypeInv, TypeOK
<1> QED
  BY <1>2, <1>7, <1>8, <1>9, <1>10 DEF TypeInv, TypeOK, AppendPly

\* A commit that appends offer rows and frees the session.
LEMMA JobEnds ==
  ASSUME TypeOK, NEW s \in Session, job' = [job EXCEPT ![s] = NoJob]
  PROVE  job' \in [Session -> Job]
  BY NoJobType DEF TypeOK

\* At most one request is in progress: every request that starts is answered
\* before the next one.
OneAtATime == \A r, s \in Session : r = s

\* Once a commit has freed the only session nothing is being done.
LEMMA Freed ==
  ASSUME OneAtATime, TypeInv, NEW s \in Session, job' = [job EXCEPT ![s] = NoJob]
  PROVE  \A r \in Session : job'[r] = NoJob
  BY DEF OneAtATime, TypeInv, TypeOK

LEMMA FreeStage == NoJob.stage = "idle"
  BY DEF NoJob

LEMMA Instants ==
  ASSUME TypeOK, NEW s \in Session, NEW t \in job[s].at..now
  PROVE  t \in Nat
<1>1. job[s].at \in Nat /\ now \in Nat
  BY DEF TypeOK, Job
<1> QED
  BY <1>1

\* What the handlers read and what they leave for their commits.
LEMMA ReadSteps ==
  ASSUME TypeInv, NEW s \in Session
  PROVE  /\ \A client \in Color, original \in Sip \cup {"none"}, sip \in Sip :
              ReadPly(s, client, original, sip) => TypeInv'
         /\ ReadClock(s) => TypeInv'
         /\ \A original \in Sip \cup {"none"}, sip \in Sip, declared \in Remainders \cup {<<>>} :
              ReadExternalPly(s, original, sip, declared) => TypeInv'
         /\ \A client \in Color : AcceptTakeback(s, client) => TypeInv'
         /\ \A keep \in 0..MaxPlies : ReadRollback(s, keep) => TypeInv'
         /\ \A receiver \in Color : ReadTime(s, receiver) => TypeInv'
<1> USE DEF TypeInv
<1> TypeOK
  OBVIOUS
<1>j. job[s] \in Job /\ now \in Nat
  BY DEF TypeOK
<1>1. ASSUME NEW client \in Color, NEW original \in Sip \cup {"none"}, NEW sip \in Sip,
             ReadPly(s, client, original, sip)
      PROVE  TypeInv'
  <2>1. PICK cur \in Current :
          Start(s, [NoJob EXCEPT !.stage = "ply", !.at = now, !.cnt = cur.cnt, !.sip = sip,
                                 !.cancels = {x \in Offer : ActiveByCount(x)}])
    BY <1>1 DEF ReadPly
  <2>2. [NoJob EXCEPT !.stage = "ply", !.at = now, !.cnt = cur.cnt, !.sip = sip,
                      !.cancels = {x \in Offer : ActiveByCount(x)}] \in Job
    BY <1>j, CurrentType, NoJobType DEF Job
  <2> QED
    BY <2>1, <2>2, JobStarts
<1>2. ASSUME ReadClock(s)
      PROVE  TypeInv'
  <2> DEFINE clock == PlyClock(LatestTime, job[s].at, job[s].cnt, ToMove[job[s].sip])
  <2>1. ToMove[job[s].sip] \in Color
    BY <1>j, PositionAssumption DEF Job
  <2>2. clock \in TimeRow
    BY <1>j, <2>1, TimeRowTypes, PlyClockType DEF Job
  <2>3. Start(s, [job[s] EXCEPT !.stage = "clocked", !.clock = clock])
    BY <1>2 DEF ReadClock
  <2> HIDE DEF clock
  <2>4. [job[s] EXCEPT !.stage = "clocked", !.clock = clock] \in Job
    BY <1>j, <2>2 DEF Job
  <2> QED
    BY <2>3, <2>4, JobStarts
<1>3. ASSUME NEW original \in Sip \cup {"none"}, NEW sip \in Sip,
             NEW declared \in Remainders \cup {<<>>},
             ReadExternalPly(s, original, sip, declared)
      PROVE  TypeInv'
  <2> DEFINE stage(cur) == IF declared = <<>> THEN "charge" ELSE "declared"
             clock(cur) == IF declared = <<>> THEN LatestTime
                           ELSE [ms |-> declared, ticking |-> TickingAfterPly(cur.cnt, ToMove[sip]),
                                 at |-> 0, reason |-> "ply"]
  <2>1. PICK cur \in Current :
          Start(s, [NoJob EXCEPT !.stage = stage(cur), !.at = now, !.cnt = cur.cnt, !.sip = sip,
                                 !.clock = clock(cur)])
    BY <1>3 DEF ReadExternalPly
  <2>2. clock(cur) \in TimeRow
    <3>1. TickingAfterPly(cur.cnt, ToMove[sip]) \in Color \cup {"none"}
      BY PositionAssumption DEF TickingAfterPly
    <3>2. declared # <<>> => declared \in [Color -> Int]
      BY SettingAssumption
    <3> QED
      BY <3>1, <3>2, TimeRowTypes DEF TimeRow
  <2>3. stage(cur) \in {"charge", "declared"}
    OBVIOUS
  <2> HIDE DEF stage, clock
  <2>4. [NoJob EXCEPT !.stage = stage(cur), !.at = now, !.cnt = cur.cnt, !.sip = sip,
                      !.clock = clock(cur)] \in Job
    BY <1>j, <2>2, <2>3, CurrentType, NoJobType DEF Job
  <2> QED
    BY <2>1, <2>4, JobStarts
<1>r. ASSUME NEW cnt \in Nat, NEW keep \in Nat, NEW by \in Color, NEW row \in TimeRowsBelow(keep)
      PROVE  RollbackJob(cnt, keep, by, row) \in Job
  <2>1. RolledBack(row, keep, by) \in TimeRow
    BY <1>r, TimeRowsBelowType, RolledBackType
  <2>2. {i \in Live : plies[i].idx >= keep} \in SUBSET Nat
    <3>1. DOMAIN plies \subseteq Nat
      BY LenProperties DEF TypeOK
    <3> QED
      BY <3>1 DEF Live, LiveByRow
  <2> QED
    BY <1>j, <1>r, <2>1, <2>2, NoJobType DEF RollbackJob, Job
<1>l. ASSUME NEW i \in LastLive
      PROVE  plies[i].idx \in Nat /\ ToMove[plies[i].sip] \in Color
  <2>1. plies[i] \in PlyRow
    BY ElementOfSeq, LenProperties DEF LastLive, Live, LiveByRow, TypeOK
  <2> QED
    BY <2>1, PositionAssumption DEF PlyRow
<1>4. ASSUME NEW client \in Color, AcceptTakeback(s, client)
      PROVE  TypeInv'
  <2> DEFINE author == Opposite(client)
             keep(i) == CountBeforeLastMoveOf(i, author)
  <2>1. PICK i \in LastLive : 
          /\ EnoughPlys(keep(i))
          /\ \E row \in TimeRowsBelow(keep(i)) :
             \E cancels \in SUBSET (Offer \ {<<"takeback", author>>}) :
               Start(s, [RollbackJob(plies[i].idx + 1, keep(i), author, row)
                            EXCEPT !.cancels = cancels, !.action = "accept",
                                   !.offer = <<"takeback", author>>])
    BY <1>4 DEF AcceptTakeback
  <2>2. keep(i) \in Nat /\ plies[i].idx + 1 \in Nat
    BY <2>1, <1>l DEF CountBeforeLastMoveOf, EnoughPlys
  <2>3. author \in Color
    BY OppositeType
  <2>4. <<"takeback", author>> \in Offer
    BY <2>3 DEF Offer, OfferKind
  <2> HIDE DEF author, keep
  <2>5. PICK row \in TimeRowsBelow(keep(i)), cancels \in SUBSET (Offer \ {<<"takeback", author>>}) :
          Start(s, [RollbackJob(plies[i].idx + 1, keep(i), author, row)
                      EXCEPT !.cancels = cancels, !.action = "accept",
                             !.offer = <<"takeback", author>>])
    BY <2>1
  <2>6. RollbackJob(plies[i].idx + 1, keep(i), author, row) \in Job
    BY <1>r, <2>2, <2>3
  <2>7. [RollbackJob(plies[i].idx + 1, keep(i), author, row)
           EXCEPT !.cancels = cancels, !.action = "accept", !.offer = <<"takeback", author>>] \in Job
    BY <2>4, <2>6 DEF Job, OfferAction
  <2> QED
    BY <2>5, <2>7, JobStarts
<1>5. ASSUME NEW keep \in 0..MaxPlies, ReadRollback(s, keep)
      PROVE  TypeInv'
  <2>1. PICK i \in LastLive : \E row \in TimeRowsBelow(keep) :
          Start(s, RollbackJob(plies[i].idx + 1, keep,
                     Requester(plies[i].idx + 1, keep, ToMove[plies[i].sip]), row))
    BY <1>5 DEF ReadRollback
  <2>2. Requester(plies[i].idx + 1, keep, ToMove[plies[i].sip]) \in Color
    BY <1>l, OppositeType DEF Requester
  <2>3. keep \in Nat /\ plies[i].idx + 1 \in Nat
    BY <1>l, SettingAssumption
  <2> QED
    BY <1>r, <2>1, <2>2, <2>3, JobStarts
<1>6. ASSUME NEW receiver \in Color, ReadTime(s, receiver)
      PROVE  TypeInv'
  <2> DEFINE clock == [LatestTime EXCEPT !.ms[receiver] = @ + Bonus, !.reason = "time_added"]
  <2>1. clock \in TimeRow
    <3> DEFINE ms == [LatestTime.ms EXCEPT ![receiver] = @ + Bonus]
    <3>1. LatestTime \in TimeRow
      BY TimeRowTypes
    <3>2. ms \in [Color -> Int]
      BY <3>1, SettingAssumption DEF TimeRow
    <3>3. clock = [LatestTime EXCEPT !.ms = ms, !.reason = "time_added"]
      BY <3>1 DEF TimeRow
    <3> HIDE DEF ms, clock
    <3> QED
      BY <3>1, <3>2, <3>3 DEF TimeRow
  <2>2. Start(s, [NoJob EXCEPT !.stage = "add", !.at = now, !.clock = clock])
    BY <1>6 DEF ReadTime
  <2> HIDE DEF clock
  <2>3. [NoJob EXCEPT !.stage = "add", !.at = now, !.clock = clock] \in Job
    BY <1>j, <2>1, NoJobType DEF Job
  <2> QED
    BY <2>2, <2>3, JobStarts
<1> QED
  BY <1>1, <1>2, <1>3, <1>4, <1>5, <1>6

LEMMA CommitSteps ==
  ASSUME TypeInv, NEW s \in Session
  PROVE  /\ CancelAllActiveOffers(s) => TypeInv'
         /\ TimeoutReached(s) => TypeInv'
         /\ RecordPly(s) => TypeInv'
         /\ RecordExternalPly(s) => TypeInv'
         /\ CommitOffer(s) => TypeInv'
         /\ CommitRollback(s) => TypeInv'
         /\ CommitTime(s) => TypeInv'
<1> USE DEF TypeInv
<1> TypeOK
  OBVIOUS
<1>j. job[s] \in Job
  BY DEF TypeOK
<1>1. ASSUME CancelAllActiveOffers(s)
      PROVE  TypeInv'
  <2>1. PICK t \in job[s].at..now :
          /\ offers' = OfferRows(job[s].cancels, <<"draw", "white">>, "none", t)
          /\ job' = [job EXCEPT ![s].stage = "cleared", ![s].at = t]
    BY <1>1 DEF CancelAllActiveOffers
  <2>2. t \in Nat
    BY Instants
  <2>3. offers' \in [Offer -> Seq(OfferRow)]
    BY <2>1, <2>2, OfferRowsType
  <2>4. job' \in [Session -> Job]
    <3>1. [job[s] EXCEPT !.stage = "cleared", !.at = t] \in Job
      BY <1>j, <2>2 DEF Job
    <3>2. job' = [job EXCEPT ![s] = [job[s] EXCEPT !.stage = "cleared", !.at = t]]
      BY <2>1, <1>j DEF TypeOK, Job
    <3> QED
      BY <3>1, <3>2 DEF TypeOK
  <2> QED
    BY <1>1, <2>3, <2>4 DEF CancelAllActiveOffers, TypeOK, PlyTimesExist
<1>2. ASSUME TimeoutReached(s)
      PROVE  TypeInv'
  <2>1. LatestTime.ticking \in Color
    BY <1>2, TimeRowTypes DEF TimeoutReached, FlagFallen, TimeRow
  <2>2. ended' \in EndCall
    BY <1>2, <2>1, OppositeType, EndGameType DEF TimeoutReached, OutcomeKind
  <2>3. job' \in [Session -> Job]
    BY <1>2, JobEnds DEF TimeoutReached
  <2> QED
    BY <1>2, <2>2, <2>3 DEF TimeoutReached, tables, TypeOK, PlyTimesExist
<1>3. ASSUME RecordPly(s)
      PROVE  TypeInv'
  BY <1>3, <1>j, AppendPlyType DEF RecordPly, Job
<1>4. ASSUME RecordExternalPly(s)
      PROVE  TypeInv'
  <2>1. PICK t \in job[s].at..now :
          AppendPly(s, IF job[s].stage = "charge"
                       THEN PlyClock(job[s].clock, t, job[s].cnt, ToMove[job[s].sip])
                       ELSE [job[s].clock EXCEPT !.at = t])
    BY <1>4 DEF RecordExternalPly
  <2>2. t \in Nat
    BY Instants
  <2>3. PlyClock(job[s].clock, t, job[s].cnt, ToMove[job[s].sip]) \in TimeRow
    BY <1>j, <2>2, PlyClockType, PositionAssumption DEF Job
  <2>4. [job[s].clock EXCEPT !.at = t] \in TimeRow
    BY <1>j, <2>2 DEF Job, TimeRow
  <2> QED
    BY <2>1, <2>3, <2>4, AppendPlyType
<1>5. ASSUME CommitOffer(s)
      PROVE  TypeInv'
  <2>1. PICK t \in job[s].at..now : offers' = OfferRows({}, job[s].offer, job[s].action, t)
    BY <1>5 DEF CommitOffer
  <2>2. offers' \in [Offer -> Seq(OfferRow)]
    BY <1>j, <2>1, Instants, OfferRowsType DEF Job
  <2>3. ended' \in EndCall
    BY <1>5, EndGameType DEF CommitOffer, OutcomeKind, DrawishKind, TypeOK
  <2>4. job' \in [Session -> Job]
    BY <1>5, JobEnds DEF CommitOffer
  <2> QED
    BY <1>5, <2>2, <2>3, <2>4 DEF CommitOffer, TypeOK, PlyTimesExist
<1>6. ASSUME CommitRollback(s)
      PROVE  TypeInv'
  <2>1. PICK t \in job[s].at..now :
          LET row == IF job[s].clock = NoRow THEN NoRow ELSE [job[s].clock EXCEPT !.at = t]
          IN  /\ offers' = OfferRows(job[s].cancels, job[s].offer, job[s].action, t)
              /\ AddTimeRow(row)
              /\ rollbacks' = Append(rollbacks, [before |-> job[s].cnt, after |-> job[s].keep,
                                                 by |-> job[s].by, time |-> NewTimeId(row)])
    BY <1>6 DEF CommitRollback
  <2> DEFINE row == IF job[s].clock = NoRow THEN NoRow ELSE [job[s].clock EXCEPT !.at = t]
             rollback == [before |-> job[s].cnt, after |-> job[s].keep,
                          by |-> job[s].by, time |-> NewTimeId(row)]
  <2>2. t \in Nat
    BY Instants
  <2>3. row \in TimeRow
    BY <1>j, <2>2, NoRowType DEF Job, TimeRow
  <2>4. /\ times' \in Seq(TimeRow)
        /\ Len(times') \in Nat /\ Len(times) <= Len(times')
        /\ NewTimeId(row) \in 0..Len(times')
    BY <2>1, <2>3, AddTimeRowType
  <2>5. offers' \in [Offer -> Seq(OfferRow)]
    BY <1>j, <2>1, <2>2, OfferRowsType DEF Job
  <2>6. rollbacks' \in Seq(RollbackRow)
    <3>1. rollback \in RollbackRow
      BY <1>j, <2>4 DEF Job, RollbackRow
    <3> QED
      BY <2>1, <3>1, AppendProperties DEF TypeOK
  <2>7. plies' \in Seq(PlyRow) /\ PlyTimesExist'
    <3>1. /\ plies \in [1..Len(plies) -> PlyRow] /\ DOMAIN plies = 1..Len(plies)
          /\ Len(plies) \in Nat /\ Len(times) \in Nat
      BY LenProperties DEF TypeOK
    <3>2. plies' = [i \in 1..Len(plies) |-> [plies[i] EXCEPT !.cancelled = @ \/ i \in job[s].drop]]
      BY <1>6, <3>1 DEF CommitRollback
    <3>3. \A i \in 1..Len(plies) : plies'[i] \in PlyRow /\ plies'[i].time = plies[i].time
      BY <3>1, <3>2 DEF PlyRow
    <3>4. plies' \in [1..Len(plies) -> PlyRow] /\ DOMAIN plies' = 1..Len(plies)
      BY <3>2, <3>3
    <3>5. plies' \in Seq(PlyRow)
      BY <3>1, <3>4, SeqDef
    <3> QED
      BY <2>4, <3>1, <3>3, <3>4, <3>5 DEF PlyTimesExist
  <2>8. job' \in [Session -> Job]
    BY <1>6, JobEnds DEF CommitRollback
  <2> QED
    BY <1>6, <2>4, <2>5, <2>6, <2>7, <2>8 DEF CommitRollback, TypeOK
<1>7. ASSUME CommitTime(s)
      PROVE  TypeInv'
  <2>1. PICK t \in job[s].at..now : times' = Append(times, [job[s].clock EXCEPT !.at = t])
    BY <1>7 DEF CommitTime
  <2>2. [job[s].clock EXCEPT !.at = t] \in TimeRow
    BY <1>j, Instants DEF Job, TimeRow
  <2>3. times \in Seq(TimeRow) /\ Len(times) \in Nat
    BY LenProperties DEF TypeOK
  <2>4. times' \in Seq(TimeRow) /\ Len(times') = Len(times) + 1
    BY <2>1, <2>2, <2>3, AppendProperties
  <2>5. PlyTimesExist'
    BY <1>7, <2>3, <2>4 DEF CommitTime, PlyTimesExist
  <2>6. job' \in [Session -> Job]
    BY <1>7, JobEnds DEF CommitTime
  <2> QED
    BY <1>7, <2>4, <2>5, <2>6 DEF CommitTime, TypeOK
<1> QED
  BY <1>1, <1>2, <1>3, <1>4, <1>5, <1>6, <1>7

LEMMA TypeInit == Init => TypeInv
<1> SUFFICES ASSUME Init PROVE TypeInv
  OBVIOUS
<1>1. plies \in Seq(PlyRow) /\ DOMAIN plies = {} /\ rollbacks \in Seq(RollbackRow)
  BY EmptySeq, LenProperties DEF Init
<1>2. times \in Seq(TimeRow)
  BY EmptySeq, InitRowType DEF Init
<1>3. offers \in [Offer -> Seq(OfferRow)]
  BY EmptySeq DEF Init
<1>4. job \in [Session -> Job]
  BY NoJobType DEF Init
<1>5. ended \in EndCall
  BY DEF Init, EndCall
<1> QED
  BY <1>1, <1>2, <1>3, <1>4, <1>5 DEF Init, TypeInv, TypeOK, PlyTimesExist

LEMMA TypeStep == TypeInv /\ [Next]_vars => TypeInv'
<1> SUFFICES ASSUME TypeInv, [Next]_vars PROVE TypeInv'
  OBVIOUS
<1>1. CASE UNCHANGED vars
  BY <1>1 DEF vars, TypeInv, TypeOK, PlyTimesExist
<1>2. CASE Tick
  BY <1>2 DEF Tick, tables, TypeInv, TypeOK, PlyTimesExist
<1>3. ASSUME NEW s \in Session, Step(s)
      PROVE  TypeInv'
  <2> TypeOK
    BY DEF TypeInv
  <2>o. ASSUME NEW x \in Offer, NEW action \in OfferAction, StartOffer(s, x, action)
        PROVE  TypeInv'
    <3>1. [NoJob EXCEPT !.stage = "offer", !.at = now, !.offer = x, !.action = action] \in Job
      BY NoJobType DEF Job, TypeOK
    <3> QED
      BY <2>o, <3>1, JobStarts DEF StartOffer
  <2>f. \A kind \in OfferKind, c \in Color : <<kind, c>> \in Offer /\ <<kind, Opposite(c)>> \in Offer
    BY OppositeType DEF Offer
  <2>a. {"draw", "takeback"} = OfferKind /\ OfferAction = {"create", "cancel", "accept", "decline"}
    BY DEF OfferKind, OfferAction
  <2>1. ASSUME NEW client \in Color, CreateTakeback(s, client)
        PROVE  TypeInv'
    BY <2>1, <2>o, <2>f, <2>a DEF CreateTakeback
  <2>2. ASSUME NEW client \in Color, CreateDraw(s, client)
        PROVE  TypeInv'
    BY <2>2, <2>o, <2>f, <2>a DEF CreateDraw
  <2>3. ASSUME NEW client \in Color, NEW action \in {"cancel", "decline", "accept"},
               NEW kind \in OfferKind, AnswerOffer(s, client, action, kind)
        PROVE  TypeInv'
    BY <2>3, <2>o, <2>f, <2>a DEF AnswerOffer
  <2>4. ASSUME NEW client \in Color, VoidTakeback(s, client)
        PROVE  TypeInv'
    BY <2>4, <2>o, <2>f, <2>a DEF VoidTakeback
  <2>5. ASSUME NEW client \in Color, Resign(s, client)
        PROVE  TypeInv'
    <3>1. ended' \in EndCall
      BY <2>5, OppositeType, EndGameType DEF Resign, OutcomeKind, DrawishKind
    <3> QED
      BY <2>5, <3>1 DEF Resign, tables, TypeInv, TypeOK, PlyTimesExist
  <2>6. ASSUME NEW kind \in {"abort", "abandon", "draw_agreement", "resign"},
               NEW winner \in Color \cup {"none"}, EndExternal(s, kind, winner)
        PROVE  TypeInv'
    <3>1. ended' \in EndCall
      BY <2>6, EndGameType DEF EndExternal, OutcomeKind, DrawishKind
    <3> QED
      BY <2>6, <3>1 DEF EndExternal, tables, TypeInv, TypeOK, PlyTimesExist
  <2>7. ASSUME Abort(s)
        PROVE  TypeInv'
    BY <2>7, NoJobType, JobStarts DEF Abort
  <2> QED
    BY <1>3, ReadSteps, CommitSteps, <2>1, <2>2, <2>3, <2>4, <2>5, <2>6, <2>7 DEF Step
<1> QED
  BY <1>1, <1>2, <1>3 DEF Next

\* Every row and every job of a game has its type, whatever requests run at the
\* same time (the tables of src/game/models).
THEOREM TypeCorrect == Spec => []TypeOK
<1>1. Spec => []TypeInv
  BY TypeInit, TypeStep, PTL DEF Spec
<1> QED
  BY <1>1, PTL DEF TypeInv

----------------------------------------------------------------------------
(* What the steps of a request do to the plys *)

\* The stages of a request that is going to record a ply.
PlyStages == {"ply", "cleared", "clocked", "charge", "declared"}

\* What a request that records a ply has read of the position.
ReadsPosition(j) ==
  j.stage \in PlyStages => \E cur \in Current : j.cnt = cur.cnt /\ j.sip \in Reach[cur.sip]

\* What a rollback has read of the plys.
ReadsPlys(j) ==
  j.stage = "rollback" =>
    /\ \E i \in LastLive : j.keep <= plies[i].idx
    /\ j.drop = {i \in Live : plies[i].idx >= j.keep}

\* A step that records no ply and rolls none back leaves a job that has read the
\* current plys, or goes on with the ply it had.
LeavesPlies(s) ==
  /\ UNCHANGED plies
  /\ \A r \in Session \ {s} : job'[r] = job[r]
  /\ ReadsPlys(job'[s])
  /\ \/ ReadsPosition(job'[s])
     \/ job[s].stage \in PlyStages /\ job'[s].cnt = job[s].cnt /\ job'[s].sip = job[s].sip

RecordsPly(s) == job[s].stage \in PlyStages /\ \E row \in TimeRow : AppendPly(s, row)

LEMMA NoJobReads == ReadsPosition(NoJob) /\ ReadsPlys(NoJob)
  BY DEF ReadsPosition, ReadsPlys, NoJob, PlyStages

LEMMA LeavesStarting ==
  ASSUME TypeInv, NEW s \in Session, NEW j, Start(s, j), ReadsPosition(j), ReadsPlys(j)
  PROVE  LeavesPlies(s)
  BY DEF Start, tables, LeavesPlies, TypeInv, TypeOK

LEMMA LeavesEnding ==
  ASSUME TypeInv, UNCHANGED plies, NEW s \in Session,
         UNCHANGED job \/ job' = [job EXCEPT ![s] = NoJob]
  PROVE  LeavesPlies(s) \/ UNCHANGED <<plies, job>>
  BY NoJobReads DEF LeavesPlies, TypeInv, TypeOK

LEMMA PlyReads ==
  ASSUME TypeInv, NEW s \in Session
  PROVE  /\ \A client \in Color, original \in Sip \cup {"none"}, sip \in Sip :
              ReadPly(s, client, original, sip) => LeavesPlies(s)
         /\ ReadClock(s) => LeavesPlies(s)
         /\ \A original \in Sip \cup {"none"}, sip \in Sip, declared \in Remainders \cup {<<>>} :
              ReadExternalPly(s, original, sip, declared) => LeavesPlies(s)
         /\ \A client \in Color : AcceptTakeback(s, client) => LeavesPlies(s)
         /\ \A keep \in 0..MaxPlies : ReadRollback(s, keep) => LeavesPlies(s)
         /\ \A receiver \in Color : ReadTime(s, receiver) => LeavesPlies(s)
<1>j. job[s] \in Job /\ job \in [Session -> Job]
  BY DEF TypeInv, TypeOK
<1>p. \A i \in LastLive : plies[i].idx \in Nat
  <2>1. \A i \in LastLive : i \in DOMAIN plies
    BY DEF LastLive, Live, LiveByRow
  <2>2. \A i \in DOMAIN plies : plies[i] \in PlyRow
    BY ElementOfSeq, LenProperties DEF TypeInv, TypeOK
  <2> QED
    BY <2>1, <2>2 DEF PlyRow
<1>1. ASSUME NEW client \in Color, NEW original \in Sip \cup {"none"}, NEW sip \in Sip,
             ReadPly(s, client, original, sip)
      PROVE  LeavesPlies(s)
  <2>1. PICK cur \in Current :
          /\ sip \in Reach[cur.sip]
          /\ Start(s, [NoJob EXCEPT !.stage = "ply", !.at = now, !.cnt = cur.cnt, !.sip = sip,
                                    !.cancels = {x \in Offer : ActiveByCount(x)}])
    BY <1>1 DEF ReadPly, CanPly
  <2> QED
    BY <2>1, LeavesStarting DEF ReadsPosition, ReadsPlys, NoJob, PlyStages
<1>2. ASSUME ReadClock(s)
      PROVE  LeavesPlies(s)
  <2> DEFINE clock == PlyClock(LatestTime, job[s].at, job[s].cnt, ToMove[job[s].sip])
             j     == [job[s] EXCEPT !.stage = "clocked", !.clock = clock]
  <2>1. job[s].stage = "cleared" /\ job' = [job EXCEPT ![s] = j] /\ UNCHANGED plies
    BY <1>2 DEF ReadClock, Start, tables
  <2> HIDE DEF clock
  <2>2. j.stage = "clocked" /\ j.cnt = job[s].cnt /\ j.sip = job[s].sip
    BY <1>j DEF Job
  <2> HIDE DEF j
  <2> QED
    BY <1>j, <2>1, <2>2 DEF LeavesPlies, ReadsPlys, PlyStages
<1>3. ASSUME NEW original \in Sip \cup {"none"}, NEW sip \in Sip,
             NEW declared \in Remainders \cup {<<>>},
             ReadExternalPly(s, original, sip, declared)
      PROVE  LeavesPlies(s)
  <2> DEFINE stage(cur) == IF declared = <<>> THEN "charge" ELSE "declared"
             clock(cur) == IF declared = <<>> THEN LatestTime
                           ELSE [ms |-> declared, ticking |-> TickingAfterPly(cur.cnt, ToMove[sip]),
                                 at |-> 0, reason |-> "ply"]
  <2>1. PICK cur \in Current :
          /\ sip \in Reach[cur.sip]
          /\ Start(s, [NoJob EXCEPT !.stage = stage(cur), !.at = now, !.cnt = cur.cnt, !.sip = sip,
                                    !.clock = clock(cur)])
    BY <1>3 DEF ReadExternalPly, CanPly
  <2>2. stage(cur) # "rollback"
    OBVIOUS
  <2> HIDE DEF stage, clock
  <2> QED
    BY <2>1, <2>2, LeavesStarting DEF ReadsPosition, ReadsPlys, NoJob
<1>r. ASSUME NEW cnt, NEW keep, NEW by, NEW row, NEW i \in LastLive, keep <= plies[i].idx,
             NEW cancels, NEW action, NEW x
      PROVE  LET j == RollbackJob(cnt, keep, by, row)
                 k == [j EXCEPT !.cancels = cancels, !.action = action, !.offer = x]
             IN  /\ ReadsPosition(j) /\ ReadsPlys(j)
                 /\ ReadsPosition(k) /\ ReadsPlys(k)
  <2> DEFINE j == RollbackJob(cnt, keep, by, row)
             k == [j EXCEPT !.cancels = cancels, !.action = action, !.offer = x]
  <2>1. /\ j.stage = "rollback" /\ j.keep = keep
        /\ j.drop = {i1 \in Live : plies[i1].idx >= keep}
        /\ k.stage = "rollback" /\ k.keep = keep /\ k.drop = j.drop
    BY DEF RollbackJob, NoJob
  <2> HIDE DEF j, k
  <2>2. /\ ReadsPosition(j) /\ ReadsPlys(j) /\ ReadsPosition(k) /\ ReadsPlys(k)
    BY <1>r, <2>1 DEF ReadsPosition, ReadsPlys, PlyStages
  <2> QED
    BY <2>2 DEF j, k
<1>4. ASSUME NEW client \in Color, AcceptTakeback(s, client)
      PROVE  LeavesPlies(s)
  <2> DEFINE author == Opposite(client)
             keep(i) == CountBeforeLastMoveOf(i, author)
  <2>1. PICK i \in LastLive : \E row \in TimeRowsBelow(keep(i)) :
             \E cancels \in SUBSET (Offer \ {<<"takeback", author>>}) :
               Start(s, [RollbackJob(plies[i].idx + 1, keep(i), author, row)
                            EXCEPT !.cancels = cancels, !.action = "accept",
                                   !.offer = <<"takeback", author>>])
    BY <1>4 DEF AcceptTakeback
  <2>2. keep(i) <= plies[i].idx
    BY <1>p DEF CountBeforeLastMoveOf
  <2> HIDE DEF author, keep
  <2>3. PICK row, cancels :
          Start(s, [RollbackJob(plies[i].idx + 1, keep(i), author, row)
                      EXCEPT !.cancels = cancels, !.action = "accept",
                             !.offer = <<"takeback", author>>])
    BY <2>1
  <2> DEFINE j == [RollbackJob(plies[i].idx + 1, keep(i), author, row)
                     EXCEPT !.cancels = cancels, !.action = "accept",
                            !.offer = <<"takeback", author>>]
  <2>4. ReadsPosition(j) /\ ReadsPlys(j)
    BY <1>r, <2>2
  <2>5. Start(s, j)
    BY <2>3
  <2> HIDE DEF j
  <2> QED
    BY <2>4, <2>5, LeavesStarting
<1>5. ASSUME NEW keep \in 0..MaxPlies, ReadRollback(s, keep)
      PROVE  LeavesPlies(s)
  <2>1. PICK i \in LastLive :
          /\ keep < plies[i].idx + 1
          /\ \E row \in TimeRowsBelow(keep) :
               Start(s, RollbackJob(plies[i].idx + 1, keep,
                          Requester(plies[i].idx + 1, keep, ToMove[plies[i].sip]), row))
    BY <1>5 DEF ReadRollback
  <2>2. keep <= plies[i].idx
    BY <1>p, <2>1, SettingAssumption
  <2> QED
    BY <1>r, <2>1, <2>2, LeavesStarting
<1>6. ASSUME NEW receiver \in Color, ReadTime(s, receiver)
      PROVE  LeavesPlies(s)
  <2> DEFINE clock == [LatestTime EXCEPT !.ms[receiver] = @ + Bonus, !.reason = "time_added"]
  <2>1. Start(s, [NoJob EXCEPT !.stage = "add", !.at = now, !.clock = clock])
    BY <1>6 DEF ReadTime
  <2> HIDE DEF clock
  <2> QED
    BY <2>1, LeavesStarting DEF ReadsPosition, ReadsPlys, NoJob, PlyStages
<1> QED
  BY <1>1, <1>2, <1>3, <1>4, <1>5, <1>6

\* Every step of a request records a ply, rolls plys back, or leaves them.
LEMMA PlySteps ==
  ASSUME TypeInv, NEW s \in Session, Step(s)
  PROVE  \/ LeavesPlies(s) \/ UNCHANGED <<plies, job>>
         \/ RecordsPly(s)
         \/ CommitRollback(s)
<1> DEFINE Goal == \/ LeavesPlies(s) \/ UNCHANGED <<plies, job>>
                   \/ RecordsPly(s)
                   \/ CommitRollback(s)
<1>j. job[s] \in Job /\ job \in [Session -> Job]
  BY DEF TypeInv, TypeOK
<1>o. ASSUME NEW x, NEW action, StartOffer(s, x, action)
      PROVE  LeavesPlies(s)
  BY <1>o, LeavesStarting DEF StartOffer, ReadsPosition, ReadsPlys, NoJob, PlyStages
<1>1. /\ \A client \in Color : CreateTakeback(s, client) => LeavesPlies(s)
      /\ \A client \in Color : CreateDraw(s, client) => LeavesPlies(s)
      /\ \A client \in Color, action \in {"cancel", "decline", "accept"}, kind \in OfferKind :
           AnswerOffer(s, client, action, kind) => LeavesPlies(s)
      /\ \A client \in Color : VoidTakeback(s, client) => LeavesPlies(s)
  BY <1>o DEF CreateTakeback, CreateDraw, AnswerOffer, VoidTakeback
<1>2. ASSUME CancelAllActiveOffers(s)
      PROVE  LeavesPlies(s)
  <2>1. PICK t : job' = [job EXCEPT ![s].stage = "cleared", ![s].at = t]
    BY <1>2 DEF CancelAllActiveOffers
  <2>2. /\ job'[s].stage = "cleared" /\ job'[s].cnt = job[s].cnt /\ job'[s].sip = job[s].sip
        /\ \A r \in Session \ {s} : job'[r] = job[r]
    BY <1>j, <2>1 DEF Job
  <2> QED
    BY <1>2, <2>2 DEF CancelAllActiveOffers, LeavesPlies, ReadsPlys, PlyStages
<1>3. ASSUME RecordPly(s)
      PROVE  RecordsPly(s)
  BY <1>3, <1>j DEF RecordPly, RecordsPly, PlyStages, Job
<1>4. ASSUME RecordExternalPly(s)
      PROVE  RecordsPly(s)
  <2>1. PICK t \in job[s].at..now :
          AppendPly(s, IF job[s].stage = "charge"
                       THEN PlyClock(job[s].clock, t, job[s].cnt, ToMove[job[s].sip])
                       ELSE [job[s].clock EXCEPT !.at = t])
    BY <1>4 DEF RecordExternalPly
  <2>2. t \in Nat
    BY Instants DEF TypeInv
  <2>3. PlyClock(job[s].clock, t, job[s].cnt, ToMove[job[s].sip]) \in TimeRow
    BY <1>j, <2>2, PlyClockType, PositionAssumption DEF Job
  <2>4. [job[s].clock EXCEPT !.at = t] \in TimeRow
    BY <1>j, <2>2 DEF Job, TimeRow
  <2> QED
    BY <1>4, <2>1, <2>3, <2>4 DEF RecordExternalPly, RecordsPly, PlyStages
<1>5. /\ TimeoutReached(s) => Goal
      /\ CommitOffer(s) => Goal
      /\ CommitTime(s) => Goal
      /\ \A client \in Color : Resign(s, client) => Goal
      /\ \A kind, winner : EndExternal(s, kind, winner) => Goal
      /\ Abort(s) => Goal
  BY LeavesEnding DEF TimeoutReached, CommitOffer, CommitTime, Resign, EndExternal, Abort, Start, tables
<1> QED
  BY PlyReads, <1>1, <1>2, <1>3, <1>4, <1>5 DEF Step
=============================================================================
