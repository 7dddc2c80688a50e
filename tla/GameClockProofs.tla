--------------------------- MODULE GameClockProofs ---------------------------
(***************************************************************************)
(* The clock of a game: each ply starts the clock of the player to move,   *)
(* and no reserve recorded by a game played here is used up.               *)
(***************************************************************************)
EXTENDS GameProofs

\* A row that is there exactly if the game has a time control.
RowOfGame(row) == IF Fischer THEN row.reason # "none" ELSE row = NoRow

RowOfPly(row, cnt, sip) ==
  IF Fischer THEN row.reason = "ply" /\ row.ticking = TickingAfterPly(cnt, ToMove[sip])
  ELSE row = NoRow

\* What a job is going to write is a row of the game, and a row of its ply.
JobClockOK(j) ==
  /\ j.stage \in {"charge", "rollback", "add"} => RowOfGame(j.clock)
  /\ j.stage \in {"clocked", "declared"} => RowOfPly(j.clock, j.cnt, j.sip)
  /\ j.stage \in {"add", "declared"} => Fischer

ClockInv ==
  /\ (times = <<>>) <=> ~Fischer
  /\ \A i \in DOMAIN times : times[i].reason # "none"
  /\ \A s \in Session : JobClockOK(job[s])
  /\ PlyStartsItsClock

----------------------------------------------------------------------------
(* Jobs *)

LEMMA NoJobClock == JobClockOK(NoJob)
  BY DEF JobClockOK, NoJob

LEMMA JobClocksKept ==
  ASSUME TypeInv, ClockInv, NEW s \in Session, NEW j, JobClockOK(j),
         job' = [job EXCEPT ![s] = j]
  PROVE  \A r \in Session : JobClockOK(job[r])'
<1> SUFFICES ASSUME NEW r \in Session PROVE JobClockOK(job'[r])
  BY DEF JobClockOK, RowOfGame, RowOfPly
<1> QED
  BY DEF ClockInv, TypeInv, TypeOK

LEMMA ClockStarts ==
  ASSUME TypeInv, ClockInv, NEW s \in Session, NEW j, JobClockOK(j), Start(s, j)
  PROVE  ClockInv'
<1>1. UNCHANGED <<times, plies>> /\ job' = [job EXCEPT ![s] = j]
  BY DEF Start, tables
<1>2. \A r \in Session : JobClockOK(job[r])'
  BY <1>1, JobClocksKept
<1> QED
  BY <1>1, <1>2 DEF ClockInv, PlyStartsItsClock

----------------------------------------------------------------------------
(* Rows *)

LEMMA LatestRowOfGame ==
  ASSUME TypeInv, ClockInv
  PROVE  RowOfGame(LatestTime) /\ RowOfGame(InitialTime)
<1>1. DOMAIN times = 1..Len(times) /\ Len(times) \in Nat
  BY LenProperties DEF TypeInv, TypeOK
<1>2. CASE Fischer
  <2>1. times # <<>>
    BY <1>2 DEF ClockInv
  <2>2. 1 \in DOMAIN times /\ Len(times) \in DOMAIN times
    BY <1>1, <2>1, EmptySeq DEF TypeInv, TypeOK
  <2> QED
    BY <1>2, <2>1, <2>2 DEF ClockInv, LatestTime, InitialTime, RowOfGame
<1>3. CASE ~Fischer
  BY <1>3 DEF ClockInv, LatestTime, InitialTime, RowOfGame
<1> QED
  BY <1>2, <1>3

LEMMA RowsBelowOfGame ==
  ASSUME TypeInv, ClockInv, NEW keep \in Nat, NEW row \in TimeRowsBelow(keep)
  PROVE  RowOfGame(row)
<1> DEFINE below == {i \in Live : plies[i].idx < keep}
           last  == {i \in below : \A j \in below : plies[j].idx <= plies[i].idx}
<1>1. CASE below = {}
  BY <1>1, LatestRowOfGame DEF TimeRowsBelow
<1>2. CASE below # {}
  <2>1. PICK i \in last : row = IF plies[i].time = 0 THEN NoRow ELSE times[plies[i].time]
    BY <1>2 DEF TimeRowsBelow
  <2>2. i \in DOMAIN plies
    BY DEF Live, LiveByRow
  <2>3. ((plies[i].time # 0) <=> Fischer) /\ (Fischer => plies[i].time \in DOMAIN times)
    BY <2>2 DEF ClockInv, PlyStartsItsClock
  <2> QED
    BY <2>1, <2>3, SettingAssumption DEF ClockInv, RowOfGame
<1> QED
  BY <1>1, <1>2

LEMMA RolledBackOfGame ==
  ASSUME NEW row \in TimeRow, RowOfGame(row), NEW keep \in Nat, NEW by \in Color
  PROVE  RowOfGame(RolledBack(row, keep, by))
  BY DEF RowOfGame, RolledBack, NoRow, TimeRow

\* A ply's row is a row of that ply: it is not charged when there is no clock.
LEMMA PlyClockOfPly ==
  ASSUME NEW row \in TimeRow, RowOfGame(row), NEW t \in Nat, NEW cnt \in Nat, NEW sip \in Sip
  PROVE  RowOfPly(PlyClock(row, t, cnt, ToMove[sip]), cnt, sip)
<1>1. CASE Fischer
  <2>1. row # NoRow
    BY <1>1 DEF RowOfGame, NoRow
  <2> QED
    BY <1>1, <2>1 DEF PlyClock, RowOfPly
<1>2. CASE ~Fischer
  BY <1>2 DEF PlyClock, RowOfPly, RowOfGame
<1> QED
  BY <1>1, <1>2

----------------------------------------------------------------------------
(* Commits *)

\* Appending a row of the game, or none in a game without a clock.
LEMMA RowAppended ==
  ASSUME TypeInv, ClockInv, NEW row \in TimeRow, RowOfGame(row), AddTimeRow(row)
  PROVE  /\ (times' = <<>>) <=> ~Fischer
         /\ \A i \in DOMAIN times' : times'[i].reason # "none"
         /\ DOMAIN times \subseteq DOMAIN times'
         /\ \A i \in DOMAIN times : times'[i] = times[i]
<1>1. times \in Seq(TimeRow) /\ DOMAIN times = 1..Len(times) /\ Len(times) \in Nat
  BY LenProperties DEF TypeInv, TypeOK
<1>2. CASE row = NoRow
  BY <1>2 DEF AddTimeRow, ClockInv
<1>3. CASE row # NoRow
  <2>1. times' = Append(times, row) /\ Fischer
    BY <1>3 DEF AddTimeRow, RowOfGame
  <2>2. /\ times' \in Seq(TimeRow) /\ times' # <<>> /\ Len(times') = Len(times) + 1
        /\ \A i \in 1..Len(times) : times'[i] = times[i]
        /\ times'[Len(times) + 1] = row
    BY <1>1, <2>1, AppendProperties
  <2>3. DOMAIN times' = 1..(Len(times) + 1)
    BY <2>2, LenProperties
  <2> QED
    BY <1>1, <2>1, <2>2, <2>3 DEF ClockInv, RowOfGame
<1> QED
  BY <1>2, <1>3

\* What holds of the plys still holds when rows are only added.
LEMMA PlyClocksKept ==
  ASSUME TypeInv, ClockInv,
         DOMAIN times \subseteq DOMAIN times', \A i \in DOMAIN times : times'[i] = times[i],
         DOMAIN plies' = DOMAIN plies,
         \A i \in DOMAIN plies : plies'[i].time = plies[i].time /\ plies'[i].idx = plies[i].idx
                                 /\ plies'[i].sip = plies[i].sip
  PROVE  PlyStartsItsClock'
<1> SUFFICES ASSUME NEW i \in DOMAIN plies
             PROVE  /\ (plies[i].time # 0) <=> Fischer
                    /\ Fischer =>
                         /\ plies[i].time \in DOMAIN times'
                         /\ times'[plies[i].time].reason = "ply"
                         /\ times'[plies[i].time].ticking
                              = IF plies[i].idx >= 1 THEN ToMove[plies[i].sip] ELSE "none"
                         /\ \A j \in DOMAIN plies \ {i} : plies[j].time # plies[i].time
  BY DEF PlyStartsItsClock
<1> QED
  BY DEF ClockInv, PlyStartsItsClock

LEMMA JobFreed ==
  ASSUME TypeInv, ClockInv, NEW s \in Session, job' = [job EXCEPT ![s] = NoJob]
  PROVE  \A r \in Session : JobClockOK(job[r])'
  BY NoJobClock, JobClocksKept

\* The row of a ply is new, so no other ply has it.
LEMMA PlyRecorded ==
  ASSUME TypeInv, ClockInv, NEW s \in Session, NEW row \in TimeRow,
         RowOfPly(row, job[s].cnt, job[s].sip), AppendPly(s, row)
  PROVE  ClockInv'
<1> DEFINE ply == [idx |-> job[s].cnt, sip |-> job[s].sip, cancelled |-> FALSE, time |-> NewTimeId(row)]
           n   == Len(plies) + 1
<1>1. job[s] \in Job /\ times \in Seq(TimeRow) /\ plies \in Seq(PlyRow)
  BY DEF TypeInv, TypeOK
<1>2. ply \in PlyRow
  BY <1>1, AddTimeRowType, LenProperties DEF PlyRow, Job, NewTimeId
<1>3. plies' = Append(plies, ply) /\ AddTimeRow(row) /\ job' = [job EXCEPT ![s] = NoJob]
  BY DEF AppendPly
<1>4. /\ ply.time = NewTimeId(row) /\ ply.idx = job[s].cnt /\ ply.sip = job[s].sip
  OBVIOUS
<1> HIDE DEF ply
<1>5. /\ DOMAIN plies = 1..Len(plies) /\ Len(plies) \in Nat
      /\ DOMAIN plies' = 1..n /\ plies'[n] = ply
      /\ \A i \in DOMAIN plies : plies'[i] = plies[i]
  BY <1>1, <1>2, <1>3, AppendProperties, LenProperties
<1>6. RowOfGame(row)
  BY DEF RowOfPly, RowOfGame
<1>7. /\ (times' = <<>>) <=> ~Fischer
      /\ \A i \in DOMAIN times' : times'[i].reason # "none"
      /\ DOMAIN times \subseteq DOMAIN times'
      /\ \A i \in DOMAIN times : times'[i] = times[i]
  BY <1>3, <1>6, RowAppended
<1>8. \A r \in Session : JobClockOK(job[r])'
  BY <1>3, JobFreed
<1>9. ASSUME NEW i \in DOMAIN plies'
      PROVE  /\ (plies'[i].time # 0) <=> Fischer
             /\ Fischer =>
                  /\ plies'[i].time \in DOMAIN times'
                  /\ times'[plies'[i].time].reason = "ply"
                  /\ times'[plies'[i].time].ticking
                       = IF plies'[i].idx >= 1 THEN ToMove[plies'[i].sip] ELSE "none"
                  /\ \A j \in DOMAIN plies' \ {i} : plies'[j].time # plies'[i].time
  <2>1. CASE ~Fischer
    <3>1. row = NoRow
      BY <2>1 DEF RowOfPly
    <3>2. ply.time = 0
      BY <1>4, <3>1 DEF NewTimeId
    <3> QED
      BY <1>5, <2>1, <3>2 DEF ClockInv, PlyStartsItsClock
  <2>2. CASE Fischer
    <3>1. row # NoRow /\ row.reason = "ply" /\ row.ticking = TickingAfterPly(job[s].cnt, ToMove[job[s].sip])
      BY <2>2 DEF RowOfPly, NoRow
    <3>2. ply.time = Len(times) + 1 /\ times' = Append(times, row)
      BY <1>3, <1>4, <3>1 DEF NewTimeId, AddTimeRow
    <3>3. /\ DOMAIN times = 1..Len(times) /\ Len(times) \in Nat
          /\ DOMAIN times' = 1..(Len(times) + 1) /\ times'[Len(times) + 1] = row
      BY <1>1, <3>2, AppendProperties, LenProperties
    <3>4. \A j \in DOMAIN plies : plies[j].time \in DOMAIN times /\ plies[j].time # ply.time
      BY <2>2, <3>2, <3>3 DEF ClockInv, PlyStartsItsClock
    <3>5. CASE i = n
      BY <1>4, <1>5, <2>2, <3>1, <3>2, <3>3, <3>4, <3>5 DEF TickingAfterPly
    <3>6. CASE i \in DOMAIN plies
      <4>1. plies'[i] = plies[i] /\ times'[plies[i].time] = times[plies[i].time]
        BY <1>5, <1>7, <3>4, <3>6
      <4>2. \A j \in DOMAIN plies' \ {i} : plies'[j].time # plies'[i].time
        BY <1>5, <2>2, <3>4, <3>6 DEF ClockInv, PlyStartsItsClock
      <4> QED
        BY <1>7, <2>2, <3>6, <4>1, <4>2 DEF ClockInv, PlyStartsItsClock
    <3> QED
      BY <1>5, <3>5, <3>6
  <2> QED
    BY <2>1, <2>2
<1>10. PlyStartsItsClock'
  BY <1>9 DEF PlyStartsItsClock
<1> QED
  BY <1>7, <1>8, <1>10 DEF ClockInv

LEMMA ClockInit == Init => ClockInv
<1> SUFFICES ASSUME Init PROVE ClockInv
  OBVIOUS
<1>1. DOMAIN plies = {} /\ ((times = <<>>) <=> ~Fischer)
  BY InitRowType, EmptySeq, SettingAssumption DEF Init
<1>2. \A i \in DOMAIN times : times[i].reason # "none"
  <2>1. InitRow.reason = "init"
    BY DEF InitRow, NoRow
  <2>2. times = <<>> \/ times = <<InitRow>>
    BY DEF Init
  <2> QED
    BY <2>1, <2>2
<1>3. \A s \in Session : JobClockOK(job[s])
  BY NoJobClock DEF Init
<1> QED
  BY <1>1, <1>2, <1>3 DEF ClockInv, PlyStartsItsClock

\* A handler that reads leaves a job that will write the right row.
LEMMA ClockReads ==
  ASSUME TypeInv, ClockInv, NEW s \in Session
  PROVE  /\ \A client \in Color, original \in Sip \cup {"none"}, sip \in Sip :
              ReadPly(s, client, original, sip) => ClockInv'
         /\ ReadClock(s) => ClockInv'
         /\ \A original \in Sip \cup {"none"}, sip \in Sip, declared \in Remainders \cup {<<>>} :
              ReadExternalPly(s, original, sip, declared) => ClockInv'
         /\ \A client \in Color : AcceptTakeback(s, client) => ClockInv'
         /\ \A keep \in 0..MaxPlies : ReadRollback(s, keep) => ClockInv'
         /\ \A receiver \in Color : ReadTime(s, receiver) => ClockInv'
<1> TypeOK
  BY DEF TypeInv
<1>j. job[s] \in Job
  BY DEF TypeOK
<1>1. ASSUME NEW client \in Color, NEW original \in Sip \cup {"none"}, NEW sip \in Sip,
             ReadPly(s, client, original, sip)
      PROVE  ClockInv'
  <2>1. PICK cur \in Current :
          Start(s, [NoJob EXCEPT !.stage = "ply", !.at = now, !.cnt = cur.cnt, !.sip = sip,
                                 !.cancels = {x \in Offer : ActiveByCount(x)}])
    BY <1>1 DEF ReadPly
  <2> QED
    BY <2>1, ClockStarts DEF JobClockOK, NoJob
<1>2. ASSUME ReadClock(s)
      PROVE  ClockInv'
  <2> DEFINE clock == PlyClock(LatestTime, job[s].at, job[s].cnt, ToMove[job[s].sip])
             j     == [job[s] EXCEPT !.stage = "clocked", !.clock = clock]
  <2>1. RowOfPly(clock, job[s].cnt, job[s].sip)
    BY <1>j, LatestRowOfGame, TimeRowTypes, PlyClockOfPly DEF Job
  <2>2. Start(s, j)
    BY <1>2 DEF ReadClock
  <2> HIDE DEF clock
  <2>3. j.stage = "clocked" /\ j.clock = clock /\ j.cnt = job[s].cnt /\ j.sip = job[s].sip
    BY <1>j DEF Job
  <2> QED
    BY <2>1, <2>2, <2>3, ClockStarts DEF JobClockOK
<1>3. ASSUME NEW original \in Sip \cup {"none"}, NEW sip \in Sip,
             NEW declared \in Remainders \cup {<<>>},
             ReadExternalPly(s, original, sip, declared)
      PROVE  ClockInv'
  <2>1. PICK cur \in Current :
          /\ declared # <<>> => Fischer
          /\ Start(s, [NoJob EXCEPT !.stage = IF declared = <<>> THEN "charge" ELSE "declared",
                         !.at = now, !.cnt = cur.cnt, !.sip = sip,
                         !.clock = IF declared = <<>> THEN LatestTime
                                   ELSE [ms |-> declared,
                                         ticking |-> TickingAfterPly(cur.cnt, ToMove[sip]),
                                         at |-> 0, reason |-> "ply"]])
    BY <1>3 DEF ReadExternalPly
  <2>2. CASE declared = <<>>
    <3>1. Start(s, [NoJob EXCEPT !.stage = "charge", !.at = now, !.cnt = cur.cnt, !.sip = sip,
                                 !.clock = LatestTime])
      BY <2>1, <2>2
    <3> QED
      BY <3>1, LatestRowOfGame, ClockStarts DEF JobClockOK, NoJob
  <2>3. CASE declared # <<>>
    <3>1. Start(s, [NoJob EXCEPT !.stage = "declared", !.at = now, !.cnt = cur.cnt, !.sip = sip,
                      !.clock = [ms |-> declared, ticking |-> TickingAfterPly(cur.cnt, ToMove[sip]),
                                 at |-> 0, reason |-> "ply"]])
      BY <2>1, <2>3
    <3> QED
      BY <2>1, <2>3, <3>1, ClockStarts DEF JobClockOK, RowOfPly, NoJob
  <2> QED
    BY <2>2, <2>3
<1>r. ASSUME NEW cnt \in Nat, NEW keep \in Nat, NEW by \in Color, NEW row \in TimeRowsBelow(keep)
      PROVE  /\ RollbackJob(cnt, keep, by, row).stage = "rollback"
             /\ RowOfGame(RollbackJob(cnt, keep, by, row).clock)
             /\ \A cancels, action, x :
                  LET j == [RollbackJob(cnt, keep, by, row)
                              EXCEPT !.cancels = cancels, !.action = action, !.offer = x]
                  IN  j.stage = "rollback" /\ j.clock = RollbackJob(cnt, keep, by, row).clock
  <2>1. RowOfGame(RolledBack(row, keep, by))
    BY <1>r, RowsBelowOfGame, TimeRowsBelowType, RolledBackOfGame
  <2> QED
    BY <2>1 DEF RollbackJob, NoJob
<1>l. ASSUME NEW i \in LastLive
      PROVE  plies[i].idx \in Nat /\ ToMove[plies[i].sip] \in Color
  <2>1. plies[i] \in PlyRow
    BY ElementOfSeq, LenProperties DEF LastLive, Live, LiveByRow, TypeOK
  <2> QED
    BY <2>1, PositionAssumption DEF PlyRow
<1>4. ASSUME NEW client \in Color, AcceptTakeback(s, client)
      PROVE  ClockInv'
  <2> DEFINE author == Opposite(client)
             keep(i) == CountBeforeLastMoveOf(i, author)
  <2>1. PICK i \in LastLive :
          /\ EnoughPlys(keep(i))
          /\ \E row \in TimeRowsBelow(keep(i)) :
             \E cancels \in SUBSET (Offer \ {<<"takeback", author>>}) :
               Start(s, [RollbackJob(plies[i].idx + 1, keep(i), author, row)
                            EXCEPT !.cancels = cancels, !.action = "accept",
                                   !.offer = <<"takeback", author>>])
    BY <1>4 DEF AcceptTakeback
  <2>2. keep(i) \in Nat /\ plies[i].idx + 1 \in Nat /\ author \in Color
    BY <2>1, <1>l, OppositeType DEF CountBeforeLastMoveOf, EnoughPlys
  <2> HIDE DEF author, keep
  <2>3. PICK row \in TimeRowsBelow(keep(i)), cancels \in SUBSET (Offer \ {<<"takeback", author>>}) :
          Start(s, [RollbackJob(plies[i].idx + 1, keep(i), author, row)
                      EXCEPT !.cancels = cancels, !.action = "accept",
                             !.offer = <<"takeback", author>>])
    BY <2>1
  <2> DEFINE j == [RollbackJob(plies[i].idx + 1, keep(i), author, row)
                     EXCEPT !.cancels = cancels, !.action = "accept",
                            !.offer = <<"takeback", author>>]
  <2>4. j.stage = "rollback" /\ RowOfGame(j.clock)
    BY <1>r, <2>2
  <2>5. Start(s, j)
    BY <2>3
  <2> HIDE DEF j
  <2> QED
    BY <2>4, <2>5, ClockStarts DEF JobClockOK
<1>5. ASSUME NEW keep \in 0..MaxPlies, ReadRollback(s, keep)
      PROVE  ClockInv'
  <2>1. PICK i \in LastLive : \E row \in TimeRowsBelow(keep) :
          Start(s, RollbackJob(plies[i].idx + 1, keep,
                     Requester(plies[i].idx + 1, keep, ToMove[plies[i].sip]), row))
    BY <1>5 DEF ReadRollback
  <2>2. Requester(plies[i].idx + 1, keep, ToMove[plies[i].sip]) \in Color
    BY <1>l, OppositeType DEF Requester
  <2>3. keep \in Nat /\ plies[i].idx + 1 \in Nat
    BY <1>l, SettingAssumption
  <2> QED
    BY <1>r, <2>1, <2>2, <2>3, ClockStarts DEF JobClockOK
<1>6. ASSUME NEW receiver \in Color, ReadTime(s, receiver)
      PROVE  ClockInv'
  <2> DEFINE clock == [LatestTime EXCEPT !.ms[receiver] = @ + Bonus, !.reason = "time_added"]
  <2>1. Start(s, [NoJob EXCEPT !.stage = "add", !.at = now, !.clock = clock])
    BY <1>6 DEF ReadTime
  <2>2. clock.reason = "time_added"
    BY TimeRowTypes DEF TimeRow
  <2>3. Fischer
    BY <1>6, SettingAssumption DEF ReadTime, ClockInv
  <2> HIDE DEF clock
  <2> QED
    BY <2>1, <2>2, <2>3, ClockStarts DEF JobClockOK, RowOfGame, NoJob
<1> QED
  BY <1>1, <1>2, <1>3, <1>4, <1>5, <1>6

LEMMA ClockCommits ==
  ASSUME TypeInv, ClockInv, NEW s \in Session
  PROVE  /\ CancelAllActiveOffers(s) => ClockInv'
         /\ TimeoutReached(s) => ClockInv'
         /\ RecordPly(s) => ClockInv'
         /\ RecordExternalPly(s) => ClockInv'
         /\ CommitOffer(s) => ClockInv'
         /\ CommitRollback(s) => ClockInv'
         /\ CommitTime(s) => ClockInv'
<1> TypeOK
  BY DEF TypeInv
<1>j. job[s] \in Job /\ JobClockOK(job[s])
  BY DEF TypeOK, ClockInv
<1>1. ASSUME CancelAllActiveOffers(s)
      PROVE  ClockInv'
  <2>1. PICK t \in job[s].at..now : job' = [job EXCEPT ![s].stage = "cleared", ![s].at = t]
    BY <1>1 DEF CancelAllActiveOffers
  <2>2. job' = [job EXCEPT ![s] = [job[s] EXCEPT !.stage = "cleared", !.at = t]]
    BY <2>1, <1>j DEF TypeOK, Job
  <2>3. JobClockOK([job[s] EXCEPT !.stage = "cleared", !.at = t])
    BY <1>j DEF JobClockOK, Job
  <2>4. \A r \in Session : JobClockOK(job[r])'
    BY <2>2, <2>3, JobClocksKept
  <2> QED
    BY <1>1, <2>4 DEF CancelAllActiveOffers, ClockInv, PlyStartsItsClock
<1>2. ASSUME TimeoutReached(s)
      PROVE  ClockInv'
  BY <1>2, JobFreed DEF TimeoutReached, tables, ClockInv, PlyStartsItsClock
<1>3. ASSUME RecordPly(s)
      PROVE  ClockInv'
  BY <1>3, <1>j, PlyRecorded DEF RecordPly, JobClockOK, Job
<1>4. ASSUME RecordExternalPly(s)
      PROVE  ClockInv'
  <2>1. PICK t \in job[s].at..now :
          AppendPly(s, IF job[s].stage = "charge"
                       THEN PlyClock(job[s].clock, t, job[s].cnt, ToMove[job[s].sip])
                       ELSE [job[s].clock EXCEPT !.at = t])
    BY <1>4 DEF RecordExternalPly
  <2>2. t \in Nat
    BY Instants
  <2>3. CASE job[s].stage = "charge"
    <3> DEFINE row == PlyClock(job[s].clock, t, job[s].cnt, ToMove[job[s].sip])
    <3>1. job[s].cnt \in Nat /\ job[s].sip \in Sip /\ job[s].clock \in TimeRow
          /\ ToMove[job[s].sip] \in Color
      BY <1>j, PositionAssumption DEF Job
    <3>2. row \in TimeRow
      BY <3>1, <2>2, PlyClockType
    <3>3. RowOfPly(row, job[s].cnt, job[s].sip)
      BY <1>j, <2>2, <2>3, <3>1, PlyClockOfPly DEF JobClockOK
    <3>4. AppendPly(s, row)
      BY <2>1, <2>3
    <3> HIDE DEF row
    <3> QED
      BY <3>2, <3>3, <3>4, PlyRecorded
  <2>4. CASE job[s].stage = "declared"
    <3> DEFINE row == [job[s].clock EXCEPT !.at = t]
    <3>1. row \in TimeRow /\ row.reason = job[s].clock.reason /\ row.ticking = job[s].clock.ticking
      BY <1>j, <2>2 DEF Job, TimeRow
    <3>2. RowOfPly(row, job[s].cnt, job[s].sip)
      BY <1>j, <2>4, <3>1 DEF JobClockOK, RowOfPly
    <3>3. AppendPly(s, row)
      BY <2>1, <2>4
    <3> HIDE DEF row
    <3> QED
      BY <3>1, <3>2, <3>3, PlyRecorded
  <2> QED
    BY <1>4, <2>3, <2>4 DEF RecordExternalPly
<1>5. ASSUME CommitOffer(s)
      PROVE  ClockInv'
  BY <1>5, JobFreed DEF CommitOffer, ClockInv, PlyStartsItsClock
<1>6. ASSUME CommitRollback(s)
      PROVE  ClockInv'
  <2>1. PICK t \in job[s].at..now :
          AddTimeRow(IF job[s].clock = NoRow THEN NoRow ELSE [job[s].clock EXCEPT !.at = t])
    BY <1>6 DEF CommitRollback
  <2> DEFINE row == IF job[s].clock = NoRow THEN NoRow ELSE [job[s].clock EXCEPT !.at = t]
  <2>2. row \in TimeRow
    BY <1>j, Instants, NoRowType DEF Job, TimeRow
  <2>3. RowOfGame(row)
    <3>1. RowOfGame(job[s].clock) /\ job[s].clock \in TimeRow
      BY <1>6, <1>j DEF CommitRollback, JobClockOK, Job
    <3> QED
      BY <3>1 DEF RowOfGame, TimeRow
  <2> HIDE DEF row
  <2>4. AddTimeRow(row)
    BY <2>1 DEF row
  <2>5. /\ (times' = <<>>) <=> ~Fischer
        /\ \A i \in DOMAIN times' : times'[i].reason # "none"
        /\ DOMAIN times \subseteq DOMAIN times'
        /\ \A i \in DOMAIN times : times'[i] = times[i]
    BY <2>2, <2>3, <2>4, RowAppended
  <2>6. /\ DOMAIN plies' = DOMAIN plies
        /\ \A i \in DOMAIN plies : plies'[i].time = plies[i].time /\ plies'[i].idx = plies[i].idx
                                   /\ plies'[i].sip = plies[i].sip
    <3>1. \A i \in DOMAIN plies : plies[i] \in PlyRow
      BY ElementOfSeq, LenProperties DEF TypeOK
    <3> QED
      BY <1>6, <3>1 DEF CommitRollback, PlyRow
  <2>7. PlyStartsItsClock'
    BY <2>5, <2>6, PlyClocksKept
  <2>8. \A r \in Session : JobClockOK(job[r])'
    BY <1>6, JobFreed DEF CommitRollback
  <2> QED
    BY <2>5, <2>7, <2>8 DEF ClockInv
<1>7. ASSUME CommitTime(s)
      PROVE  ClockInv'
  <2>1. PICK t \in job[s].at..now : times' = Append(times, [job[s].clock EXCEPT !.at = t])
    BY <1>7 DEF CommitTime
  <2> DEFINE row == [job[s].clock EXCEPT !.at = t]
  <2>2. row \in TimeRow /\ row.reason = job[s].clock.reason
    BY <1>j, Instants DEF Job, TimeRow
  <2>3. RowOfGame(row) /\ row # NoRow
    BY <1>7, <1>j, <2>2 DEF CommitTime, JobClockOK, RowOfGame, NoRow
  <2> HIDE DEF row
  <2>4. AddTimeRow(row)
    BY <2>1, <2>3 DEF AddTimeRow, row
  <2>5. /\ (times' = <<>>) <=> ~Fischer
        /\ \A i \in DOMAIN times' : times'[i].reason # "none"
        /\ DOMAIN times \subseteq DOMAIN times'
        /\ \A i \in DOMAIN times : times'[i] = times[i]
    BY <2>2, <2>3, <2>4, RowAppended
  <2>6. PlyStartsItsClock'
    BY <1>7, <2>5, PlyClocksKept DEF CommitTime
  <2>7. \A r \in Session : JobClockOK(job[r])'
    BY <1>7, JobFreed DEF CommitTime
  <2> QED
    BY <2>5, <2>6, <2>7 DEF ClockInv
<1> QED
  BY <1>1, <1>2, <1>3, <1>4, <1>5, <1>6, <1>7

LEMMA ClockStep == TypeInv /\ ClockInv /\ [Next]_vars => ClockInv'
<1> SUFFICES ASSUME TypeInv, ClockInv, [Next]_vars PROVE ClockInv'
  OBVIOUS
<1>1. CASE UNCHANGED vars
  BY <1>1 DEF vars, ClockInv, JobClockOK, RowOfGame, RowOfPly, PlyStartsItsClock
<1>2. CASE Tick
  BY <1>2 DEF Tick, tables, ClockInv, JobClockOK, RowOfGame, RowOfPly, PlyStartsItsClock
<1>3. ASSUME NEW s \in Session, Step(s)
      PROVE  ClockInv'
  <2>o. ASSUME NEW x, NEW action, StartOffer(s, x, action)
        PROVE  ClockInv'
    BY <2>o, ClockStarts DEF StartOffer, JobClockOK, NoJob
  <2>1. ASSUME NEW client \in Color, CreateTakeback(s, client)
        PROVE  ClockInv'
    BY <2>1, <2>o DEF CreateTakeback
  <2>2. ASSUME NEW client \in Color, CreateDraw(s, client)
        PROVE  ClockInv'
    BY <2>2, <2>o DEF CreateDraw
  <2>3. ASSUME NEW client \in Color, NEW action \in {"cancel", "decline", "accept"},
               NEW kind \in OfferKind, AnswerOffer(s, client, action, kind)
        PROVE  ClockInv'
    BY <2>3, <2>o DEF AnswerOffer
  <2>4. ASSUME NEW client \in Color, VoidTakeback(s, client)
        PROVE  ClockInv'
    BY <2>4, <2>o DEF VoidTakeback
  <2>u. ASSUME UNCHANGED <<tables, job>>
        PROVE  ClockInv'
    BY <2>u DEF tables, ClockInv, JobClockOK, RowOfGame, RowOfPly, PlyStartsItsClock
  <2>5. ASSUME NEW client \in Color, Resign(s, client)
        PROVE  ClockInv'
    BY <2>5, <2>u DEF Resign
  <2>6. ASSUME NEW kind, NEW winner, EndExternal(s, kind, winner)
        PROVE  ClockInv'
    BY <2>6, <2>u DEF EndExternal
  <2>7. ASSUME Abort(s)
        PROVE  ClockInv'
    BY <2>7, NoJobClock, ClockStarts DEF Abort
  <2> QED
    BY <1>3, ClockReads, ClockCommits, <2>1, <2>2, <2>3, <2>4, <2>5, <2>6, <2>7 DEF Step
<1> QED
  BY <1>1, <1>2, <1>3 DEF Next

\* Each recorded ply has a time row of its own, which starts the clock of the
\* player to move from the second ply on, whatever requests run at the same time
\* (append_ply_sink and construct_new_ply_time_update).
THEOREM PliesStartTheirClock == Spec => []PlyStartsItsClock
<1>1. Spec => [](TypeInv /\ ClockInv)
  <2>1. Init => TypeInv /\ ClockInv
    BY TypeInit, ClockInit
  <2>2. TypeInv /\ ClockInv /\ [Next]_vars => (TypeInv /\ ClockInv)'
    BY TypeStep, ClockStep
  <2> QED
    BY <2>1, <2>2, PTL DEF Spec
<1>2. TypeInv /\ ClockInv => PlyStartsItsClock
  BY DEF ClockInv
<1> QED
  BY <1>1, <1>2, PTL

----------------------------------------------------------------------------
(* The reserves of a game played here.  They are used up by no ply that is *)
(* recorded, if the players have some time at the start.                   *)

Positive(row) == \A c \in Color : row.ms[c] > 0

\* What a job of a game played here is going to write, if it writes a row.
JobReserveOK(j) ==
  /\ j.stage \notin {"charge", "declared"}
  /\ j.stage \in {"clocked", "rollback"} => j.clock = NoRow \/ Positive(j.clock)
  /\ j.stage = "add" => Positive(j.clock)

ReserveInv ==
  /\ \A i \in DOMAIN times : Positive(times[i])
  /\ \A s \in Session : JobReserveOK(job[s])

----------------------------------------------------------------------------

LEMMA NoJobReserve == JobReserveOK(NoJob)
  BY DEF JobReserveOK, NoJob

LEMMA JobReservesKept ==
  ASSUME TypeInv, ReserveInv, NEW s \in Session, NEW j, JobReserveOK(j),
         job' = [job EXCEPT ![s] = j]
  PROVE  \A r \in Session : JobReserveOK(job[r])'
<1> SUFFICES ASSUME NEW r \in Session PROVE JobReserveOK(job'[r])
  BY DEF JobReserveOK, Positive
<1> QED
  BY DEF ReserveInv, TypeInv, TypeOK

LEMMA ReserveStarts ==
  ASSUME TypeInv, ReserveInv, NEW s \in Session, NEW j, JobReserveOK(j), Start(s, j)
  PROVE  ReserveInv'
<1>1. UNCHANGED times /\ job' = [job EXCEPT ![s] = j]
  BY DEF Start, tables
<1>2. \A r \in Session : JobReserveOK(job[r])'
  BY <1>1, JobReservesKept
<1> QED
  BY <1>1, <1>2 DEF ReserveInv, Positive

\* A commit that adds one row, or none, and frees the session.
LEMMA RowAdded ==
  ASSUME TypeInv, ReserveInv, NEW s \in Session, NEW row \in TimeRow,
         row = NoRow \/ Positive(row), AddTimeRow(row), job' = [job EXCEPT ![s] = NoJob]
  PROVE  ReserveInv'
<1>1. \A r \in Session : JobReserveOK(job[r])'
  BY NoJobReserve, JobReservesKept
<1>2. \A i \in DOMAIN times' : Positive(times'[i])
  <2>1. CASE row = NoRow
    BY <2>1 DEF AddTimeRow, ReserveInv
  <2>2. CASE row # NoRow
    <3>1. times \in Seq(TimeRow) /\ times' = Append(times, row)
      BY <2>2 DEF TypeInv, TypeOK, AddTimeRow
    <3>2. /\ DOMAIN times = 1..Len(times) /\ DOMAIN times' = 1..(Len(times) + 1)
          /\ Len(times) \in Nat
          /\ \A i \in 1..Len(times) : times'[i] = times[i]
          /\ times'[Len(times) + 1] = row
      BY <3>1, AppendProperties, LenProperties
    <3>3. \A i \in 1..(Len(times) + 1) : i \in 1..Len(times) \/ i = Len(times) + 1
      BY <3>2
    <3> QED
      BY <2>2, <3>2, <3>3 DEF ReserveInv
  <2> QED
    BY <2>1, <2>2
<1> QED
  BY <1>1, <1>2 DEF ReserveInv, Positive

----------------------------------------------------------------------------
(* Rows *)

LEMMA RecordedPositive ==
  ASSUME TypeInv, ReserveInv
  PROVE  /\ LatestTime = NoRow \/ Positive(LatestTime)
         /\ InitialTime = NoRow \/ Positive(InitialTime)
         /\ times # <<>> => Positive(LatestTime)
<1>1. CASE times = <<>>
  BY <1>1 DEF LatestTime, InitialTime
<1>2. CASE times # <<>>
  <2>1. 1 \in DOMAIN times /\ Len(times) \in DOMAIN times
    BY <1>2, EmptySeq, LenProperties DEF TypeInv, TypeOK
  <2> QED
    BY <1>2, <2>1 DEF LatestTime, InitialTime, ReserveInv
<1> QED
  BY <1>1, <1>2

LEMMA BelowPositive ==
  ASSUME TypeInv, ReserveInv, NEW keep \in Nat, NEW row \in TimeRowsBelow(keep)
  PROVE  row = NoRow \/ Positive(row)
<1> DEFINE below == {i \in Live : plies[i].idx < keep}
           last  == {i \in below : \A j \in below : plies[j].idx <= plies[i].idx}
<1>1. CASE below = {}
  BY <1>1, RecordedPositive DEF TimeRowsBelow
<1>2. CASE below # {}
  <2>1. PICK i \in last : row = IF plies[i].time = 0 THEN NoRow ELSE times[plies[i].time]
    BY <1>2 DEF TimeRowsBelow
  <2>2. i \in DOMAIN plies
    BY DEF Live, LiveByRow
  <2>3. plies[i].time \in 0..Len(times) /\ DOMAIN times = 1..Len(times) /\ Len(times) \in Nat
    BY <2>2, LenProperties DEF TypeInv, TypeOK, PlyTimesExist
  <2>4. plies[i].time # 0 => plies[i].time \in DOMAIN times
    BY <2>3
  <2> QED
    BY <2>1, <2>4 DEF ReserveInv
<1> QED
  BY <1>1, <1>2

\* A rollback restores reserves, it does not change them.
LEMMA RolledBackPositive ==
  ASSUME NEW row \in TimeRow, row = NoRow \/ Positive(row), NEW keep, NEW by
  PROVE  RolledBack(row, keep, by) = NoRow \/ Positive(RolledBack(row, keep, by))
<1>1. row.ms = RolledBack(row, keep, by).ms
  BY DEF RolledBack, TimeRow
<1> QED
  BY <1>1 DEF RolledBack, Positive

\* A ply whose flag has not fallen leaves something to both players.
LEMMA PlyClockPositive ==
  ASSUME NEW row \in TimeRow, row = NoRow \/ Positive(row), NEW t \in Nat, ~FlagFallen(row, t),
         NEW cnt, NEW c
  PROVE  PlyClock(row, t, cnt, c) = NoRow \/ Positive(PlyClock(row, t, cnt, c))
<1>1. row.ms \in [Color -> Int] /\ row.ticking \in Color \cup {"none"} /\ row.at \in Nat
  BY DEF TimeRow
<1>2. CASE row = NoRow
  BY <1>2 DEF PlyClock
<1>3. CASE row # NoRow
  <2>1. PlyClock(row, t, cnt, c).ms = Charged(row, t)
    BY <1>3 DEF PlyClock
  <2>2. \A d \in Color : Charged(row, t)[d] > 0
    <3>1. CASE row.ticking = "none"
      BY <1>3, <3>1 DEF Charged, Positive
    <3>2. CASE row.ticking # "none"
      <4>1. Charged(row, t) \in [Color -> Int]
        BY <1>1 DEF Charged
      <4>2. Charged(row, t)[row.ticking] > 0
        BY <1>1, <3>2, <4>1 DEF FlagFallen
      <4>3. \A d \in Color : d # row.ticking => Charged(row, t)[d] = row.ms[d]
        BY <1>1, <3>2 DEF Charged
      <4> QED
        BY <1>3, <4>2, <4>3 DEF Positive
    <3> QED
      BY <3>1, <3>2
  <2> QED
    BY <2>1, <2>2 DEF Positive
<1> QED
  BY <1>2, <1>3

----------------------------------------------------------------------------
(* Steps *)

LEMMA ReserveInit ==
  ASSUME StartTime > 0, Init
  PROVE  ReserveInv
<1>1. Positive(InitRow)
  BY DEF Positive, InitRow, NoRow
<1>2. times = <<>> \/ times = <<InitRow>>
  BY DEF Init
<1>3. \A s \in Session : JobReserveOK(job[s])
  BY NoJobReserve DEF Init
<1> QED
  BY <1>1, <1>2, <1>3, EmptySeq DEF ReserveInv

LEMMA ReserveReads ==
  ASSUME TypeInv, ReserveInv, ~External, NEW s \in Session
  PROVE  /\ \A client \in Color, original \in Sip \cup {"none"}, sip \in Sip :
              ReadPly(s, client, original, sip) => ReserveInv'
         /\ ReadClock(s) => ReserveInv'
         /\ \A client \in Color : AcceptTakeback(s, client) => ReserveInv'
         /\ \A receiver \in Color : ReadTime(s, receiver) => ReserveInv'
<1> TypeOK
  BY DEF TypeInv
<1>j. job[s] \in Job
  BY DEF TypeOK
<1>1. ASSUME NEW client \in Color, NEW original \in Sip \cup {"none"}, NEW sip \in Sip,
             ReadPly(s, client, original, sip)
      PROVE  ReserveInv'
  <2>1. PICK cur \in Current :
          Start(s, [NoJob EXCEPT !.stage = "ply", !.at = now, !.cnt = cur.cnt, !.sip = sip,
                                 !.cancels = {x \in Offer : ActiveByCount(x)}])
    BY <1>1 DEF ReadPly
  <2> QED
    BY <2>1, ReserveStarts DEF JobReserveOK, NoJob
<1>2. ASSUME ReadClock(s)
      PROVE  ReserveInv'
  <2> DEFINE clock == PlyClock(LatestTime, job[s].at, job[s].cnt, ToMove[job[s].sip])
             j     == [job[s] EXCEPT !.stage = "clocked", !.clock = clock]
  <2>1. clock = NoRow \/ Positive(clock)
    BY <1>2, <1>j, RecordedPositive, TimeRowTypes, PlyClockPositive DEF ReadClock, Job
  <2>2. Start(s, j)
    BY <1>2 DEF ReadClock
  <2> HIDE DEF clock
  <2>3. j.stage = "clocked" /\ j.clock = clock
    BY <1>j DEF Job
  <2> QED
    BY <2>1, <2>2, <2>3, ReserveStarts DEF JobReserveOK
<1>3. ASSUME NEW client \in Color, AcceptTakeback(s, client)
      PROVE  ReserveInv'
  <2> DEFINE author == Opposite(client)
             keep(i) == CountBeforeLastMoveOf(i, author)
  <2>1. PICK i \in LastLive :
          /\ EnoughPlys(keep(i))
          /\ \E row \in TimeRowsBelow(keep(i)) :
             \E cancels \in SUBSET (Offer \ {<<"takeback", author>>}) :
               Start(s, [RollbackJob(plies[i].idx + 1, keep(i), author, row)
                            EXCEPT !.cancels = cancels, !.action = "accept",
                                   !.offer = <<"takeback", author>>])
    BY <1>3 DEF AcceptTakeback
  <2>2. plies[i] \in PlyRow
    BY ElementOfSeq, LenProperties DEF LastLive, Live, LiveByRow, TypeOK
  <2>3. keep(i) \in Nat
    BY <2>1, <2>2 DEF CountBeforeLastMoveOf, EnoughPlys, PlyRow
  <2> HIDE DEF author, keep
  <2>4. PICK row \in TimeRowsBelow(keep(i)), cancels \in SUBSET (Offer \ {<<"takeback", author>>}) :
          Start(s, [RollbackJob(plies[i].idx + 1, keep(i), author, row)
                      EXCEPT !.cancels = cancels, !.action = "accept",
                             !.offer = <<"takeback", author>>])
    BY <2>1
  <2> DEFINE j == [RollbackJob(plies[i].idx + 1, keep(i), author, row)
                     EXCEPT !.cancels = cancels, !.action = "accept",
                            !.offer = <<"takeback", author>>]
  <2>5. j.stage = "rollback" /\ j.clock = RolledBack(row, keep(i), author)
    BY DEF RollbackJob, NoJob
  <2>6. j.clock = NoRow \/ Positive(j.clock)
    BY <2>3, <2>5, BelowPositive, TimeRowsBelowType, RolledBackPositive
  <2>7. Start(s, j)
    BY <2>4
  <2> HIDE DEF j
  <2> QED
    BY <2>5, <2>6, <2>7, ReserveStarts DEF JobReserveOK
<1>4. ASSUME NEW receiver \in Color, ReadTime(s, receiver)
      PROVE  ReserveInv'
  <2> DEFINE clock == [LatestTime EXCEPT !.ms[receiver] = @ + Bonus, !.reason = "time_added"]
  <2>1. Positive(LatestTime) /\ LatestTime \in TimeRow
    BY <1>4, RecordedPositive, TimeRowTypes DEF ReadTime
  <2>2. Positive(clock)
    <3> SUFFICES ASSUME NEW c \in Color PROVE clock.ms[c] > 0
      BY DEF Positive
    <3>1. LatestTime.ms \in [Color -> Int] /\ LatestTime.ms[c] > 0
      BY <2>1 DEF Positive, TimeRow
    <3>2. clock.ms = [LatestTime.ms EXCEPT ![receiver] = @ + Bonus]
      BY <2>1 DEF TimeRow
    <3> HIDE DEF clock
    <3> QED
      BY <3>1, <3>2, SettingAssumption
  <2>3. Start(s, [NoJob EXCEPT !.stage = "add", !.at = now, !.clock = clock])
    BY <1>4 DEF ReadTime
  <2> HIDE DEF clock
  <2> QED
    BY <2>2, <2>3, ReserveStarts DEF JobReserveOK, NoJob
<1> QED
  BY <1>1, <1>2, <1>3, <1>4

LEMMA ReserveCommits ==
  ASSUME TypeInv, ReserveInv, ~External, NEW s \in Session
  PROVE  /\ CancelAllActiveOffers(s) => ReserveInv'
         /\ RecordPly(s) => ReserveInv'
         /\ CommitRollback(s) => ReserveInv'
         /\ CommitTime(s) => ReserveInv'
<1> TypeOK
  BY DEF TypeInv
<1>j. job[s] \in Job /\ JobReserveOK(job[s])
  BY DEF TypeOK, ReserveInv
<1>1. ASSUME CancelAllActiveOffers(s)
      PROVE  ReserveInv'
  <2>1. PICK t \in job[s].at..now : job' = [job EXCEPT ![s].stage = "cleared", ![s].at = t]
    BY <1>1 DEF CancelAllActiveOffers
  <2>2. job' = [job EXCEPT ![s] = [job[s] EXCEPT !.stage = "cleared", !.at = t]]
    BY <2>1, <1>j DEF TypeOK, Job
  <2>3. JobReserveOK([job[s] EXCEPT !.stage = "cleared", !.at = t])
    BY <1>j DEF JobReserveOK, Job
  <2>4. \A r \in Session : JobReserveOK(job[r])'
    BY <2>2, <2>3, JobReservesKept
  <2> QED
    BY <1>1, <2>4 DEF CancelAllActiveOffers, ReserveInv, Positive
<1>2. ASSUME RecordPly(s)
      PROVE  ReserveInv'
  <2>1. job[s].clock \in TimeRow /\ (job[s].clock = NoRow \/ Positive(job[s].clock))
    BY <1>2, <1>j DEF RecordPly, JobReserveOK, Job
  <2> QED
    BY <1>2, <2>1, RowAdded DEF RecordPly, AppendPly
<1>3. ASSUME CommitRollback(s)
      PROVE  ReserveInv'
  <2>1. PICK t \in job[s].at..now :
          AddTimeRow(IF job[s].clock = NoRow THEN NoRow ELSE [job[s].clock EXCEPT !.at = t])
    BY <1>3 DEF CommitRollback
  <2> DEFINE row == IF job[s].clock = NoRow THEN NoRow ELSE [job[s].clock EXCEPT !.at = t]
  <2>2. row \in TimeRow
    BY <1>j, Instants, NoRowType DEF Job, TimeRow
  <2>3. row = NoRow \/ Positive(row)
    <3>1. job[s].clock = NoRow \/ Positive(job[s].clock)
      BY <1>3, <1>j DEF CommitRollback, JobReserveOK
    <3>2. [job[s].clock EXCEPT !.at = t].ms = job[s].clock.ms
      BY <1>j DEF Job, TimeRow
    <3> QED
      BY <3>1, <3>2 DEF Positive
  <2> HIDE DEF row
  <2>4. AddTimeRow(row)
    BY <2>1 DEF row
  <2> QED
    BY <1>3, <2>2, <2>3, <2>4, RowAdded DEF CommitRollback
<1>4. ASSUME CommitTime(s)
      PROVE  ReserveInv'
  <2>1. PICK t \in job[s].at..now : times' = Append(times, [job[s].clock EXCEPT !.at = t])
    BY <1>4 DEF CommitTime
  <2> DEFINE row == [job[s].clock EXCEPT !.at = t]
  <2>2. row \in TimeRow /\ row.ms = job[s].clock.ms
    BY <1>j, Instants DEF Job, TimeRow
  <2>3. Positive(row)
    BY <1>4, <1>j, <2>2 DEF CommitTime, JobReserveOK, Positive
  <2>4. times' = Append(times, row)
    BY <2>1
  <2> HIDE DEF row
  <2>5. row # NoRow
    BY <2>3 DEF Positive, NoRow, Color
  <2> QED
    BY <1>4, <2>2, <2>3, <2>4, <2>5, RowAdded DEF CommitTime, AddTimeRow
<1> QED
  BY <1>1, <1>2, <1>3, <1>4

LEMMA ReserveStep ==
  ASSUME TypeInv, ReserveInv, ~External, [Next]_vars
  PROVE  ReserveInv'
<1>u. ASSUME UNCHANGED <<times, job>>
      PROVE  ReserveInv'
  BY <1>u DEF ReserveInv, JobReserveOK, Positive
<1>1. CASE UNCHANGED vars
  BY <1>1, <1>u DEF vars
<1>2. CASE Tick
  BY <1>2, <1>u DEF Tick, tables
<1>3. ASSUME NEW s \in Session, Step(s)
      PROVE  ReserveInv'
  <2>f. ASSUME UNCHANGED times, job' = [job EXCEPT ![s] = NoJob]
        PROVE  ReserveInv'
    BY <2>f, NoJobReserve, JobReservesKept DEF ReserveInv, Positive
  <2>o. ASSUME NEW x, NEW action, StartOffer(s, x, action)
        PROVE  ReserveInv'
    BY <2>o, ReserveStarts DEF StartOffer, JobReserveOK, NoJob
  <2>1. ASSUME TimeoutReached(s)
        PROVE  ReserveInv'
    BY <2>1, <2>f DEF TimeoutReached, tables
  <2>2. ASSUME NEW client \in Color, CreateTakeback(s, client)
        PROVE  ReserveInv'
    BY <2>2, <2>o DEF CreateTakeback
  <2>3. ASSUME NEW client \in Color, CreateDraw(s, client)
        PROVE  ReserveInv'
    BY <2>3, <2>o DEF CreateDraw
  <2>4. ASSUME NEW client \in Color, NEW action \in {"cancel", "decline", "accept"},
               NEW kind \in OfferKind, AnswerOffer(s, client, action, kind)
        PROVE  ReserveInv'
    BY <2>4, <2>o DEF AnswerOffer
  <2>5. ASSUME CommitOffer(s)
        PROVE  ReserveInv'
    BY <2>5, <2>f DEF CommitOffer
  <2>6. ASSUME NEW client \in Color, VoidTakeback(s, client)
        PROVE  ReserveInv'
    BY <2>6, <2>o DEF VoidTakeback
  <2>7. ASSUME NEW client \in Color, Resign(s, client)
        PROVE  ReserveInv'
    BY <2>7, <1>u DEF Resign, tables
  <2>8. ASSUME Abort(s)
        PROVE  ReserveInv'
    BY <2>8, NoJobReserve, ReserveStarts DEF Abort
  <2>9. /\ \A original, sip, declared : ~ReadExternalPly(s, original, sip, declared)
        /\ ~RecordExternalPly(s)
        /\ \A keep : ~ReadRollback(s, keep)
        /\ \A kind, winner : ~EndExternal(s, kind, winner)
    BY DEF ReadExternalPly, RecordExternalPly, ReadRollback, EndExternal, ReserveInv, JobReserveOK
  <2> QED
    BY <1>3, ReserveReads, ReserveCommits, <2>1, <2>2, <2>3, <2>4, <2>5, <2>6, <2>7, <2>8, <2>9
    DEF Step
<1> QED
  BY <1>1, <1>2, <1>3 DEF Next

\* A game played here that starts with some time for both players never records
\* a reserve of zero or less: with stale clocks, added time, takebacks and any
\* number of requests at once (construct_new_ply_time_update).
THEOREM ReservesStayPositive ==
  ASSUME StartTime > 0
  PROVE  Spec => []ClockPositive
<1>1. CASE External
  <2>1. ClockPositive
    BY <1>1 DEF ClockPositive
  <2> QED
    BY <2>1, PTL
<1>2. CASE ~External
  <2>1. Init => TypeInv /\ ReserveInv
    BY TypeInit, ReserveInit
  <2>2. TypeInv /\ ReserveInv /\ [Next]_vars => (TypeInv /\ ReserveInv)'
    BY <1>2, TypeStep, ReserveStep
  <2>3. TypeInv /\ ReserveInv => ClockPositive
    BY DEF ReserveInv, ClockPositive, Positive
  <2> QED
    BY <2>1, <2>2, <2>3, PTL DEF Spec
<1> QED
  BY <1>1, <1>2
=============================================================================
