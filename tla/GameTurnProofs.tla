--------------------------- MODULE GameTurnProofs ---------------------------
(***************************************************************************)
(* One request at a time: the plys that are not cancelled are a legal game *)
(* whose clock ticks for the player to move, and the tables of a game      *)
(* played here implement the record of a game that GameRecord promises.    *)
(***************************************************************************)
EXTENDS GameClockProofs, GameOfferProofs, GameImplementsRecord, FunctionTheorems

----------------------------------------------------------------------------
(* The inductive invariants.  What they say of a job is that it holds what  *)
(* a request would read now: no other request has written since.            *)

\* The live plys have the indices below n.
LineOf(n) ==
  /\ \A i \in Live : plies[i].idx < n
  /\ \A k \in 0..(n - 1) : \E i \in Live : plies[i].idx = k

\* They were recorded in the order of their indices.
InOrder == \A i, j \in Live : i < j => plies[i].idx < plies[j].idx

OnePlyAway ==
  /\ \A i \in Live : plies[i].idx = 0 => plies[i].sip \in Reach[StartSip]
  /\ \A i, j \in Live : plies[j].idx = plies[i].idx + 1 => plies[j].sip \in Reach[plies[i].sip]

LineInv ==
  /\ \E n \in Nat : LineOf(n)
  /\ InOrder
  /\ OnePlyAway
  /\ \A s \in Session : ReadsPosition(job[s]) /\ ReadsPlys(job[s])

\* What a rollback of a player has read of the clock.
ReadsRollback(j) ==
  j.stage = "rollback" =>
    /\ j.by \in Color
    /\ \E i \in LastLive : j.keep = CountBeforeLastMoveOf(i, j.by)
    /\ \E row \in TimeRowsBelow(j.keep) : j.clock = RolledBack(row, j.keep, j.by)

\* What added time and a ply have read of the clock, in a game played here.
ReadsClock(j) ==
  /\ j.stage \notin {"charge", "declared"}
  /\ j.stage = "add" =>
       /\ times # <<>> /\ j.clock.ticking = LatestTime.ticking
       /\ \E c \in Color : j.clock.ms = [LatestTime.ms EXCEPT ![c] = @ + Bonus]
  /\ j.stage = "clocked" =>
       /\ ~FlagFallen(LatestTime, j.at)
       /\ j.clock = PlyClock(LatestTime, j.at, j.cnt, ToMove[j.sip])

TickInv ==
  /\ TicksForMover
  /\ Fischer => times[1] = InitRow
  /\ \A s \in Session : ReadsRollback(job[s]) /\ ReadsClock(job[s])

----------------------------------------------------------------------------
(* The line of plys *)

LEMMA LiveRows ==
  ASSUME TypeOK, NEW i \in Live
  PROVE  /\ i \in DOMAIN plies /\ i \in Nat
         /\ plies[i] \in PlyRow /\ plies[i].idx \in Nat /\ plies[i].sip \in Sip
         /\ ~plies[i].cancelled
<1>1. i \in DOMAIN plies /\ ~plies[i].cancelled
  BY DEF Live, LiveByRow
<1>2. plies[i] \in PlyRow /\ i \in Nat
  BY <1>1, ElementOfSeq, LenProperties DEF TypeOK
<1> QED
  BY <1>1, <1>2 DEF PlyRow

\* No two live plys have the same index.
LEMMA OneRowPerIndex ==
  ASSUME TypeOK, InOrder, NEW i \in Live, NEW j \in Live, plies[i].idx = plies[j].idx
  PROVE  i = j
<1>1. i \in Nat /\ j \in Nat /\ plies[i].idx \in Nat
  BY LiveRows
<1> QED
  BY <1>1 DEF InOrder

LEMMA LastOfLine ==
  ASSUME TypeOK, NEW n \in Nat, LineOf(n)
  PROVE  /\ n = 0 <=> Live = {}
         /\ \A i \in LastLive : plies[i].idx = n - 1
         /\ n # 0 => LastLive # {}
         /\ \A i \in Live : plies[i].idx = n - 1 => i \in LastLive
<1>1. \A i \in Live : plies[i].idx \in Nat /\ plies[i].idx < n
  BY LiveRows DEF LineOf
<1>2. n # 0 => \E i \in Live : plies[i].idx = n - 1
  <2>1. n # 0 => n - 1 \in 0..(n - 1)
    OBVIOUS
  <2> QED
    BY <2>1 DEF LineOf
<1>3. \A i \in Live : plies[i].idx = n - 1 => i \in LastLive
  BY <1>1 DEF LastLive
<1>4. \A i \in LastLive : plies[i].idx = n - 1
  <2> TAKE i \in LastLive
  <2>1. i \in Live /\ \A j \in Live : plies[j].idx <= plies[i].idx
    BY DEF LastLive
  <2>2. n # 0
    BY <1>1, <2>1
  <2>3. PICK k \in Live : plies[k].idx = n - 1
    BY <1>2, <2>2
  <2>4. n - 1 <= plies[i].idx /\ plies[i].idx \in Nat /\ plies[i].idx < n
    BY <1>1, <2>1, <2>3
  <2> QED
    BY <2>4
<1> QED
  BY <1>1, <1>2, <1>3, <1>4

\* What a request reads of the position: the number of plys and the last one.
LEMMA CurrentOfLine ==
  ASSUME TypeOK, NEW n \in Nat, LineOf(n), NEW cur \in Current
  PROVE  /\ cur.cnt = n /\ cur.sip \in Sip
         /\ n = 0 => cur.sip = StartSip
         /\ n # 0 => \E i \in LastLive : cur.sip = plies[i].sip
<1>1. cur.sip \in Sip
  BY CurrentType
<1>2. CASE Live = {}
  BY <1>1, <1>2, LastOfLine DEF Current
<1>3. CASE Live # {}
  <2>1. PICK i \in LastLive : cur = [sip |-> plies[i].sip, cnt |-> plies[i].idx + 1]
    BY <1>3 DEF Current
  <2> QED
    BY <1>1, <1>3, <2>1, LastOfLine
<1> QED
  BY <1>2, <1>3

LEMMA LineInit == Init => LineInv
<1> SUFFICES ASSUME Init PROVE LineInv
  OBVIOUS
<1>1. Live = {}
  BY EmptySeq DEF Init, Live, LiveByRow
<1>2. LineOf(0) /\ 0 \in Nat
  BY <1>1 DEF LineOf
<1>3. \A s \in Session : ReadsPosition(job[s]) /\ ReadsPlys(job[s])
  BY NoJobReads DEF Init
<1> QED
  BY <1>1, <1>2, <1>3 DEF LineInv, InOrder, OnePlyAway

LEMMA LineLeft ==
  ASSUME OneAtATime, TypeInv, LineInv, NEW s \in Session, LeavesPlies(s)
  PROVE  LineInv'
<1>1. UNCHANGED plies
  BY DEF LeavesPlies
<1>2. UNCHANGED <<Live, LastLive, Current>>
  BY <1>1 DEF Live, LiveByRow, LastLive, Current
<1>3. ReadsPosition(job'[s]) /\ ReadsPlys(job'[s])
  BY DEF LeavesPlies, LineInv, ReadsPosition
<1>4. \A r \in Session : ReadsPosition(job[r])' /\ ReadsPlys(job[r])'
  BY <1>1, <1>2, <1>3 DEF OneAtATime, ReadsPosition, ReadsPlys
<1> QED
  BY <1>1, <1>2, <1>4 DEF LineInv, LineOf, InOrder, OnePlyAway

LEMMA FreedReads ==
  ASSUME OneAtATime, TypeInv, NEW s \in Session, job' = [job EXCEPT ![s] = NoJob]
  PROVE  \A r \in Session : ReadsPosition(job[r])' /\ ReadsPlys(job[r])'
<1>1. \A r \in Session : job'[r] = NoJob
  BY Freed
<1> QED
  BY <1>1, FreeStage DEF ReadsPosition, ReadsPlys, PlyStages

\* The live plys after a ply has been recorded, and after a rollback.
LEMMA LiveAfterPly ==
  ASSUME FilterPerRow, TypeInv, NEW s \in Session, RecordsPly(s)
  PROVE  LET m == Len(plies) + 1 IN
         /\ m \notin DOMAIN plies /\ m \in Nat
         /\ Live' = Live \cup {m}
         /\ \A i \in DOMAIN plies : plies'[i] = plies[i] /\ i < m
         /\ plies'[m].idx = job[s].cnt /\ plies'[m].sip = job[s].sip
<1> DEFINE m == Len(plies) + 1
<1>1. PICK row \in TimeRow : AppendPly(s, row)
  BY DEF RecordsPly
<1> DEFINE ply == [idx |-> job[s].cnt, sip |-> job[s].sip, cancelled |-> FALSE, time |-> NewTimeId(row)]
<1>2. plies' = Append(plies, ply) /\ ~ply.cancelled /\ ply.idx = job[s].cnt /\ ply.sip = job[s].sip
  BY <1>1 DEF AppendPly
<1> HIDE DEF ply
<1>3. /\ DOMAIN plies = 1..Len(plies) /\ Len(plies) \in Nat
      /\ DOMAIN plies' = 1..m /\ plies'[m] = ply
      /\ \A i \in DOMAIN plies : plies'[i] = plies[i]
  BY <1>2, AppendProperties, LenProperties DEF TypeInv, TypeOK
<1>4. Live' = Live \cup {m}
  <2>1. \A i : i \in 1..m <=> i \in DOMAIN plies \/ i = m
    BY <1>3
  <2> QED
    BY <1>2, <1>3, <2>1 DEF Live, LiveByRow
<1> QED
  BY <1>2, <1>3, <1>4

LEMMA LiveAfterRollback ==
  ASSUME FilterPerRow, TypeInv, NEW s \in Session, CommitRollback(s), ReadsPlys(job[s])
  PROVE  /\ Live' = {i \in Live : plies[i].idx < job[s].keep}
         /\ \A i \in DOMAIN plies : /\ plies'[i].idx = plies[i].idx /\ plies'[i].sip = plies[i].sip
                                    /\ plies'[i].time = plies[i].time
<1> TypeOK
  BY DEF TypeInv
<1>1. job[s].drop = {i \in Live : plies[i].idx >= job[s].keep} /\ job[s].keep \in Nat
  BY DEF CommitRollback, ReadsPlys, TypeOK, Job
<1>2. \A i \in DOMAIN plies : plies[i] \in PlyRow
  BY ElementOfSeq, LenProperties DEF TypeOK
<1>3. /\ DOMAIN plies' = DOMAIN plies
      /\ \A i \in DOMAIN plies :
           /\ plies'[i].idx = plies[i].idx /\ plies'[i].sip = plies[i].sip
           /\ plies'[i].time = plies[i].time
           /\ plies'[i].cancelled <=> plies[i].cancelled \/ i \in job[s].drop
  BY <1>2 DEF CommitRollback, PlyRow
<1>4. \A i \in Live : plies[i].idx \in Nat
  BY LiveRows
<1>5. Live' = {i \in Live : i \notin job[s].drop}
  BY <1>3 DEF Live, LiveByRow
<1>6. \A i \in Live : i \notin job[s].drop <=> plies[i].idx < job[s].keep
  BY <1>1, <1>4
<1> QED
  BY <1>3, <1>5, <1>6

LEMMA LengthAfterPly ==
  ASSUME FilterPerRow, TypeInv, LineInv, NEW s \in Session, RecordsPly(s), NEW n \in Nat, LineOf(n)
  PROVE  LineOf(n + 1)' /\ job[s].cnt = n
<1> TypeOK
  BY DEF TypeInv
<1> DEFINE m == Len(plies) + 1
<1>1. job[s].cnt = n
  BY CurrentOfLine DEF RecordsPly, LineInv, ReadsPosition
<1>2. /\ Live' = Live \cup {m} /\ plies'[m].idx = n
      /\ \A i \in Live : plies'[i] = plies[i]
  BY <1>1, LiveAfterPly, LiveRows
<1> HIDE DEF m
<1>3. \A i \in Live : plies[i].idx \in Nat /\ plies[i].idx < n
  BY LiveRows DEF LineOf
<1>4. \A i \in Live' : plies'[i].idx < n + 1
  BY <1>2, <1>3
<1>5. ASSUME NEW k \in 0..n
      PROVE  \E i \in Live' : plies'[i].idx = k
  <2>1. k = n \/ k \in 0..(n - 1)
    OBVIOUS
  <2>2. CASE k = n
    BY <1>2, <2>2
  <2>3. CASE k \in 0..(n - 1)
    BY <1>2, <2>3 DEF LineOf
  <2> QED
    BY <2>1, <2>2, <2>3
<1>6. (n + 1) - 1 = n
  OBVIOUS
<1> QED
  BY <1>1, <1>4, <1>5, <1>6 DEF LineOf

LEMMA LineExtended ==
  ASSUME FilterPerRow, OneAtATime, TypeInv, LineInv, NEW s \in Session, RecordsPly(s)
  PROVE  LineInv'
<1> TypeOK
  BY DEF TypeInv
<1> DEFINE m == Len(plies) + 1
<1>1. PICK n \in Nat : LineOf(n)
  BY DEF LineInv
<1>2. PICK cur \in Current : job[s].cnt = cur.cnt /\ job[s].sip \in Reach[cur.sip]
  BY DEF RecordsPly, LineInv, ReadsPosition
<1>3. /\ m \notin DOMAIN plies /\ m \in Nat
      /\ Live' = Live \cup {m}
      /\ \A i \in Live : plies'[i] = plies[i] /\ i < m /\ i \in Nat /\ i # m
      /\ plies'[m].idx = n /\ plies'[m].sip = job[s].sip
  BY <1>1, <1>2, LiveAfterPly, CurrentOfLine, LiveRows
<1> HIDE DEF m
<1>4. \A i \in Live : plies[i].idx \in Nat /\ plies[i].idx < n
  BY <1>1, LiveRows DEF LineOf
<1>5. LineOf(n + 1)' /\ n + 1 \in Nat
  BY <1>1, LengthAfterPly
<1>6. InOrder'
  <2> SUFFICES ASSUME NEW i \in Live', NEW j \in Live', i < j
               PROVE  plies'[i].idx < plies'[j].idx
    BY DEF InOrder
  <2>1. CASE j = m
    <3>1. i \in Live
      BY <1>3, <2>1
    <3> QED
      BY <1>3, <1>4, <2>1, <3>1
  <2>2. CASE j \in Live
    <3>1. i \in Live
      BY <1>3, <2>2
    <3> QED
      BY <1>3, <2>2, <3>1 DEF LineInv, InOrder
  <2> QED
    BY <1>3, <2>1, <2>2
<1>7. OnePlyAway'
  <2>1. ASSUME NEW i \in Live', plies'[i].idx = 0
        PROVE  plies'[i].sip \in Reach[StartSip]
    <3>1. CASE i \in Live
      BY <1>3, <2>1, <3>1 DEF LineInv, OnePlyAway
    <3>2. CASE i = m
      <4>1. n = 0
        BY <1>3, <2>1, <3>2
      <4> QED
        BY <1>1, <1>2, <1>3, <3>2, <4>1, CurrentOfLine
    <3> QED
      BY <1>3, <3>1, <3>2
  <2>2. ASSUME NEW i \in Live', NEW j \in Live', plies'[j].idx = plies'[i].idx + 1
        PROVE  plies'[j].sip \in Reach[plies'[i].sip]
    <3>1. i \in Live
      BY <1>3, <1>4, <2>2
    <3>2. CASE j \in Live
      BY <1>3, <2>2, <3>1, <3>2 DEF LineInv, OnePlyAway
    <3>3. CASE j = m
      <4>1. n = plies[i].idx + 1 /\ n # 0
        BY <1>3, <1>4, <2>2, <3>1, <3>3
      <4>2. PICK k \in LastLive : cur.sip = plies[k].sip
        BY <1>1, <4>1, CurrentOfLine
      <4>3. k \in Live /\ plies[k].idx = n - 1
        BY <1>1, LastOfLine DEF LastLive
      <4>4. plies[k].idx = plies[i].idx
        BY <1>4, <3>1, <4>1, <4>3
      <4>5. k = i
        BY <3>1, <4>3, <4>4, OneRowPerIndex DEF LineInv
      <4> QED
        BY <1>2, <1>3, <3>1, <3>3, <4>2, <4>5
    <3> QED
      BY <1>3, <3>2, <3>3
  <2> QED
    BY <2>1, <2>2 DEF OnePlyAway
<1>8. \A r \in Session : ReadsPosition(job[r])' /\ ReadsPlys(job[r])'
  BY FreedReads DEF RecordsPly, AppendPly
<1> QED
  BY <1>5, <1>6, <1>7, <1>8 DEF LineInv

LEMMA LengthAfterRollback ==
  ASSUME FilterPerRow, TypeInv, LineInv, NEW s \in Session, CommitRollback(s),
         NEW keep \in Nat, keep = job[s].keep, NEW n \in Nat, LineOf(n)
  PROVE  LineOf(keep)' /\ keep <= n - 1
<1> TypeOK
  BY DEF TypeInv
<1>2. /\ Live' = {i \in Live : plies[i].idx < keep}
      /\ \A i \in Live : plies'[i].idx = plies[i].idx
  BY LiveAfterRollback, LiveRows DEF LineInv
<1>3. keep <= n - 1
  BY LastOfLine DEF LineInv, ReadsPlys, CommitRollback
<1>4. \A i \in Live' : plies'[i].idx < keep
  BY <1>2
<1>5. ASSUME NEW k \in 0..(keep - 1)
      PROVE  \E i \in Live' : plies'[i].idx = k
  <2>1. k \in 0..(n - 1) /\ k < keep
    BY <1>3
  <2>2. PICK i \in Live : plies[i].idx = k
    BY <2>1 DEF LineOf
  <2> QED
    BY <1>2, <2>1, <2>2
<1> QED
  BY <1>3, <1>4, <1>5 DEF LineOf

LEMMA LineRolledBack ==
  ASSUME FilterPerRow, OneAtATime, TypeInv, LineInv, NEW s \in Session, CommitRollback(s)
  PROVE  LineInv'
<1>1. PICK n \in Nat : LineOf(n)
  BY DEF LineInv
<1>k. PICK keep \in Nat : keep = job[s].keep
  BY DEF TypeInv, TypeOK, Job
<1>2. LineOf(keep)'
  BY <1>1, <1>k, LengthAfterRollback
<1>3. /\ Live' = {i \in Live : plies[i].idx < keep}
      /\ \A i \in Live : plies'[i].idx = plies[i].idx /\ plies'[i].sip = plies[i].sip
  BY <1>k, LiveAfterRollback, LiveRows DEF LineInv, TypeInv
<1>4. InOrder' /\ OnePlyAway'
  BY <1>3 DEF LineInv, InOrder, OnePlyAway
<1>5. \A r \in Session : ReadsPosition(job[r])' /\ ReadsPlys(job[r])'
  BY FreedReads DEF CommitRollback
<1> QED
  BY <1>2, <1>4, <1>5 DEF LineInv

LEMMA LineStep ==
  ASSUME FilterPerRow, OneAtATime, TypeInv, LineInv, [Next]_vars
  PROVE  LineInv'
<1>1. CASE UNCHANGED <<plies, job>>
  <2>1. UNCHANGED <<Live, LastLive, Current>>
    BY <1>1 DEF Live, LiveByRow, LastLive, Current
  <2> QED
    BY <1>1, <2>1 DEF LineInv, LineOf, InOrder, OnePlyAway, ReadsPosition, ReadsPlys
<1> QED
  BY <1>1, PlySteps, LineLeft, LineExtended, LineRolledBack DEF Next, Tick, tables, vars

\* The indices of the live plys are as many as the plys.
LEMMA LineLength ==
  ASSUME TypeOK, InOrder, NEW n \in Nat, LineOf(n)
  PROVE  /\ {plies[i].idx : i \in Live} = 0..(n - 1)
         /\ Cardinality(Live) = n
<1>1. \A i \in Live : plies[i].idx \in Nat /\ plies[i].idx < n
  BY LiveRows DEF LineOf
<1>2. {plies[i].idx : i \in Live} = 0..(n - 1)
  BY <1>1 DEF LineOf
<1> DEFINE f == [i \in Live |-> plies[i].idx]
<1>3. f \in Bijection(Live, 0..(n - 1))
  <2>1. f \in [Live -> 0..(n - 1)]
    BY <1>1
  <2>2. \A i, j \in Live : f[i] = f[j] => i = j
    BY OneRowPerIndex
  <2>3. \A k \in 0..(n - 1) : \E i \in Live : f[i] = k
    BY DEF LineOf
  <2> HIDE DEF f
  <2> QED
    BY <2>1, <2>2, <2>3, Fun_IsBij
<1>4. IsFiniteSet(0..(n - 1)) /\ Cardinality(0..(n - 1)) = n
  BY FS_Interval
<1>5. IsFiniteSet(Live)
  <2>1. Len(plies) \in Nat /\ DOMAIN plies = 1..Len(plies)
    BY LenProperties DEF TypeOK
  <2>2. IsFiniteSet(1..Len(plies)) /\ Live \subseteq 1..Len(plies)
    BY <2>1, FS_Interval, LiveRows
  <2> QED
    BY <2>2, FS_Subset
<1>6. Cardinality(Live) = Cardinality(0..(n - 1))
  BY <1>3, <1>4, <1>5, FS_Bijection DEF ExistsBijection
<1> QED
  BY <1>2, <1>4, <1>6

\* One request at a time, the plys that are not cancelled are a legal game: the
\* ply that is appended is one ply away from the last one, and a rollback cuts
\* the end off (append_ply_sink, perform_rollback).
THEOREM PlysAreALegalGame ==
  ASSUME OneAtATime, FilterPerRow
  PROVE  Spec => []LegalLine
<1>1. Init => TypeInv /\ LineInv
  BY TypeInit, LineInit
<1>2. TypeInv /\ LineInv /\ [Next]_vars => (TypeInv /\ LineInv)'
  BY TypeStep, LineStep
<1>3. TypeInv /\ LineInv => LegalLine
  BY LineLength DEF TypeInv, LineInv, OnePlyAway, LegalLine
<1> QED
  BY <1>1, <1>2, <1>3, PTL DEF Spec

\* Rows that follow each other in the table hold plys that follow each other.
LEMMA NextRow ==
  ASSUME TypeOK, InOrder, NEW n \in Nat, LineOf(n), NEW i \in Live, NEW j \in Live, i < j,
         \A k \in Live : k <= i \/ j <= k
  PROVE  plies[j].idx = plies[i].idx + 1
<1>1. /\ i \in Nat /\ plies[i].idx \in Nat /\ j \in Nat /\ plies[j].idx \in Nat
      /\ plies[i].idx < plies[j].idx /\ plies[j].idx < n
  BY LiveRows DEF InOrder, LineOf
<1>2. PICK k \in Live : plies[k].idx = plies[i].idx + 1
  <2>1. plies[i].idx + 1 \in 0..(n - 1)
    BY <1>1
  <2> QED
    BY <2>1 DEF LineOf
<1>3. k \in Nat /\ (k <= i \/ j <= k)
  BY LiveRows
<1>4. ~(k < i) /\ k # i
  BY <1>1, <1>2 DEF InOrder
<1>5. ~(j < k)
  BY <1>1, <1>2 DEF InOrder
<1>6. k = j
  BY <1>1, <1>3, <1>4, <1>5
<1> QED
  BY <1>2, <1>6

\* Each ply on the board hands the turn over.
LEMMA TurnOver ==
  ASSUME TypeOK, OnePlyAway, NEW i \in Live, NEW j \in Live, plies[j].idx = plies[i].idx + 1
  PROVE  ToMove[plies[j].sip] = Opposite(ToMove[plies[i].sip])
<1>1. plies[i].sip \in Sip /\ plies[j].sip \in Reach[plies[i].sip]
  BY LiveRows DEF OnePlyAway
<1> QED
  BY <1>1, PositionAssumption

\* One request at a time, no player makes two plys in a row ("It's not your turn"
\* in append_ply_sink); two requests at once do, as a run shows.
THEOREM TurnsAlternateInTurn ==
  ASSUME OneAtATime, FilterPerRow
  PROVE  Spec => []TurnsAlternate
<1>1. Init => TypeInv /\ LineInv
  BY TypeInit, LineInit
<1>2. TypeInv /\ LineInv /\ [Next]_vars => (TypeInv /\ LineInv)'
  BY TypeStep, LineStep
<1>3. TypeInv /\ LineInv => TurnsAlternate
  <2> SUFFICES ASSUME TypeInv, LineInv, NEW i \in LiveByRow, NEW j \in LiveByRow, i < j,
                      \A k \in LiveByRow : k <= i \/ j <= k
               PROVE  ToMove[plies[i].sip] # ToMove[plies[j].sip]
    BY DEF TurnsAlternate
  <2>1. Live = LiveByRow
    BY DEF Live
  <2>2. plies[j].idx = plies[i].idx + 1
    BY <2>1, NextRow DEF TypeInv, LineInv
  <2>3. ToMove[plies[j].sip] = Opposite(ToMove[plies[i].sip])
    BY <2>1, <2>2, TurnOver DEF TypeInv, LineInv
  <2>4. ToMove[plies[i].sip] \in Color
    BY <2>1, LiveRows, PositionAssumption DEF TypeInv
  <2> QED
    BY <2>3, <2>4 DEF Color, Opposite
<1> QED
  BY <1>1, <1>2, <1>3, PTL DEF Spec

----------------------------------------------------------------------------
(* The clock of the position *)

\* TicksForMover, read from the last ply.
TicksByLast ==
  times # <<>> =>
    /\ Live = {} => LatestTime.ticking = "none"
    /\ Live # {} =>
         \A i \in LastLive :
           LatestTime.ticking = IF plies[i].idx >= 1 THEN ToMove[plies[i].sip] ELSE "none"

LEMMA TicksLast == TypeInv => (TicksForMover <=> TicksByLast)
<1> SUFFICES ASSUME TypeInv PROVE TicksForMover <=> TicksByLast
  OBVIOUS
<1>1. \A i \in LastLive : plies[i].idx \in Nat /\ (plies[i].idx + 1 >= 2 <=> plies[i].idx >= 1)
  BY LiveRows DEF LastLive, TypeInv
<1>2. CASE Live = {}
  BY <1>2 DEF TicksForMover, TicksByLast, Current
<1>3. CASE Live # {}
  <2>1. Current = {[sip |-> plies[i].sip, cnt |-> plies[i].idx + 1] : i \in LastLive}
    BY <1>3 DEF Current
  <2>2. \A i \in LastLive : \E cur \in Current : cur.sip = plies[i].sip /\ cur.cnt = plies[i].idx + 1
    <3> TAKE i \in LastLive
    <3> DEFINE cur == [sip |-> plies[i].sip, cnt |-> plies[i].idx + 1]
    <3>1. cur \in Current /\ cur.sip = plies[i].sip /\ cur.cnt = plies[i].idx + 1
      BY <2>1
    <3> QED
      BY <3>1
  <2>3. \A cur \in Current : \E i \in LastLive : cur.sip = plies[i].sip /\ cur.cnt = plies[i].idx + 1
    BY <2>1
  <2>4. TicksForMover => TicksByLast
    BY <1>1, <1>3, <2>2 DEF TicksForMover, TicksByLast
  <2>5. TicksByLast => TicksForMover
    BY <1>1, <1>3, <2>3 DEF TicksForMover, TicksByLast
  <2> QED
    BY <2>4, <2>5
<1> QED
  BY <1>2, <1>3

LEMMA LatestAppended ==
  ASSUME TypeInv, NEW row \in TimeRow, times' = Append(times, row)
  PROVE  /\ LatestTime' = row /\ times' # <<>>
         /\ times # <<>> => times'[1] = times[1]
<1>1. times \in Seq(TimeRow) /\ Len(times) \in Nat /\ DOMAIN times = 1..Len(times)
  BY LenProperties DEF TypeInv, TypeOK
<1>2. /\ Len(times') = Len(times) + 1 /\ times'[Len(times) + 1] = row /\ times' # <<>>
      /\ \A i \in 1..Len(times) : times'[i] = times[i]
  BY <1>1, AppendProperties
<1>3. times # <<>> => 1 \in 1..Len(times)
  BY <1>1, EmptySeq
<1> QED
  BY <1>2, <1>3 DEF LatestTime

LEMMA NoJobReadsClock == ReadsRollback(NoJob) /\ ReadsClock(NoJob)
  BY DEF ReadsRollback, ReadsClock, NoJob

\* A step that writes neither plys nor times and leaves a job that has read the
\* clock.
LEMMA TicksLeft ==
  ASSUME OneAtATime, TypeInv, TickInv, UNCHANGED <<plies, times>>,
         \A s \in Session : ReadsRollback(job'[s]) /\ ReadsClock(job'[s])
  PROVE  TickInv'
<1>1. UNCHANGED <<Live, LastLive, Current, LatestTime, InitialTime>>
  BY DEF Live, LiveByRow, LastLive, Current, LatestTime, InitialTime
<1>2. \A keep : TimeRowsBelow(keep)' = TimeRowsBelow(keep)
  BY <1>1 DEF TimeRowsBelow
<1>3. \A s \in Session : ReadsRollback(job[s])'
  BY <1>1, <1>2 DEF ReadsRollback, CountBeforeLastMoveOf
<1>4. \A s \in Session : ReadsClock(job[s])'
  BY <1>1 DEF ReadsClock
<1> QED
  BY <1>1, <1>3, <1>4 DEF TickInv, TicksForMover

LEMMA TicksStarting ==
  ASSUME OneAtATime, TypeInv, TickInv, NEW s \in Session, NEW j, Start(s, j),
         ReadsRollback(j), ReadsClock(j)
  PROVE  TickInv'
<1>1. UNCHANGED <<plies, times>> /\ \A r \in Session : job'[r] = j
  BY DEF Start, tables, OneAtATime, TypeInv, TypeOK
<1> QED
  BY <1>1, TicksLeft

LEMMA TicksEnding ==
  ASSUME OneAtATime, TypeInv, TickInv, NEW s \in Session, UNCHANGED <<plies, times>>,
         job' = [job EXCEPT ![s] = NoJob]
  PROVE  TickInv'
  BY Freed, NoJobReadsClock, TicksLeft

LEMMA TickReads ==
  ASSUME OneAtATime, TypeInv, TickInv, NEW s \in Session
  PROVE  /\ \A client \in Color, original \in Sip \cup {"none"}, sip \in Sip :
              ReadPly(s, client, original, sip) => TickInv'
         /\ ReadClock(s) => TickInv'
         /\ \A client \in Color : AcceptTakeback(s, client) => TickInv'
         /\ \A receiver \in Color : ReadTime(s, receiver) => TickInv'
<1>j. job[s] \in Job /\ job \in [Session -> Job]
  BY DEF TypeInv, TypeOK
<1>1. ASSUME NEW client \in Color, NEW original \in Sip \cup {"none"}, NEW sip \in Sip,
             ReadPly(s, client, original, sip)
      PROVE  TickInv'
  <2>1. PICK cur \in Current :
          Start(s, [NoJob EXCEPT !.stage = "ply", !.at = now, !.cnt = cur.cnt, !.sip = sip,
                                 !.cancels = {x \in Offer : ActiveByCount(x)}])
    BY <1>1 DEF ReadPly
  <2> QED
    BY <2>1, TicksStarting DEF ReadsRollback, ReadsClock, NoJob
<1>2. ASSUME ReadClock(s)
      PROVE  TickInv'
  <2> DEFINE clock == PlyClock(LatestTime, job[s].at, job[s].cnt, ToMove[job[s].sip])
             j     == [job[s] EXCEPT !.stage = "clocked", !.clock = clock]
  <2>1. ~FlagFallen(LatestTime, job[s].at) /\ Start(s, j)
    BY <1>2 DEF ReadClock
  <2>2. /\ j.stage = "clocked" /\ j.clock = clock
        /\ j.at = job[s].at /\ j.cnt = job[s].cnt /\ j.sip = job[s].sip
    BY <1>j DEF Job
  <2>3. j.clock = PlyClock(LatestTime, j.at, j.cnt, ToMove[j.sip]) /\ ~FlagFallen(LatestTime, j.at)
    BY <2>1, <2>2
  <2> HIDE DEF clock, j
  <2>4. ReadsRollback(j) /\ ReadsClock(j)
    BY <2>2, <2>3 DEF ReadsRollback, ReadsClock
  <2> QED
    BY <2>1, <2>4, TicksStarting
<1>3. ASSUME NEW client \in Color, AcceptTakeback(s, client)
      PROVE  TickInv'
  <2> DEFINE author == Opposite(client)
             keep(i) == CountBeforeLastMoveOf(i, author)
  <2>1. PICK i \in LastLive : \E row \in TimeRowsBelow(keep(i)) :
             \E cancels \in SUBSET (Offer \ {<<"takeback", author>>}) :
               Start(s, [RollbackJob(plies[i].idx + 1, keep(i), author, row)
                            EXCEPT !.cancels = cancels, !.action = "accept",
                                   !.offer = <<"takeback", author>>])
    BY <1>3 DEF AcceptTakeback
  <2>2. PICK row \in TimeRowsBelow(keep(i)), cancels \in SUBSET (Offer \ {<<"takeback", author>>}) :
          Start(s, [RollbackJob(plies[i].idx + 1, keep(i), author, row)
                      EXCEPT !.cancels = cancels, !.action = "accept",
                             !.offer = <<"takeback", author>>])
    BY <2>1
  <2> DEFINE j == [RollbackJob(plies[i].idx + 1, keep(i), author, row)
                     EXCEPT !.cancels = cancels, !.action = "accept",
                            !.offer = <<"takeback", author>>]
  <2>3. j.stage = "rollback" /\ j.keep = keep(i) /\ j.by = author
        /\ j.clock = RolledBack(row, keep(i), author)
    BY DEF RollbackJob, NoJob
  <2>4. author \in Color /\ keep(i) = CountBeforeLastMoveOf(i, author)
    BY OppositeType
  <2>5. Start(s, j)
    BY <2>2
  <2> HIDE DEF author, keep, j
  <2>6. ReadsRollback(j)
    BY <2>2, <2>3, <2>4 DEF ReadsRollback
  <2>7. ReadsClock(j)
    BY <2>3 DEF ReadsClock
  <2> QED
    BY <2>5, <2>6, <2>7, TicksStarting
<1>4. ASSUME NEW receiver \in Color, ReadTime(s, receiver)
      PROVE  TickInv'
  <2> DEFINE clock == [LatestTime EXCEPT !.ms[receiver] = @ + Bonus, !.reason = "time_added"]
             j     == [NoJob EXCEPT !.stage = "add", !.at = now, !.clock = clock]
  <2>1. Start(s, j) /\ times # <<>>
    BY <1>4 DEF ReadTime
  <2>2. /\ clock.ticking = LatestTime.ticking
        /\ clock.ms = [LatestTime.ms EXCEPT ![receiver] = @ + Bonus]
    BY TimeRowTypes DEF TimeRow, TypeInv
  <2>3. j.stage = "add" /\ j.clock = clock
    BY DEF NoJob
  <2> HIDE DEF clock, j
  <2>4. ReadsRollback(j) /\ ReadsClock(j)
    BY <2>1, <2>2, <2>3 DEF ReadsRollback, ReadsClock
  <2> QED
    BY <2>1, <2>4, TicksStarting
<1> QED
  BY <1>1, <1>2, <1>3, <1>4

\* The row that is recorded with a ply ticks for the player to move.
LEMMA TicksAfterPly ==
  ASSUME FilterPerRow, ~External, OneAtATime, TypeInv, TypeInv', ClockInv, LineInv, TickInv,
         NEW s \in Session, RecordPly(s)
  PROVE  TickInv'
<1> TypeOK
  BY DEF TypeInv
<1> DEFINE m == Len(plies) + 1
<1>j. job[s] \in Job /\ job[s].stage = "clocked" /\ AppendPly(s, job[s].clock)
  BY DEF RecordPly, TypeOK
<1>r. RecordsPly(s)
  BY <1>j DEF RecordsPly, PlyStages, Job
<1>1. PICK n \in Nat : LineOf(n)
  BY DEF LineInv
<1>2. job[s].cnt = n
  <2>1. PICK cur \in Current : job[s].cnt = cur.cnt
    BY <1>r DEF RecordsPly, LineInv, ReadsPosition
  <2> QED
    BY <1>1, <2>1, CurrentOfLine
<1>3. /\ m \notin DOMAIN plies /\ Live' = Live \cup {m}
      /\ \A i \in Live : plies'[i] = plies[i]
      /\ plies'[m].idx = n /\ plies'[m].sip = job[s].sip
  BY <1>r, <1>2, LiveAfterPly, LiveRows
<1> HIDE DEF m
<1>4. \A i \in LastLive' : i = m
  <2>1. \A i \in Live : plies[i].idx \in Nat /\ plies[i].idx < n
    BY <1>1, LiveRows DEF LineOf
  <2> QED
    BY <1>3, <2>1 DEF LastLive
<1>5. \A r \in Session : (ReadsRollback(job[r]) /\ ReadsClock(job[r]))'
  <2>1. \A r \in Session : job'[r].stage = "idle"
    BY <1>j, Freed, FreeStage DEF AppendPly
  <2> QED
    BY <2>1 DEF ReadsRollback, ReadsClock
<1>6. CASE ~Fischer
  <2>1. times' = <<>>
    BY <1>j, <1>6 DEF ClockInv, JobClockOK, RowOfPly, AppendPly, AddTimeRow
  <2> QED
    BY <1>5, <1>6, <2>1 DEF TickInv, TicksForMover
<1>7. CASE Fischer
  <2>1. /\ job[s].clock.reason = "ply"
        /\ job[s].clock.ticking = IF n >= 1 THEN ToMove[job[s].sip] ELSE "none"
    BY <1>j, <1>2, <1>7 DEF ClockInv, JobClockOK, RowOfPly, TickingAfterPly
  <2>2. times' = Append(times, job[s].clock)
    BY <1>j, <2>1 DEF AppendPly, AddTimeRow, NoRow
  <2>3. LatestTime' = job[s].clock /\ times' # <<>> /\ times'[1] = times[1]
    BY <1>j, <1>7, <2>2, LatestAppended DEF ClockInv, Job
  <2>4. TicksByLast'
    BY <1>3, <1>4, <2>1, <2>3 DEF TicksByLast
  <2>5. TicksForMover'
    BY <2>4, TicksLast, PTL
  <2> QED
    BY <1>5, <1>7, <2>3, <2>5 DEF TickInv
<1> QED
  BY <1>6, <1>7

\* The author of a takeback is the player to move once it has been performed.
LEMMA AuthorMoves ==
  ASSUME TypeOK, LineInv, NEW n \in Nat, LineOf(n), NEW i \in LastLive, NEW by \in Color,
         NEW k \in Live, plies[k].idx = CountBeforeLastMoveOf(i, by) - 1
  PROVE  ToMove[plies[k].sip] = by
<1>1. i \in Live /\ plies[i].idx = n - 1
  BY LastOfLine DEF LastLive
<1>2. /\ plies[i].idx \in Nat /\ plies[k].idx \in Nat
      /\ ToMove[plies[i].sip] \in Color /\ ToMove[plies[k].sip] \in Color
  BY <1>1, LiveRows, PositionAssumption
<1>3. CASE by # ToMove[plies[i].sip]
  <2>1. plies[i].idx = plies[k].idx + 1
    BY <1>2, <1>3 DEF CountBeforeLastMoveOf
  <2>2. ToMove[plies[i].sip] = Opposite(ToMove[plies[k].sip])
    BY <1>1, <2>1, TurnOver DEF LineInv
  <2> QED
    BY <1>2, <1>3, <2>2 DEF Color, Opposite
<1>4. CASE by = ToMove[plies[i].sip]
  <2>1. plies[i].idx = plies[k].idx + 2
    BY <1>2, <1>4 DEF CountBeforeLastMoveOf
  <2>2. plies[i].idx - 1 \in 0..(n - 1)
    BY <1>1, <1>2, <2>1
  <2>3. PICK l \in Live : plies[l].idx = plies[i].idx - 1
    BY <2>2 DEF LineOf
  <2>4. plies[i].idx = plies[l].idx + 1 /\ plies[l].idx = plies[k].idx + 1
    BY <1>2, <2>1, <2>3
  <2>5. /\ ToMove[plies[i].sip] = Opposite(ToMove[plies[l].sip])
        /\ ToMove[plies[l].sip] = Opposite(ToMove[plies[k].sip])
    BY <1>1, <2>4, TurnOver DEF LineInv
  <2> QED
    BY <1>2, <1>4, <2>5 DEF Color, Opposite
<1> QED
  BY <1>3, <1>4

LEMMA TicksAfterRollback ==
  ASSUME FilterPerRow, ~External, OneAtATime, TypeInv, TypeInv', ClockInv, LineInv, TickInv,
         NEW s \in Session, CommitRollback(s)
  PROVE  TickInv'
<1> TypeOK
  BY DEF TypeInv
<1>j. job[s] \in Job /\ job[s].stage = "rollback"
  BY DEF CommitRollback, TypeOK
<1>1. PICK n \in Nat : LineOf(n)
  BY DEF LineInv
<1>2. PICK i \in LastLive : job[s].keep = CountBeforeLastMoveOf(i, job[s].by)
  BY <1>j DEF TickInv, ReadsRollback
<1>3. PICK row \in TimeRowsBelow(job[s].keep) : job[s].clock = RolledBack(row, job[s].keep, job[s].by)
  BY <1>j DEF TickInv, ReadsRollback
<1>k. PICK keep \in Nat : keep = job[s].keep /\ keep <= n - 1
  <2>1. job[s].keep \in Nat /\ \E k \in LastLive : job[s].keep <= plies[k].idx
    BY <1>j DEF LineInv, ReadsPlys, Job
  <2> QED
    BY <1>1, <2>1, LastOfLine
<1>4. /\ Live' = {k \in Live : plies[k].idx < keep}
      /\ \A k \in Live : plies'[k].idx = plies[k].idx /\ plies'[k].sip = plies[k].sip
                       /\ plies[k].idx \in Nat
  BY <1>k, LiveAfterRollback, LiveRows DEF LineInv
<1>5. \A k \in LastLive' : k \in Live /\ plies[k].idx = keep - 1
  <2> TAKE k \in LastLive'
  <2>1. k \in Live /\ plies[k].idx < keep
    BY <1>4 DEF LastLive
  <2>2. keep - 1 \in 0..(n - 1) /\ plies[k].idx \in Nat
    BY <1>k, <1>4, <2>1
  <2>3. PICK l \in Live : plies[l].idx = keep - 1
    BY <1>1, <2>2 DEF LineOf
  <2>4. l \in Live'
    BY <1>4, <2>2, <2>3
  <2>5. plies[l].idx <= plies[k].idx
    BY <1>4, <2>1, <2>3, <2>4 DEF LastLive
  <2> QED
    BY <1>k, <2>1, <2>2, <2>3, <2>5
<1>6. \A r \in Session : (ReadsRollback(job[r]) /\ ReadsClock(job[r]))'
  <2>1. \A r \in Session : job'[r].stage = "idle"
    BY Freed, FreeStage DEF CommitRollback
  <2> QED
    BY <2>1 DEF ReadsRollback, ReadsClock
<1>7. CASE ~Fischer
  <2>1. times' = <<>>
    BY <1>j, <1>7 DEF ClockInv, JobClockOK, RowOfGame, CommitRollback, AddTimeRow
  <2> QED
    BY <1>6, <1>7, <2>1 DEF TickInv, TicksForMover
<1>8. CASE Fischer
  <2>1. PICK t \in job[s].at..now :
          AddTimeRow(IF job[s].clock = NoRow THEN NoRow ELSE [job[s].clock EXCEPT !.at = t])
    BY DEF CommitRollback
  <2>2. job[s].clock # NoRow /\ job[s].clock \in TimeRow
    BY <1>j, <1>8 DEF ClockInv, JobClockOK, RowOfGame, NoRow, Job
  <2> DEFINE new == [job[s].clock EXCEPT !.at = t]
  <2>3. t \in Nat
    BY Instants
  <2>4. /\ new \in TimeRow /\ new.ticking = job[s].clock.ticking /\ new.reason # "none"
        /\ new # NoRow
    BY <1>j, <1>8, <2>2, <2>3 DEF TimeRow, ClockInv, JobClockOK, RowOfGame, NoRow
  <2>5. AddTimeRow(new)
    BY <2>1, <2>2
  <2> HIDE DEF new
  <2>6. times' = Append(times, new)
    BY <2>4, <2>5 DEF AddTimeRow
  <2>7. LatestTime' = new /\ times' # <<>> /\ times'[1] = times[1]
    BY <1>8, <2>4, <2>6, LatestAppended DEF ClockInv
  <2>8. row # NoRow /\ row \in TimeRow
    BY <1>3, <1>k, <2>2, TimeRowsBelowType DEF RolledBack
  <2>9. new.ticking = IF keep >= 2 THEN job[s].by ELSE "none"
    BY <1>3, <1>k, <2>4, <2>8 DEF RolledBack, TimeRow
  <2>10. Live' = {} => keep = 0
    <3>1. keep # 0 => keep - 1 \in 0..(n - 1)
      BY <1>k
    <3>2. keep # 0 => \E l \in Live : plies[l].idx = keep - 1
      BY <1>1, <3>1 DEF LineOf
    <3> QED
      BY <1>4, <3>2
  <2>11. TicksByLast'
    <3>1. Live' = {} => LatestTime'.ticking = "none"
      BY <2>7, <2>9, <2>10
    <3>2. ASSUME NEW k \in LastLive'
          PROVE  LatestTime'.ticking = IF plies'[k].idx >= 1 THEN ToMove[plies'[k].sip] ELSE "none"
      <4>1. k \in Live /\ plies[k].idx = keep - 1 /\ job[s].by \in Color
        BY <1>5, <1>j DEF Job
      <4>2. ToMove[plies[k].sip] = job[s].by
        BY <1>1, <1>2, <1>k, <4>1, AuthorMoves
      <4>3. keep >= 2 <=> plies[k].idx >= 1
        BY <1>k, <4>1
      <4> QED
        BY <1>4, <2>7, <2>9, <4>1, <4>2, <4>3
    <3> QED
      BY <3>1, <3>2 DEF TicksByLast
  <2>12. TicksForMover'
    BY <2>11, TicksLast, PTL
  <2> QED
    BY <1>6, <1>8, <2>7, <2>12 DEF TickInv
<1> QED
  BY <1>7, <1>8

LEMMA TicksAfterTime ==
  ASSUME OneAtATime, TypeInv, TypeInv', TickInv, NEW s \in Session, CommitTime(s)
  PROVE  TickInv'
<1> TypeOK
  BY DEF TypeInv
<1>j. job[s] \in Job /\ job[s].stage = "add"
  BY DEF CommitTime, TypeOK
<1>1. PICK t \in job[s].at..now : times' = Append(times, [job[s].clock EXCEPT !.at = t])
  BY DEF CommitTime
<1> DEFINE new == [job[s].clock EXCEPT !.at = t]
<1>2. new \in TimeRow /\ new.ticking = LatestTime.ticking /\ times # <<>>
  BY <1>j, Instants DEF TimeRow, TickInv, ReadsClock, Job
<1>3. times' = Append(times, new)
  BY <1>1
<1> HIDE DEF new
<1>4. LatestTime' = new /\ times' # <<>> /\ times'[1] = times[1]
  BY <1>2, <1>3, LatestAppended
<1>5. \A r \in Session : (ReadsRollback(job[r]) /\ ReadsClock(job[r]))'
  <2>1. \A r \in Session : job'[r].stage = "idle"
    BY Freed, FreeStage DEF CommitTime
  <2> QED
    BY <2>1 DEF ReadsRollback, ReadsClock
<1>6. Current' = Current
  BY DEF CommitTime, Current, LastLive, Live, LiveByRow
<1> QED
  BY <1>2, <1>4, <1>5, <1>6 DEF TickInv, TicksForMover

LEMMA TickInit ==
  ASSUME Init
  PROVE  TickInv
<1>1. Live = {} /\ Current = {[sip |-> StartSip, cnt |-> 0]}
  BY EmptySeq DEF Init, Live, LiveByRow, Current
<1>2. times # <<>> => times = <<InitRow>> /\ LatestTime = InitRow
  BY DEF Init, LatestTime
<1>3. InitRow.ticking = "none"
  BY DEF InitRow, NoRow
<1>4. \A s \in Session : ReadsRollback(job[s]) /\ ReadsClock(job[s])
  BY NoJobReadsClock DEF Init
<1> QED
  BY <1>1, <1>2, <1>3, <1>4 DEF TickInv, TicksForMover, Init

LEMMA TickStep ==
  ASSUME FilterPerRow, ~External, OneAtATime, TypeInv, ClockInv, LineInv, TickInv, [Next]_vars
  PROVE  TickInv'
<1>t. TypeInv'
  BY TypeStep
<1>1. CASE UNCHANGED <<plies, times, job>>
  BY <1>1, TicksLeft DEF TickInv
<1>2. ASSUME NEW s \in Session, Step(s)
      PROVE  TickInv'
  <2>j. job[s] \in Job /\ job \in [Session -> Job]
    BY DEF TypeInv, TypeOK
  <2>1. ASSUME CancelAllActiveOffers(s)
        PROVE  TickInv'
    <3>1. UNCHANGED <<plies, times>> /\ job'[s].stage = "cleared"
      BY <2>1, <2>j DEF CancelAllActiveOffers, Job
    <3>2. \A r \in Session : ReadsRollback(job'[r]) /\ ReadsClock(job'[r])
      BY <3>1 DEF OneAtATime, ReadsRollback, ReadsClock
    <3> QED
      BY <3>1, <3>2, TicksLeft
  <2>o. ASSUME NEW x, NEW action, StartOffer(s, x, action)
        PROVE  TickInv'
    BY <2>o, TicksStarting DEF StartOffer, ReadsRollback, ReadsClock, NoJob
  <2>2. /\ \A client \in Color : CreateTakeback(s, client) => TickInv'
        /\ \A client \in Color : CreateDraw(s, client) => TickInv'
        /\ \A client \in Color, action \in {"cancel", "decline", "accept"}, kind \in OfferKind :
             AnswerOffer(s, client, action, kind) => TickInv'
        /\ \A client \in Color : VoidTakeback(s, client) => TickInv'
    BY <2>o DEF CreateTakeback, CreateDraw, AnswerOffer, VoidTakeback
  <2>3. TimeoutReached(s) \/ CommitOffer(s) => TickInv'
    BY TicksEnding DEF TimeoutReached, CommitOffer, tables
  <2>4. RecordPly(s) => TickInv'
    BY <1>t, TicksAfterPly
  <2>5. CommitRollback(s) => TickInv'
    BY <1>t, TicksAfterRollback
  <2>6. CommitTime(s) => TickInv'
    BY <1>t, TicksAfterTime
  <2>7. \A client \in Color : Resign(s, client) => TickInv'
    BY <1>1 DEF Resign, tables
  <2>8. Abort(s) => TickInv'
    BY NoJobReadsClock, TicksStarting DEF Abort
  <2>9. /\ \A original, sip, declared : ~ReadExternalPly(s, original, sip, declared)
        /\ \A keep : ~ReadRollback(s, keep)
        /\ \A kind, winner : ~EndExternal(s, kind, winner)
    BY DEF ReadExternalPly, ReadRollback, EndExternal
  <2>10. ~RecordExternalPly(s)
    BY DEF RecordExternalPly, TickInv, ReadsClock
  <2> QED
    BY <1>2, TickReads, <2>1, <2>2, <2>3, <2>4, <2>5, <2>6, <2>7, <2>8, <2>9, <2>10 DEF Step
<1> QED
  BY <1>1, <1>2 DEF Next, Tick, tables, vars

\* One request at a time in a game played here, the latest time row is the clock
\* of the position: it ticks for the player to move from the second ply on, after
\* plys, takebacks and added time alike (construct_new_ply_time_update,
\* perform_rollback, add_time_sink).
THEOREM ClockTicksForTheMover ==
  ASSUME OneAtATime, FilterPerRow, ~External
  PROVE  Spec => []TicksForMover
<1> DEFINE Inv == TypeInv /\ ClockInv /\ LineInv /\ TickInv
<1>1. Init => Inv
  BY TypeInit, ClockInit, LineInit, TickInit
<1>2. Inv /\ [Next]_vars => Inv'
  BY TypeStep, ClockStep, LineStep, TickStep
<1>3. Inv => TicksForMover
  BY DEF TickInv
<1> QED
  BY <1>1, <1>2, <1>3, PTL DEF Spec

----------------------------------------------------------------------------
(* The record of the game *)

Entry == [sip : Sip, ms : [Color -> Int]]
EntryOf(i) == [sip |-> plies[i].sip, ms |-> IF Fischer THEN times[plies[i].time].ms ELSE NoRow.ms]

\* The line of the record, read from the live plys.
LineView ==
  \A n \in Nat : LineOf(n) =>
    /\ Line \in Seq(Entry) /\ Len(Line) = n
    /\ \A i \in Live : Line[plies[i].idx + 1] = EntryOf(i)

LEMMA EntryType ==
  ASSUME TypeInv, ClockInv, NEW i \in Live
  PROVE  EntryOf(i) \in Entry
<1>1. i \in DOMAIN plies /\ plies[i].sip \in Sip
  BY LiveRows DEF TypeInv
<1>2. NoRow.ms \in [Color -> Int]
  BY DEF NoRow
<1>3. Fischer => times[plies[i].time].ms \in [Color -> Int]
  <2>1. Fischer => plies[i].time \in DOMAIN times
    BY <1>1 DEF ClockInv, PlyStartsItsClock
  <2>2. \A k \in DOMAIN times : times[k] \in TimeRow
    BY ElementOfSeq, LenProperties DEF TypeInv, TypeOK
  <2> QED
    BY <2>1, <2>2 DEF TimeRow
<1> QED
  BY <1>1, <1>2, <1>3 DEF Entry, EntryOf

LEMMA LineShape == TypeInv /\ ClockInv /\ LineInv => LineView
<1> SUFFICES ASSUME TypeInv, ClockInv, LineInv, NEW n \in Nat, LineOf(n)
             PROVE  /\ Line \in Seq(Entry) /\ Len(Line) = n
                    /\ \A i \in Live : Line[plies[i].idx + 1] = EntryOf(i)
  BY DEF LineView
<1> TypeOK
  BY DEF TypeInv
<1>1. Cardinality(Live) = n
  BY LineLength DEF LineInv
<1>2. \A i \in Live : plies[i].idx \in 0..(n - 1) /\ PlyAt(plies[i].idx) = plies[i]
  <2> TAKE i \in Live
  <2>1. plies[i].idx \in 0..(n - 1)
    BY LiveRows DEF LineOf
  <2>2. \A k \in Live : plies[k].idx = plies[i].idx => k = i
    BY OneRowPerIndex DEF LineInv
  <2>3. (CHOOSE k \in Live : plies[k].idx = plies[i].idx) = i
    BY <2>2
  <2> QED
    BY <2>1, <2>3 DEF PlyAt
<1> DEFINE e(k) == [sip |-> PlyAt(k - 1).sip,
                    ms  |-> IF Fischer THEN times[PlyAt(k - 1).time].ms ELSE NoRow.ms]
<1>3. Line = [k \in 1..n |-> e(k)]
  BY <1>1 DEF Line
<1>4. ASSUME NEW i \in Live
      PROVE  plies[i].idx + 1 \in 1..n /\ e(plies[i].idx + 1) = EntryOf(i)
  <2>1. plies[i].idx \in 0..(n - 1) /\ plies[i].idx + 1 \in 1..n /\ (plies[i].idx + 1) - 1 = plies[i].idx
    BY <1>2
  <2> QED
    BY <1>2, <2>1 DEF EntryOf
<1>5. \A k \in 1..n : e(k) \in Entry
  <2> TAKE k \in 1..n
  <2>1. k - 1 \in 0..(n - 1)
    OBVIOUS
  <2>2. PICK i \in Live : plies[i].idx = k - 1
    BY <2>1 DEF LineOf
  <2>3. plies[i].idx + 1 = k
    BY <2>2
  <2>4. e(k) = EntryOf(i)
    BY <1>4, <2>3
  <2> QED
    BY <2>4, EntryType
<1> HIDE DEF e
<1>6. Line \in [1..n -> Entry]
  BY <1>3, <1>5
<1>7. Line \in Seq(Entry) /\ Len(Line) = n
  BY <1>6
<1> QED
  BY <1>3, <1>4, <1>7

\* An entry stays when time rows are only added.
LEMMA EntryKept ==
  ASSUME TypeInv, ClockInv, NEW i \in Live, plies'[i].sip = plies[i].sip, plies'[i].time = plies[i].time,
         \A k \in DOMAIN times : times'[k] = times[k]
  PROVE  EntryOf(i)' = EntryOf(i)
<1>1. i \in DOMAIN plies
  BY LiveRows DEF TypeInv
<1>2. Fischer => plies[i].time \in DOMAIN times
  BY <1>1 DEF ClockInv, PlyStartsItsClock
<1> QED
  BY <1>2 DEF EntryOf

\* The position of the record is the one a request reads.
LEMMA RecordPosition ==
  ASSUME TypeInv, LineInv, LineView, NEW n \in Nat, LineOf(n)
  PROVE  /\ Len(Line) = n
         /\ \A cur \in Current : Record!Position(Len(Line)) = cur.sip
         /\ \A i \in LastLive : Record!Position(Len(Line)) = plies[i].sip /\ plies[i].idx = n - 1
<1> TypeOK
  BY DEF TypeInv
<1>1. Len(Line) = n
  BY DEF LineView
<1>2. \A i \in LastLive : Record!Position(n) = plies[i].sip /\ plies[i].idx = n - 1
  <2> TAKE i \in LastLive
  <2>1. i \in Live /\ plies[i].idx = n - 1 /\ n # 0
    BY LastOfLine DEF LastLive
  <2>2. Line[(n - 1) + 1] = EntryOf(i) /\ (n - 1) + 1 = n
    BY <2>1 DEF LineView
  <2> QED
    BY <2>1, <2>2 DEF EntryOf, Record!Position
<1>3. \A cur \in Current : Record!Position(n) = cur.sip
  <2> TAKE cur \in Current
  <2>1. CASE n = 0
    BY <2>1, CurrentOfLine DEF Record!Position
  <2>2. CASE n # 0
    BY <1>2, <2>2, CurrentOfLine
  <2> QED
    BY <2>1, <2>2
<1> QED
  BY <1>1, <1>2, <1>3

RecordInv == TypeInv /\ ClockInv /\ LineInv /\ TickInv /\ OfferInv /\ LineView

\* Nothing is added to the plys, and rows only to the times: the line stays.
LEMMA LineKept ==
  ASSUME RecordInv, RecordInv', UNCHANGED plies, \A k \in DOMAIN times : times'[k] = times[k]
  PROVE  Line' = Line
<1>1. PICK n \in Nat : LineOf(n)
  BY DEF RecordInv, LineInv
<1>2. LineOf(n)' /\ Live' = Live
  BY <1>1 DEF LineOf, Live, LiveByRow
<1>3. /\ Line \in Seq(Entry) /\ Len(Line) = n
      /\ \A i \in Live : Line[plies[i].idx + 1] = EntryOf(i)
  BY <1>1 DEF RecordInv, LineView
<1>4. /\ Line' \in Seq(Entry) /\ Len(Line') = n
      /\ \A i \in Live : Line'[plies[i].idx + 1] = EntryOf(i)'
  BY <1>2 DEF RecordInv, LineView, Entry
<1>5. \A i \in Live : EntryOf(i)' = EntryOf(i)
  BY EntryKept DEF RecordInv
<1>6. ASSUME NEW k \in 1..n
      PROVE  Line'[k] = Line[k]
  <2>1. k - 1 \in 0..(n - 1)
    OBVIOUS
  <2>2. PICK i \in Live : plies[i].idx = k - 1
    BY <1>1, <2>1 DEF LineOf
  <2>3. plies[i].idx + 1 = k
    BY <2>2
  <2> QED
    BY <1>3, <1>4, <1>5, <2>3
<1> QED
  BY <1>3, <1>4, <1>6, SeqEqual

\* A step that closes an offer, or brings one that was there into doubt.
Closes(x) ==
  /\ ToldApart(x)' => ToldApart(x)
  /\ ToldApart(x)' /\ ActiveByCount(x)' => ActiveByCount(x)
  /\ ToldApart(x) /\ ~ActiveByCount(x) => ToldApart(x)'

\* A step that writes no table but offers.
LEMMA OffersClose ==
  ASSUME UNCHANGED <<plies, times>>, \A c \in Color : Closes(<<"takeback", c>>)
  PROVE  Record!CloseOffers
<1>1. Line' = Line
  BY DEF Line, PlyAt, Live, LiveByRow
<1>2. LatestTime' = LatestTime
  BY DEF LatestTime
<1> QED
  BY <1>1, <1>2 DEF Record!CloseOffers, Record!Doubting, Closes

LEMMA NothingRecorded ==
  ASSUME UNCHANGED <<plies, times, offers>>
  PROVE  Record!CloseOffers
<1>1. \A x : (ActiveByCount(x)' <=> ActiveByCount(x)) /\ (ToldApart(x)' <=> ToldApart(x))
  BY DEF ActiveByCount, CountOf, ToldApart
<1>2. \A c \in Color : Closes(<<"takeback", c>>)
  BY <1>1 DEF Closes
<1> QED
  BY <1>2, OffersClose

\* What the commit of an offer is in the record.
LEMMA OfferRecorded ==
  ASSUME RecordInv, NEW s \in Session, CommitOffer(s)
  PROVE  Record!OfferTakeback \/ Record!CloseOffers
<1>1. PICK t \in job[s].at..now : offers' = OfferRows({}, job[s].offer, job[s].action, t)
  BY DEF CommitOffer
<1>2. job[s].stage = "offer" /\ UNCHANGED <<plies, times, now>>
  BY DEF CommitOffer
<1>j. TypeOK /\ OfferInv /\ job[s] \in Job
  BY DEF RecordInv, TypeInv, TypeOK
<1>3. t \in Nat /\ t <= now /\ Reached(t)
  BY <1>j, <1>2, StampReached
<1>4. PICK x \in Offer, action \in OfferAction \cup {"none"} : x = job[s].offer /\ action = job[s].action
  BY <1>j DEF Job
<1>5. \A y \in Offer : MayAdd(y, Added({}, x, action, y))
  BY <1>j, <1>2, <1>4, JobMayAdd
<1>6. \A y \in Offer : Changes(y, Added({}, x, action, y))
  BY <1>j, <1>1, <1>3, <1>4, <1>5, OffersStamped
<1>7. \A y \in Offer : Added({}, x, action, y) = IF y = x THEN action ELSE "none"
  BY DEF Added
<1>8. /\ \A y \in Offer : y # x => (ActiveByCount(y)' <=> ActiveByCount(y)) /\ (ToldApart(y)' <=> ToldApart(y))
      /\ Changes(x, action)
  BY <1>6, <1>7 DEF Changes
<1>9. \A c \in Color : <<"takeback", c>> \in Offer
  BY DEF Offer, OfferKind
<1>10. CASE action # "create" \/ ~ToldApart(x)
  <2>1. ASSUME NEW c \in Color
        PROVE  Closes(<<"takeback", c>>)
    <3>1. PICK y \in Offer : y = <<"takeback", c>>
      BY <1>9
    <3>2. CASE y # x
      BY <1>8, <3>1, <3>2 DEF Closes
    <3>3. CASE y = x
      <4>1. action # "create" /\ action # "none" /\ ToldApart(x) => ActiveByCount(x)
        BY <1>2, <1>4, <1>j, <3>1, <3>3 DEF OfferInv, ReadsOffers
      <4> QED
        BY <1>8, <1>10, <3>1, <3>3, <4>1 DEF Closes, Changes
    <3> QED
      BY <3>2, <3>3
  <2> QED
    BY <1>2, <2>1, OffersClose
<1>11. CASE action = "create" /\ ToldApart(x)
  <2>1. x[1] = "takeback" /\ ~ActiveByCount(x)
    BY <1>2, <1>4, <1>j, <1>11 DEF OfferInv, ReadsOffers
  <2>2. PICK author \in Color : x = <<"takeback", author>>
    BY <2>1 DEF Offer
  <2>3. ToldApart(x)' => ActiveByCount(x)'
    BY <1>8, <1>11 DEF Changes
  <2>4. \A c \in Color : c # author =>
          /\ ActiveByCount(<<"takeback", c>>)' <=> ActiveByCount(<<"takeback", c>>)
          /\ ToldApart(<<"takeback", c>>)' <=> ToldApart(<<"takeback", c>>)
    <3> SUFFICES ASSUME NEW c \in Color, c # author
                 PROVE  /\ ActiveByCount(<<"takeback", c>>)' <=> ActiveByCount(<<"takeback", c>>)
                        /\ ToldApart(<<"takeback", c>>)' <=> ToldApart(<<"takeback", c>>)
      OBVIOUS
    <3>1. PICK y \in Offer : y = <<"takeback", c>>
      BY <1>9
    <3>2. y # x
      BY <2>2, <3>1
    <3> QED
      BY <1>8, <3>1, <3>2
  <2>5. Line' = Line /\ LatestTime' = LatestTime
    BY <1>2 DEF Line, PlyAt, Live, LiveByRow, LatestTime
  <2> DEFINE open  == {c \in Color : ToldApart(<<"takeback", c>>) /\ ActiveByCount(<<"takeback", c>>)}
             doubt == {c \in Color : ~ToldApart(<<"takeback", c>>)}
  <2>6. author \in Color \ (open \cup doubt)
    BY <1>11, <2>1, <2>2
  <2>7. \/ open' = open \cup {author} /\ doubt' = doubt
        \/ doubt' = doubt \cup {author} /\ open' = open
    <3>1. CASE ToldApart(x)'
      BY <1>11, <2>2, <2>3, <2>4, <3>1
    <3>2. CASE ~ToldApart(x)'
      BY <1>11, <2>1, <2>2, <2>4, <3>2
    <3> QED
      BY <3>1, <3>2
  <2> QED
    BY <2>2, <2>5, <2>6, <2>7 DEF Record!OfferTakeback, Record!Players, Color
<1> QED
  BY <1>10, <1>11

\* What clearing the offers is in the record.
LEMMA ClearingRecorded ==
  ASSUME RecordInv, NEW s \in Session, CancelAllActiveOffers(s)
  PROVE  Record!CloseOffers
<1>j. TypeOK /\ OfferInv /\ job[s] \in Job /\ job[s].stage = "ply"
  BY DEF RecordInv, TypeInv, TypeOK, CancelAllActiveOffers
<1>1. PICK t \in job[s].at..now : offers' = OfferRows(job[s].cancels, <<"draw", "white">>, "none", t)
  BY DEF CancelAllActiveOffers
<1>2. PICK cancels, x : cancels = job[s].cancels /\ x = <<"draw", "white">>
  OBVIOUS
<1>3. x \in Offer /\ "none" \in OfferAction \cup {"none"} /\ UNCHANGED <<plies, times>>
  BY <1>2 DEF Offer, OfferKind, Color, CancelAllActiveOffers
<1>4. t \in Nat /\ t <= now /\ Reached(t)
  BY <1>j, StampReached
<1>5. cancels = {y \in Offer : ActiveByCount(y)}
  BY <1>j, <1>2 DEF OfferInv, ReadsOffers
<1>6. \A y \in Offer : /\ Added(cancels, x, "none", y) = IF ActiveByCount(y) THEN "cancel" ELSE "none"
                       /\ MayAdd(y, Added(cancels, x, "none", y))
  BY <1>5 DEF Added, MayAdd
<1>7. offers' = OfferRows(cancels, x, "none", t)
  BY <1>1, <1>2
<1>8. \A y \in Offer : Changes(y, Added(cancels, x, "none", y))
  BY <1>j, <1>3, <1>4, <1>6, <1>7, OffersStamped
<1>9. \A y \in Offer : Closes(y)
  BY <1>6, <1>8 DEF Changes, Closes
<1>10. \A c \in Color : Closes(<<"takeback", c>>)
  BY <1>9 DEF Offer, OfferKind
<1> QED
  BY <1>3, <1>10, OffersClose

\* What the commit of added time is in the record.
LEMMA TimeRecorded ==
  ASSUME RecordInv, RecordInv', NEW s \in Session, CommitTime(s)
  PROVE  Record!AddTime
<1>1. PICK t \in job[s].at..now : times' = Append(times, [job[s].clock EXCEPT !.at = t])
  BY DEF CommitTime
<1>2. job[s].stage = "add" /\ UNCHANGED <<plies, offers>>
  BY DEF CommitTime
<1>j. TypeOK /\ TypeInv /\ job[s].clock \in TimeRow /\ t \in Nat
  BY Instants DEF RecordInv, TypeInv, TypeOK, Job
<1>3. PICK row \in TimeRow : row = [job[s].clock EXCEPT !.at = t]
  BY <1>j DEF TimeRow
<1>4. row.ms = job[s].clock.ms /\ row.ticking = job[s].clock.ticking
  BY <1>j, <1>3 DEF TimeRow
<1>5. /\ job[s].clock.ticking = LatestTime.ticking /\ Fischer
      /\ \E c \in Color : job[s].clock.ms = [LatestTime.ms EXCEPT ![c] = @ + Bonus]
  BY <1>2 DEF RecordInv, TickInv, ReadsClock, ClockInv, JobClockOK
<1>6. PICK c \in Color : row.ms = [LatestTime.ms EXCEPT ![c] = @ + Bonus]
  BY <1>4, <1>5
<1>7. LatestTime' = row
  BY <1>1, <1>3, <1>j, LatestAppended
<1>8. \A k \in DOMAIN times : times'[k] = times[k]
  BY <1>1, <1>3, <1>j, AppendProperties, LenProperties DEF TypeOK
<1>9. Line' = Line
  BY <1>2, <1>8, LineKept
<1>10. \A x : (ActiveByCount(x)' <=> ActiveByCount(x)) /\ (ToldApart(x)' <=> ToldApart(x))
  BY <1>2 DEF ActiveByCount, CountOf, ToldApart
<1> QED
  BY <1>4, <1>5, <1>6, <1>7, <1>9, <1>10 DEF Record!AddTime, Record!Players, Color

\* The clock that is recorded with a ply costs time only to the mover.
LEMMA ClockCharged ==
  ASSUME RecordInv, NEW s \in Session, job[s].stage = "clocked", NEW cur \in Current,
         LatestTime' = IF Fischer THEN job[s].clock ELSE NoRow,
         NEW c \in Color
  PROVE  IF c = LatestTime.ticking
         THEN c = ToMove[cur.sip] /\ 0 < LatestTime'.ms[c] /\ LatestTime'.ms[c] <= LatestTime.ms[c]
         ELSE LatestTime'.ms[c] = LatestTime.ms[c]
<1>j. /\ job[s] \in Job /\ TypeOK /\ ReadsClock(job[s]) /\ RowOfGame(LatestTime)
      /\ (times = <<>> <=> ~Fischer) /\ TicksForMover /\ LatestTime \in TimeRow
  BY LatestRowOfGame, TimeRowTypes DEF RecordInv, TypeInv, TypeOK, TickInv, ClockInv
<1>1. CASE ~Fischer
  <2>1. LatestTime = NoRow
    BY <1>j, <1>1 DEF LatestTime
  <2>2. LatestTime' = NoRow /\ NoRow.ticking # c
    BY <1>1 DEF NoRow, Color
  <2> QED
    BY <2>1, <2>2
<1>2. CASE Fischer
  <2>1. LatestTime # NoRow
    BY <1>j, <1>2 DEF RowOfGame, NoRow
  <2>2. LatestTime'.ms = Charged(LatestTime, job[s].at) /\ ~FlagFallen(LatestTime, job[s].at)
    BY <1>2, <1>j, <2>1 DEF ReadsClock, PlyClock
  <2>3. /\ LatestTime.ms \in [Color -> Int] /\ LatestTime.at \in Nat
        /\ LatestTime.ticking \in Color \cup {"none"} /\ job[s].at \in Nat
    BY <1>j DEF TimeRow, Job
  <2>4. CASE LatestTime.ticking = "none"
    BY <2>2, <2>4 DEF Charged, Color
  <2>5. CASE LatestTime.ticking # "none"
    <3>1. LatestTime.at <= job[s].at
      <4>1. times \in Seq(TimeRow) /\ times # <<>> /\ LatestTime = times[Len(times)]
        BY <1>2, <1>j DEF TypeOK, LatestTime
      <4>2. Len(times) \in DOMAIN times
        BY <4>1, EmptySeq, LenProperties
      <4> QED
        BY <4>1, <4>2 DEF RecordInv, OfferInv, StampInv, StampsBefore
    <3>2. LatestTime'.ms = [LatestTime.ms EXCEPT ![LatestTime.ticking] = @ - (job[s].at - LatestTime.at)]
      BY <2>2, <2>5 DEF Charged
    <3>3. ~(LatestTime'.ms[LatestTime.ticking] <= 0)
      BY <2>2, <2>5 DEF FlagFallen
    <3>4. LatestTime.ticking = ToMove[cur.sip]
      BY <1>2, <1>j, <2>5 DEF TicksForMover
    <3>5. CASE c = LatestTime.ticking
      <4>1. LatestTime'.ms[c] = LatestTime.ms[c] - (job[s].at - LatestTime.at) /\ LatestTime.ms[c] \in Int
        BY <2>3, <3>2, <3>5
      <4> QED
        BY <2>3, <3>1, <3>3, <3>4, <3>5, <4>1
    <3>6. CASE c # LatestTime.ticking
      BY <2>3, <3>2, <3>6
    <3> QED
      BY <3>5, <3>6
  <2> QED
    BY <2>4, <2>5
<1> QED
  BY <1>1, <1>2

\* What the record of a ply is: one entry more.
LEMMA LineAppended ==
  ASSUME FilterPerRow, RecordInv, RecordInv', NEW s \in Session, RecordPly(s),
         NEW n \in Nat, LineOf(n)
  PROVE  /\ LatestTime' = IF Fischer THEN job[s].clock ELSE NoRow
         /\ Line' = Append(Line, [sip |-> job[s].sip, ms |-> LatestTime'.ms])
         /\ Len(Line) = n /\ Len(Line') = n + 1 /\ Line'[n + 1].sip = job[s].sip
<1>j. /\ TypeInv /\ TypeOK /\ ClockInv /\ LineInv /\ job[s] \in Job /\ job[s].stage = "clocked"
      /\ AppendPly(s, job[s].clock) /\ job[s].clock \in TimeRow /\ job[s].sip \in Sip
  BY DEF RecordInv, TypeInv, TypeOK, RecordPly, Job
<1>r. RecordsPly(s)
  BY <1>j DEF RecordsPly, PlyStages
<1>m. PICK m \in Nat : m = Len(plies) + 1
  BY <1>j, LenProperties DEF TypeOK
<1>1. LineOf(n + 1)' /\ job[s].cnt = n /\ n + 1 \in Nat
  BY <1>j, <1>r, LengthAfterPly
<1>2. /\ Live' = Live \cup {m} /\ plies'[m].idx = n /\ plies'[m].sip = job[s].sip
      /\ \A i \in Live : plies'[i] = plies[i]
  BY <1>j, <1>m, <1>r, <1>1, LiveAfterPly, LiveRows
<1>3. plies'[m].time = NewTimeId(job[s].clock)
  <2> DEFINE ply == [idx |-> job[s].cnt, sip |-> job[s].sip, cancelled |-> FALSE,
                     time |-> NewTimeId(job[s].clock)]
  <2>1. plies' = Append(plies, ply) /\ ply.time = NewTimeId(job[s].clock)
    BY <1>j DEF AppendPly
  <2> HIDE DEF ply
  <2>2. plies'[m] = ply
    BY <1>j, <1>m, <2>1, AppendProperties DEF TypeOK
  <2> QED
    BY <2>1, <2>2
<1>4. /\ \A k \in DOMAIN times : times'[k] = times[k]
      /\ LatestTime' = IF Fischer THEN job[s].clock ELSE NoRow
      /\ EntryOf(m)' = [sip |-> job[s].sip, ms |-> LatestTime'.ms]
  <2>1. CASE Fischer
    <3>1. job[s].clock # NoRow
      BY <1>j, <2>1 DEF ClockInv, JobClockOK, RowOfPly, NoRow
    <3>2. times' = Append(times, job[s].clock) /\ NewTimeId(job[s].clock) = Len(times) + 1
      BY <1>j, <3>1 DEF AppendPly, AddTimeRow, NewTimeId
    <3>3. LatestTime' = job[s].clock
      BY <1>j, <3>2, LatestAppended
    <3>4. times'[Len(times) + 1] = job[s].clock /\ \A k \in DOMAIN times : times'[k] = times[k]
      BY <1>j, <3>2, AppendProperties, LenProperties DEF TypeOK
    <3> QED
      BY <1>2, <1>3, <2>1, <3>2, <3>3, <3>4 DEF EntryOf
  <2>2. CASE ~Fischer
    <3>1. job[s].clock = NoRow /\ times = <<>>
      BY <1>j, <2>2 DEF ClockInv, JobClockOK, RowOfPly
    <3>2. times' = times
      BY <1>j, <3>1 DEF AppendPly, AddTimeRow
    <3>3. LatestTime' = NoRow
      BY <3>1, <3>2 DEF LatestTime
    <3> QED
      BY <1>2, <2>2, <3>2, <3>3 DEF EntryOf
  <2> QED
    BY <2>1, <2>2
<1>5. /\ Line \in Seq(Entry) /\ Len(Line) = n
      /\ \A i \in Live : Line[plies[i].idx + 1] = EntryOf(i)
  BY DEF RecordInv, LineView
<1>6. /\ Line' \in Seq(Entry) /\ Len(Line') = n + 1
      /\ \A i \in Live' : Line'[plies'[i].idx + 1] = EntryOf(i)'
  BY <1>1 DEF RecordInv, LineView, Entry
<1>7. \A k \in 1..n : Line'[k] = Line[k]
  <2> TAKE k \in 1..n
  <2>1. k - 1 \in 0..(n - 1)
    OBVIOUS
  <2>2. PICK i \in Live : plies[i].idx = k - 1
    BY <2>1 DEF LineOf
  <2>3. plies[i].idx + 1 = k /\ plies'[i] = plies[i] /\ i \in Live'
    BY <1>2, <2>2
  <2>4. EntryOf(i)' = EntryOf(i)
    BY <1>4, <1>j, <2>3, EntryKept
  <2> QED
    BY <1>5, <1>6, <2>3, <2>4
<1>8. Line'[n + 1] = EntryOf(m)'
  BY <1>2, <1>6
<1> DEFINE e == [sip |-> job[s].sip, ms |-> LatestTime'.ms]
<1>9. Line'[n + 1] = e /\ e.sip = job[s].sip
  BY <1>4, <1>8
<1> HIDE DEF e
<1>10. e \in Entry
  <2>1. n + 1 \in 1..Len(Line')
    BY <1>6
  <2> QED
    BY <1>6, <1>9, <2>1, ElementOfSeq
<1>11. /\ Append(Line, e) \in Seq(Entry) /\ Len(Append(Line, e)) = n + 1
       /\ \A k \in 1..n : Append(Line, e)[k] = Line[k]
       /\ Append(Line, e)[n + 1] = e
  BY <1>5, <1>10, AppendProperties
<1>12. \A k \in 1..(n + 1) : Line'[k] = Append(Line, e)[k]
  <2> TAKE k \in 1..(n + 1)
  <2>1. k \in 1..n \/ k = n + 1
    OBVIOUS
  <2> QED
    BY <1>7, <1>9, <1>11, <2>1
<1>13. Line' = Append(Line, e)
  BY <1>6, <1>11, <1>12, SeqEqual
<1> QED
  BY <1>4, <1>5, <1>6, <1>9, <1>13 DEF e

\* What the commit of a ply is in the record.
LEMMA PlyInRecord ==
  ASSUME FilterPerRow, RecordInv, RecordInv', NEW s \in Session, RecordPly(s)
  PROVE  Record!Play
<1>j. /\ TypeInv /\ TypeOK /\ ClockInv /\ LineInv /\ job[s] \in Job /\ job[s].stage = "clocked"
      /\ UNCHANGED offers
  BY DEF RecordInv, TypeInv, TypeOK, RecordPly, AppendPly
<1>1. PICK n \in Nat : LineOf(n)
  BY <1>j DEF LineInv
<1>2. PICK sip : sip = job[s].sip
  OBVIOUS
<1>3. /\ LatestTime' = IF Fischer THEN job[s].clock ELSE NoRow
      /\ Line' = Append(Line, [sip |-> sip, ms |-> LatestTime'.ms])
      /\ Len(Line) = n /\ Len(Line') = n + 1 /\ Line'[n + 1].sip = sip
  BY <1>1, <1>2, LineAppended
<1>4. PICK cur \in Current : job[s].cnt = cur.cnt /\ sip \in Reach[cur.sip]
  BY <1>j, <1>2 DEF LineInv, ReadsPosition, PlyStages
<1>5. Record!Position(Len(Line)) = cur.sip /\ job[s].cnt = n
  BY <1>1, <1>4, <1>j, CurrentOfLine, RecordPosition DEF RecordInv
<1>6. \A c \in Color : IF c = LatestTime.ticking
                      THEN c = Record!Mover /\ 0 < LatestTime'.ms[c] /\ LatestTime'.ms[c] <= LatestTime.ms[c]
                      ELSE LatestTime'.ms[c] = LatestTime.ms[c]
  BY <1>3, <1>5, <1>j, ClockCharged DEF Record!Mover
<1>7. LatestTime'.ticking = IF Fischer /\ n >= 1 THEN ToMove[sip] ELSE "none"
  <2>1. CASE Fischer
    BY <1>2, <1>3, <1>5, <1>j, <2>1 DEF ClockInv, JobClockOK, RowOfPly, TickingAfterPly
  <2>2. CASE ~Fischer
    BY <1>3, <2>2 DEF NoRow
  <2> QED
    BY <2>1, <2>2
<1>8. \A c \in Color :
        /\ ToldApart(<<"takeback", c>>) => ~ActiveByCount(<<"takeback", c>>)
        /\ ActiveByCount(<<"takeback", c>>)' <=> ActiveByCount(<<"takeback", c>>)
        /\ ToldApart(<<"takeback", c>>)' <=> ToldApart(<<"takeback", c>>)
  <2>1. \A x \in Offer : ToldApart(x) => ~ActiveByCount(x)
    BY <1>j DEF RecordInv, OfferInv, ReadsOffers
  <2>2. \A x : (ActiveByCount(x)' <=> ActiveByCount(x)) /\ (ToldApart(x)' <=> ToldApart(x))
    BY <1>j DEF ActiveByCount, CountOf, ToldApart
  <2> QED
    BY <2>1, <2>2 DEF Offer, OfferKind
<1>9. Record!Players = Color
  BY DEF Record!Players, Color
<1> QED
  BY <1>3, <1>4, <1>5, <1>6, <1>7, <1>8, <1>9 DEF Record!Play

\* The clock that a rollback to keep plys restores.
LEMMA ClockRestored ==
  ASSUME RecordInv, NEW n \in Nat, LineOf(n), NEW keep \in Nat, keep <= n - 1,
         NEW row \in TimeRowsBelow(keep)
  PROVE  row.ms = Record!Reserves(keep) /\ (row = NoRow <=> ~Fischer)
<1>j. TypeInv /\ TypeOK /\ ClockInv /\ LineInv
  BY DEF RecordInv, TypeInv
<1>r. row = NoRow <=> ~Fischer
  <2>1. RowOfGame(row)
    BY <1>j, RowsBelowOfGame
  <2> QED
    BY <2>1 DEF RowOfGame, NoRow
<1> DEFINE below == {i \in Live : plies[i].idx < keep}
           last  == {i \in below : \A k \in below : plies[k].idx <= plies[i].idx}
<1>1. CASE keep = 0
  <2>1. below = {}
    BY <1>j, <1>1, LiveRows
  <2>2. row = InitialTime
    BY <2>1 DEF TimeRowsBelow
  <2>3. InitialTime = IF Fischer THEN InitRow ELSE NoRow
    BY <1>j DEF InitialTime, ClockInv, RecordInv, TickInv
  <2> QED
    BY <1>1, <1>r, <2>2, <2>3 DEF Record!Reserves
<1>2. CASE keep # 0
  <2>1. keep - 1 \in 0..(n - 1)
    BY <1>2
  <2>2. PICK l \in Live : plies[l].idx = keep - 1
    BY <2>1 DEF LineOf
  <2>3. \A i \in Live : plies[i].idx \in Nat
    BY <1>j, LiveRows
  <2>4. l \in below
    BY <2>2, <2>3
  <2>5. PICK i \in last : row = IF plies[i].time = 0 THEN NoRow ELSE times[plies[i].time]
    BY <2>4 DEF TimeRowsBelow
  <2>6. i \in Live /\ plies[i].idx + 1 = keep
    BY <2>1, <2>2, <2>3, <2>4, <2>5
  <2>7. Line[keep] = EntryOf(i)
    BY <2>6 DEF RecordInv, LineView
  <2>8. (plies[i].time # 0) <=> Fischer
    BY <1>j, <2>6, LiveRows DEF ClockInv, PlyStartsItsClock
  <2> QED
    BY <1>2, <1>r, <2>5, <2>7, <2>8 DEF Record!Reserves, EntryOf
<1> QED
  BY <1>1, <1>2

\* What a rollback leaves of the line.
LEMMA LineCut ==
  ASSUME FilterPerRow, RecordInv, RecordInv', NEW s \in Session, CommitRollback(s),
         NEW n \in Nat, LineOf(n), NEW keep \in Nat, keep = job[s].keep,
         \A k \in DOMAIN times : times'[k] = times[k]
  PROVE  Line' = SubSeq(Line, 1, keep) /\ keep <= n - 1
<1>j. TypeInv /\ ClockInv /\ LineInv
  BY DEF RecordInv
<1>1. LineOf(keep)' /\ keep <= n - 1
  BY <1>j, LengthAfterRollback
<1>2. /\ Live' = {i \in Live : plies[i].idx < keep}
      /\ \A i \in Live : /\ plies'[i].idx = plies[i].idx /\ plies'[i].sip = plies[i].sip
                        /\ plies'[i].time = plies[i].time
  BY <1>j, LiveAfterRollback, LiveRows DEF LineInv, TypeInv
<1>3. /\ Line \in Seq(Entry) /\ Len(Line) = n
      /\ \A i \in Live : Line[plies[i].idx + 1] = EntryOf(i)
  BY DEF RecordInv, LineView
<1>4. /\ Line' \in Seq(Entry) /\ Len(Line') = keep
      /\ \A i \in Live' : Line'[plies'[i].idx + 1] = EntryOf(i)'
  BY <1>1 DEF RecordInv, LineView, Entry
<1>5. \A k \in 1..keep : Line'[k] = Line[k]
  <2> TAKE k \in 1..keep
  <2>1. k - 1 \in 0..(n - 1) /\ k - 1 < keep
    BY <1>1
  <2>2. PICK i \in Live : plies[i].idx = k - 1
    BY <2>1 DEF LineOf
  <2>3. plies[i].idx + 1 = k /\ i \in Live' /\ plies'[i].idx + 1 = k
    BY <1>2, <2>1, <2>2
  <2>4. EntryOf(i)' = EntryOf(i)
    BY <1>2, <1>j, EntryKept
  <2> QED
    BY <1>3, <1>4, <2>3, <2>4
<1>6. /\ SubSeq(Line, 1, keep) \in Seq(Entry) /\ Len(SubSeq(Line, 1, keep)) = keep
      /\ \A k \in 1..keep : SubSeq(Line, 1, keep)[k] = Line[k]
  <2>1. \A k \in 1..keep : Line[k] \in Entry
    BY <1>1, <1>3, ElementOfSeq
  <2> QED
    BY <2>1, SubSeqProperties
<1>7. Line' = SubSeq(Line, 1, keep)
  BY <1>4, <1>5, <1>6, SeqEqual
<1> QED
  BY <1>1, <1>7

\* What the commit of an accepted takeback is in the record.
LEMMA TakebackInRecord ==
  ASSUME FilterPerRow, ~External, RecordInv, RecordInv', NEW s \in Session, CommitRollback(s)
  PROVE  Record!Takeback
<1>j. /\ TypeInv /\ TypeOK /\ ClockInv /\ LineInv /\ OfferInv /\ job[s] \in Job /\ job[s].stage = "rollback"
      /\ job[s].clock \in TimeRow /\ job[s].by \in Color
  BY DEF RecordInv, TypeInv, TypeOK, CommitRollback, Job
<1>1. PICK n \in Nat : LineOf(n)
  BY <1>j DEF LineInv
<1>2. PICK by \in Color, keep \in Nat : by = job[s].by /\ keep = job[s].keep
  BY <1>j DEF Job
<1>3. PICK i \in LastLive : keep = CountBeforeLastMoveOf(i, by)
  BY <1>2, <1>j DEF RecordInv, TickInv, ReadsRollback
<1>4. PICK t \in job[s].at..now :
        /\ offers' = OfferRows(job[s].cancels, job[s].offer, job[s].action, t)
        /\ AddTimeRow(IF job[s].clock = NoRow THEN NoRow ELSE [job[s].clock EXCEPT !.at = t])
  BY DEF CommitRollback
<1>5. PICK new : new = IF job[s].clock = NoRow THEN NoRow ELSE [job[s].clock EXCEPT !.at = t]
  OBVIOUS
<1>6. /\ new \in TimeRow /\ AddTimeRow(new) /\ RowOfGame(new)
      /\ new.ms = job[s].clock.ms /\ new.ticking = job[s].clock.ticking
  <2>1. t \in Nat /\ RowOfGame(job[s].clock)
    BY <1>j, Instants DEF ClockInv, JobClockOK
  <2> QED
    BY <1>4, <1>5, <1>j, <2>1, NoRowType DEF TimeRow, RowOfGame
<1>7. /\ \A k \in DOMAIN times : times'[k] = times[k]
      /\ LatestTime'.ms = job[s].clock.ms /\ LatestTime'.ticking = job[s].clock.ticking
  <2>1. \A k \in DOMAIN times : times'[k] = times[k]
    BY <1>j, <1>6, RowAppended
  <2>2. CASE Fischer
    <3>1. new # NoRow /\ times' = Append(times, new)
      BY <1>6, <2>2 DEF RowOfGame, NoRow, AddTimeRow
    <3>2. LatestTime' = new
      BY <1>j, <1>6, <3>1, LatestAppended
    <3> QED
      BY <1>6, <2>1, <3>2
  <2>3. CASE ~Fischer
    <3>1. new = NoRow /\ times' = <<>>
      BY <1>6, <1>j, <2>3 DEF RowOfGame, AddTimeRow, ClockInv
    <3>2. LatestTime' = new
      BY <3>1 DEF LatestTime
    <3> QED
      BY <1>6, <2>1, <3>2
  <2> QED
    BY <2>2, <2>3
<1>8. Line' = SubSeq(Line, 1, keep) /\ keep <= n - 1
  BY <1>1, <1>2, <1>7, LineCut
<1>9. PICK row \in TimeRowsBelow(keep) : job[s].clock = RolledBack(row, keep, by)
  BY <1>2, <1>j DEF RecordInv, TickInv, ReadsRollback
<1>10. row.ms = Record!Reserves(keep) /\ (row = NoRow <=> ~Fischer) /\ row \in TimeRow
  BY <1>1, <1>8, <1>9, <1>j, ClockRestored, TimeRowsBelowType
<1>11. /\ LatestTime'.ms = Record!Reserves(keep)
       /\ LatestTime'.ticking = IF Fischer /\ keep >= 2 THEN by ELSE "none"
  BY <1>7, <1>9, <1>10 DEF RolledBack, TimeRow, NoRow
<1>12. Record!Position(Len(Line)) = plies[i].sip /\ plies[i].idx = n - 1 /\ Len(Line) = n
  BY <1>1, <1>3, <1>j, RecordPosition DEF RecordInv
<1>13. keep = Len(Line) - IF by = Record!Mover THEN 2 ELSE 1
  BY <1>3, <1>12 DEF CountBeforeLastMoveOf, Record!Mover
<1>14. by \in {c \in Color : ToldApart(<<"takeback", c>>) /\ ActiveByCount(<<"takeback", c>>)}
                \cup {c \in Color : ~ToldApart(<<"takeback", c>>)}
  BY <1>2, <1>j DEF OfferInv, ReadsOffers
<1>15. \A c \in Color : /\ ToldApart(<<"takeback", c>>)' => ~ActiveByCount(<<"takeback", c>>)'
                        /\ Closes(<<"takeback", c>>)
  <2>1. t \in Nat /\ t <= now /\ Reached(t)
    BY <1>j, StampReached
  <2>a. PICK cancels : cancels = job[s].cancels
    OBVIOUS
  <2>b. PICK x \in Offer, action \in OfferAction \cup {"none"} :
          x = job[s].offer /\ action = job[s].action
    BY <1>j DEF Job
  <2>2. cancels = job[s].cancels /\ x = job[s].offer /\ action = job[s].action
    BY <2>a, <2>b
  <2>3. \A y \in Offer :
          /\ MayAdd(y, Added(cancels, x, action, y))
          /\ Added(cancels, x, action, y) # "create"
          /\ ToldApart(y) => (Added(cancels, x, action, y) = "none" <=> ~ActiveByCount(y))
    BY <1>j, <2>2, JobMayAdd
  <2>4. offers' = OfferRows(cancels, x, action, t)
    BY <1>4, <2>2
  <2>5. \A y \in Offer : Changes(y, Added(cancels, x, action, y))
    <3>1. \A y \in Offer : MayAdd(y, Added(cancels, x, action, y))
      BY <2>3
    <3> QED
      BY ONLY <1>j, <2>1, <2>4, <3>1, x \in Offer, action \in OfferAction \cup {"none"}, OffersStamped
  <2>6. ASSUME NEW y \in Offer
        PROVE  (ToldApart(y)' => ~ActiveByCount(y)') /\ Closes(y)
    <3>1. CASE Added(cancels, x, action, y) = "none"
      BY <2>3, <2>5, <3>1 DEF Changes, Closes
    <3>2. CASE Added(cancels, x, action, y) # "none"
      BY <2>3, <2>5, <3>2 DEF Changes, Closes
    <3> QED
      BY <3>1, <3>2
  <2> QED
    BY <2>6 DEF Offer, OfferKind
<1>16. /\ {c \in Color : ToldApart(<<"takeback", c>>) /\ ActiveByCount(<<"takeback", c>>)}' = {}
       /\ {c \in Color : ~ToldApart(<<"takeback", c>>)} \subseteq {c \in Color : ~ToldApart(<<"takeback", c>>)}'
       /\ {c \in Color : ~ToldApart(<<"takeback", c>>)}'
            \subseteq {c \in Color : ~ToldApart(<<"takeback", c>>)}
                        \cup {c \in Color : ToldApart(<<"takeback", c>>) /\ ActiveByCount(<<"takeback", c>>)}
  BY <1>15 DEF Closes
<1>17. [ms |-> LatestTime.ms, ticking |-> LatestTime.ticking]' =
          [ms |-> Record!Reserves(keep), ticking |-> IF Fischer /\ keep >= 2 THEN by ELSE "none"]
  BY <1>11
<1>19. keep >= 0 /\ Line' = SubSeq(Line, 1, keep)
  BY <1>8
<1> QED
  BY <1>13, <1>14, <1>16, <1>17, <1>19 DEF Record!Takeback, Record!Doubting

\* Every step of a request is a step of the record, or none.
LEMMA StepRecorded ==
  ASSUME FilterPerRow, ~External, OneAtATime, RecordInv, RecordInv', [Next]_vars
  PROVE  Record!Change
<1> USE DEF Record!Change
<1>1. CASE UNCHANGED <<plies, times, offers>>
  BY <1>1, NothingRecorded
<1>2. ASSUME NEW s \in Session, Step(s)
      PROVE  Record!Change
  <2>s. ASSUME NEW j, Start(s, j)
        PROVE  Record!Change
    BY <1>1, <2>s DEF Start, tables
  <2>1. CancelAllActiveOffers(s) => Record!Change
    BY ClearingRecorded
  <2>2. CommitOffer(s) => Record!Change
    BY OfferRecorded
  <2>3. CommitTime(s) => Record!Change
    BY TimeRecorded
  <2>4. RecordPly(s) => Record!Change
    BY PlyInRecord
  <2>5. CommitRollback(s) => Record!Change
    BY TakebackInRecord
  <2>6. TimeoutReached(s) => Record!Change
    BY <1>1 DEF TimeoutReached, tables
  <2>7. \A client \in Color : Resign(s, client) => Record!Change
    BY <1>1 DEF Resign, tables
  <2>8. /\ \A original, sip, declared : ~ReadExternalPly(s, original, sip, declared)
        /\ \A keep : ~ReadRollback(s, keep)
        /\ \A kind, winner : ~EndExternal(s, kind, winner)
    BY Zenon DEF ReadExternalPly, ReadRollback, EndExternal
  <2>9. ~RecordExternalPly(s)
    BY DEF RecordExternalPly, RecordInv, TickInv, ReadsClock
  <2>10. /\ \A client \in Color, original \in Sip \cup {"none"}, sip \in Sip :
              ReadPly(s, client, original, sip) => Record!Change
         /\ ReadClock(s) => Record!Change
         /\ \A receiver \in Color : ReadTime(s, receiver) => Record!Change
         /\ Abort(s) => Record!Change
    BY <2>s, Zenon DEF ReadPly, ReadClock, ReadTime, Abort
  <2>11. /\ \A client \in Color : CreateTakeback(s, client) => Record!Change
         /\ \A client \in Color : CreateDraw(s, client) => Record!Change
         /\ \A client \in Color, action \in {"cancel", "decline", "accept"}, kind \in OfferKind :
              AnswerOffer(s, client, action, kind) => Record!Change
         /\ \A client \in Color : VoidTakeback(s, client) => Record!Change
    BY <2>s, Zenon DEF CreateTakeback, CreateDraw, AnswerOffer, VoidTakeback, StartOffer
  <2>12. \A client \in Color : AcceptTakeback(s, client) => Record!Change
    <3> TAKE client \in Color
    <3> HAVE AcceptTakeback(s, client)
    <3>1. UNCHANGED <<plies, times, offers>>
      BY DEF AcceptTakeback, Start, tables
    <3> QED
      BY <1>1, <3>1
  <2> QED
    BY <1>2, <2>1, <2>2, <2>3, <2>4, <2>5, <2>6, <2>7, <2>8, <2>9, <2>10, <2>11, <2>12 DEF Step
<1>3. CASE Tick \/ UNCHANGED vars
  BY <1>1, <1>3 DEF Tick, tables, vars
<1> QED
  BY <1>2, <1>3 DEF Next

LEMMA RecordBegins ==
  ASSUME Init, RecordInv
  PROVE  Record!Begin
<1>1. Live = {} /\ LineOf(0) /\ 0 \in Nat
  <2>1. Live = {}
    BY EmptySeq DEF Init, Live, LiveByRow
  <2> QED
    BY <2>1 DEF LineOf
<1>2. Line = <<>>
  BY <1>1, EmptySeq DEF RecordInv, LineView
<1>3. LatestTime = IF Fischer THEN InitRow ELSE NoRow
  BY DEF Init, LatestTime
<1>4. InitRow.ticking = "none" /\ NoRow.ticking = "none"
  BY DEF InitRow, NoRow
<1>5. \A x \in Offer : ToldApart(x) /\ ~ActiveByCount(x)
  <2> TAKE x \in Offer
  <2>1. offers[x] = <<>> /\ OfferOK(x)
    BY DEF Init, RecordInv, OfferInv
  <2>2. ToldApart(x)
    BY <2>1, EmptySeq DEF ToldApart
  <2> QED
    BY <2>1, <2>2, ActiveByLast DEF RecordInv, TypeInv
<1> QED
  BY <1>2, <1>3, <1>4, <1>5 DEF Record!Begin, Offer, OfferKind

\* One request at a time, the tables of a game played here keep the record of a
\* game: a ply adds to it and costs time to its mover only, an accepted takeback
\* returns to the position and the reserves before the last ply of an author who
\* offers it (or changed the offer twice within one second), and nothing else
\* changes it (append_ply_sink, accept_takeback, add_time_sink).
THEOREM TablesKeepTheRecord ==
  ASSUME OneAtATime, FilterPerRow, ~External
  PROVE  Spec => ImplementsRecord
<1> DEFINE Inv == TypeInv /\ ClockInv /\ LineInv /\ TickInv /\ OfferInv
<1>1. Init => Inv
  BY TypeInit, ClockInit, LineInit, TickInit, OfferInit
<1>2. Inv /\ [Next]_vars => Inv'
  BY TypeStep, ClockStep, LineStep, TickStep, OfferStep
<1>3. Inv => RecordInv
  BY LineShape DEF RecordInv
<1>4. Init /\ RecordInv => Record!Begin
  BY RecordBegins
<1>5. RecordInv /\ RecordInv' /\ [Next]_vars => [Record!Change]_(Record!record)
  BY StepRecorded
<1> QED
  BY <1>1, <1>2, <1>3, <1>4, <1>5, PTL DEF Spec, ImplementsRecord, Record!Spec
=============================================================================
