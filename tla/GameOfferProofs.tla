-------------------------- MODULE GameOfferProofs --------------------------
(***************************************************************************)
(* The offers of a game: in a game played here the takebacks that are      *)
(* accepted are the rollbacks that are recorded, and one request at a time *)
(* the two ways to tell an active offer agree.                             *)
(***************************************************************************)
EXTENDS GameProofs, FiniteSetTheorems

----------------------------------------------------------------------------
(* Counting offer rows *)

Counted(seq, actions) == {i \in DOMAIN seq : seq[i].action \in actions}

LEMMA CountedType ==
  ASSUME NEW seq \in Seq(OfferRow), NEW actions
  PROVE  /\ IsFiniteSet(Counted(seq, actions)) /\ Cardinality(Counted(seq, actions)) \in Nat
         /\ (\A i \in DOMAIN seq : seq[i].action \notin actions)
               => Cardinality(Counted(seq, actions)) = 0
<1>1. DOMAIN seq = 1..Len(seq) /\ Len(seq) \in Nat
  BY LenProperties
<1>2. IsFiniteSet(1..Len(seq))
  BY <1>1, FS_Interval
<1>3. Counted(seq, actions) \subseteq 1..Len(seq)
  BY <1>1 DEF Counted
<1>4. (\A i \in DOMAIN seq : seq[i].action \notin actions) => Counted(seq, actions) = {}
  BY DEF Counted
<1> QED
  BY <1>2, <1>3, <1>4, FS_Subset, FS_CardinalityType, FS_EmptySet

LEMMA CountedAppended ==
  ASSUME NEW seq \in Seq(OfferRow), NEW row \in OfferRow, NEW actions
  PROVE  Cardinality(Counted(Append(seq, row), actions))
           = Cardinality(Counted(seq, actions)) + IF row.action \in actions THEN 1 ELSE 0
<1>1. /\ DOMAIN seq = 1..Len(seq) /\ Len(seq) \in Nat
      /\ DOMAIN Append(seq, row) = 1..(Len(seq) + 1)
      /\ \A i \in 1..Len(seq) : Append(seq, row)[i] = seq[i]
      /\ Append(seq, row)[Len(seq) + 1] = row
  BY AppendProperties, LenProperties
<1>2. Counted(Append(seq, row), actions)
        = Counted(seq, actions) \cup (IF row.action \in actions THEN {Len(seq) + 1} ELSE {})
  BY <1>1 DEF Counted
<1>3. Len(seq) + 1 \notin Counted(seq, actions)
  BY <1>1 DEF Counted
<1>4. CASE row.action \in actions
  BY <1>2, <1>3, <1>4, CountedType, FS_AddElement
<1>5. CASE row.action \notin actions
  BY <1>2, <1>5, CountedType
<1> QED
  BY <1>4, <1>5

----------------------------------------------------------------------------
(* Takebacks: the invariant *)

Accepts(c) == CountOf(<<"takeback", c>>, {"accept"})

\* A rollback accepts a takeback, and no other job does.
JobTakebackOK(j) ==
  /\ j.stage = "rollback" =>
       /\ j.offer[1] = "takeback" /\ j.action = "accept"
       /\ j.offer \notin j.cancels
  /\ j.stage = "offer" /\ j.action = "accept" => j.offer[1] = "draw"

TakebackInv ==
  /\ TakebackAtomic
  /\ \A s \in Session : JobTakebackOK(job[s])

----------------------------------------------------------------------------
(* Takebacks: the steps *)

\* New offer rows accept a takeback exactly if that is their action.
LEMMA OfferRowsAccept ==
  ASSUME TypeOK, NEW cancels, NEW x \in Offer, NEW action \in OfferAction \cup {"none"}, NEW t \in Nat,
         offers' = OfferRows(cancels, x, action, t), NEW c \in Color
  PROVE  /\ Accepts(c) \in Nat
         /\ Accepts(c)' = Accepts(c)
              + IF action = "accept" /\ x = <<"takeback", c>> /\ x \notin cancels THEN 1 ELSE 0
<1> DEFINE y == <<"takeback", c>>
<1>1. y \in Offer /\ offers[y] \in Seq(OfferRow)
  BY DEF Offer, OfferKind, TypeOK
<1>2. /\ Accepts(c) = Cardinality(Counted(offers[y], {"accept"}))
      /\ Accepts(c)' = Cardinality(Counted(offers'[y], {"accept"}))
  BY DEF Accepts, CountOf, Counted
<1>3. Accepts(c) \in Nat
  BY <1>1, <1>2, CountedType
<1>4. CASE y \in cancels
  <2> DEFINE row == [action |-> "cancel", at |-> t]
  <2>1. row \in OfferRow /\ row.action = "cancel"
    BY DEF OfferRow, OfferAction
  <2>2. offers'[y] = Append(offers[y], row)
    BY <1>1, <1>4 DEF OfferRows
  <2> HIDE DEF row, y
  <2>3. Accepts(c)' = Accepts(c) + IF row.action \in {"accept"} THEN 1 ELSE 0
    BY <1>1, <1>2, <2>1, <2>2, CountedAppended
  <2> QED
    BY <1>3, <1>4, <2>1, <2>3 DEF y
<1>5. CASE y \notin cancels /\ action # "none" /\ y = x
  <2> DEFINE row == [action |-> action, at |-> t]
  <2>1. row \in OfferRow /\ row.action = action
    BY <1>5 DEF OfferRow
  <2>2. offers'[y] = Append(offers[y], row)
    BY <1>1, <1>5 DEF OfferRows
  <2> HIDE DEF row, y
  <2>3. Accepts(c)' = Accepts(c) + IF row.action \in {"accept"} THEN 1 ELSE 0
    BY <1>1, <1>2, <2>1, <2>2, CountedAppended
  <2> QED
    BY <1>3, <1>5, <2>1, <2>3 DEF y
<1>6. CASE y \notin cancels /\ ~(action # "none" /\ y = x)
  <2>1. offers'[y] = offers[y]
    BY <1>1, <1>6 DEF OfferRows
  <2> QED
    BY <1>2, <1>3, <1>6, <2>1
<1> QED
  BY <1>4, <1>5, <1>6

----------------------------------------------------------------------------
(* Takebacks: the invariant is kept *)

LEMMA NoJobTakeback == JobTakebackOK(NoJob)
  BY DEF JobTakebackOK, NoJob

LEMMA JobTakebacksKept ==
  ASSUME TypeInv, TakebackInv, NEW s \in Session, NEW j, JobTakebackOK(j),
         job' = [job EXCEPT ![s] = j]
  PROVE  \A r \in Session : JobTakebackOK(job[r])'
<1> SUFFICES ASSUME NEW r \in Session PROVE JobTakebackOK(job'[r])
  BY DEF JobTakebackOK
<1> QED
  BY DEF TakebackInv, TypeInv, TypeOK

\* A step that writes neither offers nor rollbacks.
LEMMA TakebacksKept ==
  ASSUME TypeInv, TakebackInv, NEW s \in Session, NEW j, JobTakebackOK(j),
         UNCHANGED <<offers, rollbacks>>, job' = [job EXCEPT ![s] = j]
  PROVE  TakebackInv'
<1>1. \A r \in Session : JobTakebackOK(job[r])'
  BY JobTakebacksKept
<1> QED
  BY <1>1 DEF TakebackInv, TakebackAtomic, CountOf

\* A step that accepts no takeback and rolls nothing back.
LEMMA OtherOffers ==
  ASSUME TypeInv, TakebackInv, ~External, NEW s \in Session, NEW j, JobTakebackOK(j),
         NEW cancels, NEW x \in Offer, NEW action \in OfferAction \cup {"none"}, NEW t \in Nat,
         offers' = OfferRows(cancels, x, action, t), action = "accept" => x[1] = "draw",
         UNCHANGED rollbacks, job' = [job EXCEPT ![s] = j]
  PROVE  TakebackInv'
<1>1. \A r \in Session : JobTakebackOK(job[r])'
  BY JobTakebacksKept
<1>2. ASSUME NEW c \in Color
      PROVE  Accepts(c) \in Nat /\ Accepts(c)' = Accepts(c)
  <2>1. ~(action = "accept" /\ x = <<"takeback", c>> /\ x \notin cancels)
    OBVIOUS
  <2>2. /\ Accepts(c) \in Nat
        /\ Accepts(c)' = Accepts(c)
             + IF action = "accept" /\ x = <<"takeback", c>> /\ x \notin cancels THEN 1 ELSE 0
    BY OfferRowsAccept DEF TypeInv
  <2> HIDE DEF Accepts
  <2> QED
    BY <2>1, <2>2
<1>3. TakebackAtomic'
  BY <1>2 DEF TakebackInv, TakebackAtomic, Accepts, Color
<1> QED
  BY <1>1, <1>3 DEF TakebackInv

LEMMA RollbackCounted ==
  ASSUME TypeInv, TakebackInv, ~External, NEW s \in Session, CommitRollback(s)
  PROVE  TakebackInv'
<1>j. job[s] \in Job /\ JobTakebackOK(job[s]) /\ job[s].stage = "rollback"
  BY DEF TypeInv, TypeOK, TakebackInv, CommitRollback
<1>1. PICK t \in job[s].at..now :
        LET row == IF job[s].clock = NoRow THEN NoRow ELSE [job[s].clock EXCEPT !.at = t]
        IN  /\ offers' = OfferRows(job[s].cancels, job[s].offer, job[s].action, t)
            /\ AddTimeRow(row)
            /\ rollbacks' = Append(rollbacks, [before |-> job[s].cnt, after |-> job[s].keep,
                                               by |-> job[s].by, time |-> NewTimeId(row)])
  BY DEF CommitRollback
<1>2. \A r \in Session : JobTakebackOK(job[r])'
  BY NoJobTakeback, JobTakebacksKept DEF CommitRollback
<1>3. t \in Nat
  BY Instants DEF TypeInv
<1>4. Len(rollbacks') = Len(rollbacks) + 1 /\ Len(rollbacks) \in Nat
  <2>1. rollbacks \in Seq(RollbackRow) /\ rollbacks' \in Seq(RollbackRow)
    BY TypeStep DEF TypeInv, TypeOK, Next, Step
  <2> QED
    BY <1>1, <2>1, LenProperties DEF AddTimeRow
<1>5. PICK author \in Color : job[s].offer = <<"takeback", author>>
  BY <1>j DEF JobTakebackOK, Job, Offer
<1>x. PICK x \in Offer : x = <<"takeback", author>>
  BY DEF Offer, OfferKind
<1>y. PICK cancels : cancels = job[s].cancels
  OBVIOUS
<1>6. ASSUME NEW c \in Color
      PROVE  Accepts(c) \in Nat /\ Accepts(c)' = Accepts(c) + IF c = author THEN 1 ELSE 0
  <2>1. offers' = OfferRows(cancels, x, "accept", t) /\ x \notin cancels
    BY <1>1, <1>5, <1>j, <1>x, <1>y DEF JobTakebackOK
  <2>2. "accept" \in OfferAction \cup {"none"}
    BY DEF OfferAction
  <2>3. (x = <<"takeback", c>>) <=> (c = author)
    BY <1>x
  <2>4. /\ Accepts(c) \in Nat
        /\ Accepts(c)' = Accepts(c)
             + IF "accept" = "accept" /\ x = <<"takeback", c>> /\ x \notin cancels THEN 1 ELSE 0
    BY <1>3, <2>1, <2>2, OfferRowsAccept DEF TypeInv
  <2> HIDE DEF Accepts
  <2> QED
    BY <2>1, <2>3, <2>4
<1>7. TakebackAtomic'
  <2>1. Accepts("white") + Accepts("black") = Len(rollbacks)
    BY DEF TakebackInv, TakebackAtomic, Accepts
  <2>2. Accepts("white")' + Accepts("black")' = Len(rollbacks')
    <3> HIDE DEF Accepts
    <3> QED
      BY <1>4, <1>6, <2>1 DEF Color
  <2> QED
    BY <2>2 DEF TakebackAtomic, Accepts
<1> QED
  BY <1>2, <1>7 DEF TakebackInv

LEMMA TakebackInit == Init => TakebackInv
<1> SUFFICES ASSUME Init PROVE TakebackInv
  OBVIOUS
<1>1. \A c \in Color : Accepts(c) = 0
  <2> SUFFICES ASSUME NEW c \in Color PROVE Accepts(c) = 0
    OBVIOUS
  <2>1. offers[<<"takeback", c>>] = <<>>
    BY DEF Init, Offer, OfferKind
  <2>2. Accepts(c) = Cardinality({})
    BY <2>1 DEF Accepts, CountOf
  <2> QED
    BY <2>2, FS_EmptySet
<1>2. Len(rollbacks) = 0
  BY DEF Init
<1>3. \A s \in Session : JobTakebackOK(job[s])
  BY NoJobTakeback DEF Init
<1> QED
  BY <1>1, <1>2, <1>3 DEF TakebackInv, TakebackAtomic, Accepts, Color

LEMMA TakebackStep ==
  ASSUME TypeInv, TakebackInv, ~External, [Next]_vars
  PROVE  TakebackInv'
<1>u. ASSUME UNCHANGED <<offers, rollbacks, job>>
      PROVE  TakebackInv'
  BY <1>u DEF TakebackInv, JobTakebackOK, TakebackAtomic, CountOf
<1>1. CASE UNCHANGED vars
  BY <1>1, <1>u DEF vars
<1>2. CASE Tick
  BY <1>2, <1>u DEF Tick, tables
<1>3. ASSUME NEW s \in Session, Step(s)
      PROVE  TakebackInv'
  <2> TypeOK
    BY DEF TypeInv
  <2>j. job[s] \in Job /\ JobTakebackOK(job[s]) /\ <<"draw", "white">> \in Offer
    BY DEF TypeOK, TakebackInv, Offer, OfferKind, Color
  <2>k. ASSUME NEW j, JobTakebackOK(j), Start(s, j)
        PROVE  TakebackInv'
    BY <2>k, TakebacksKept DEF Start, tables
  <2>f. ASSUME UNCHANGED <<offers, rollbacks>>, job' = [job EXCEPT ![s] = NoJob]
        PROVE  TakebackInv'
    BY <2>f, NoJobTakeback, TakebacksKept
  <2>o. ASSUME NEW x, NEW action, action = "accept" => x[1] = "draw", StartOffer(s, x, action)
        PROVE  TakebackInv'
    BY <2>o, <2>k DEF StartOffer, JobTakebackOK, NoJob
  <2>1. ASSUME NEW client \in Color, NEW original \in Sip \cup {"none"}, NEW sip \in Sip,
               ReadPly(s, client, original, sip)
        PROVE  TakebackInv'
    BY <2>1, <2>k DEF ReadPly, JobTakebackOK, NoJob
  <2>2. ASSUME CancelAllActiveOffers(s)
        PROVE  TakebackInv'
    <3>1. PICK t \in job[s].at..now :
            /\ offers' = OfferRows(job[s].cancels, <<"draw", "white">>, "none", t)
            /\ job' = [job EXCEPT ![s].stage = "cleared", ![s].at = t]
      BY <2>2 DEF CancelAllActiveOffers
    <3>2. job' = [job EXCEPT ![s] = [job[s] EXCEPT !.stage = "cleared", !.at = t]]
      BY <3>1, <2>j DEF TypeOK, Job
    <3>3. JobTakebackOK([job[s] EXCEPT !.stage = "cleared", !.at = t])
      BY <2>j DEF JobTakebackOK, Job
    <3>4. t \in Nat /\ UNCHANGED rollbacks
      BY <2>2, Instants DEF CancelAllActiveOffers
    <3> QED
      BY <2>j, <3>1, <3>2, <3>3, <3>4, OtherOffers
  <2>3. ASSUME ReadClock(s)
        PROVE  TakebackInv'
    <3>1. \A clock : JobTakebackOK([job[s] EXCEPT !.stage = "clocked", !.clock = clock])
      BY <2>j DEF JobTakebackOK, Job
    <3> QED
      BY <2>3, <2>k, <3>1 DEF ReadClock
  <2>4. ASSUME TimeoutReached(s)
        PROVE  TakebackInv'
    BY <2>4, <2>f DEF TimeoutReached, tables
  <2>5. ASSUME RecordPly(s)
        PROVE  TakebackInv'
    BY <2>5, <2>f DEF RecordPly, AppendPly
  <2>6. ASSUME NEW client \in Color, CreateTakeback(s, client)
        PROVE  TakebackInv'
    BY <2>6, <2>o DEF CreateTakeback
  <2>7. ASSUME NEW client \in Color, CreateDraw(s, client)
        PROVE  TakebackInv'
    BY <2>7, <2>o DEF CreateDraw
  <2>8. ASSUME NEW client \in Color, NEW action \in {"cancel", "decline", "accept"},
               NEW kind \in OfferKind, AnswerOffer(s, client, action, kind)
        PROVE  TakebackInv'
    BY <2>8, <2>o DEF AnswerOffer
  <2>9. ASSUME CommitOffer(s)
        PROVE  TakebackInv'
    <3>1. PICK t \in job[s].at..now : offers' = OfferRows({}, job[s].offer, job[s].action, t)
      BY <2>9 DEF CommitOffer
    <3>2. /\ t \in Nat /\ job[s].offer \in Offer /\ job[s].action \in OfferAction \cup {"none"}
          /\ job[s].action = "accept" => job[s].offer[1] = "draw"
      BY <2>9, <2>j, Instants DEF CommitOffer, JobTakebackOK, Job
    <3> QED
      BY <2>9, <3>1, <3>2, NoJobTakeback, OtherOffers DEF CommitOffer
  <2>10. ASSUME NEW client \in Color, AcceptTakeback(s, client)
         PROVE  TakebackInv'
    <3> DEFINE author  == Opposite(client)
               keep(i) == CountBeforeLastMoveOf(i, author)
               x       == <<"takeback", author>>
    <3>1. PICK i \in LastLive :
            \E row \in TimeRowsBelow(keep(i)) : \E cancels \in SUBSET (Offer \ {x}) :
              Start(s, [RollbackJob(plies[i].idx + 1, keep(i), author, row)
                          EXCEPT !.cancels = cancels, !.action = "accept", !.offer = x])
      BY <2>10 DEF AcceptTakeback
    <3>2. PICK row \in TimeRowsBelow(keep(i)), cancels \in SUBSET (Offer \ {x}) :
            Start(s, [RollbackJob(plies[i].idx + 1, keep(i), author, row)
                        EXCEPT !.cancels = cancels, !.action = "accept", !.offer = x])
      BY <3>1
    <3> DEFINE j == [RollbackJob(plies[i].idx + 1, keep(i), author, row)
                       EXCEPT !.cancels = cancels, !.action = "accept", !.offer = x]
    <3>3. j.action = "accept" /\ j.offer = x /\ j.cancels = cancels /\ j.stage = "rollback"
      BY DEF RollbackJob, NoJob
    <3>4. Start(s, j)
      BY <3>2
    <3> HIDE DEF j
    <3>5. JobTakebackOK(j)
      BY <3>3 DEF JobTakebackOK
    <3> QED
      BY <2>k, <3>4, <3>5
  <2>11. ASSUME NEW client \in Color, VoidTakeback(s, client)
         PROVE  TakebackInv'
    BY <2>11, <2>o DEF VoidTakeback
  <2>12. ASSUME CommitRollback(s)
         PROVE  TakebackInv'
    BY <2>12, RollbackCounted
  <2>13. ASSUME NEW receiver \in Color, ReadTime(s, receiver)
         PROVE  TakebackInv'
    BY <2>13, <2>k DEF ReadTime, JobTakebackOK, NoJob
  <2>14. ASSUME CommitTime(s)
         PROVE  TakebackInv'
    BY <2>14, <2>f DEF CommitTime
  <2>15. ASSUME NEW client \in Color, Resign(s, client)
         PROVE  TakebackInv'
    BY <2>15, <1>u DEF Resign, tables
  <2>16. ASSUME Abort(s)
         PROVE  TakebackInv'
    BY <2>16, <2>f DEF Abort, Start, tables
  <2>17. ASSUME RecordExternalPly(s)
         PROVE  TakebackInv'
    BY <2>17, <2>f DEF RecordExternalPly, AppendPly
  <2>18. /\ \A original, sip, declared : ~ReadExternalPly(s, original, sip, declared)
         /\ \A keep : ~ReadRollback(s, keep)
         /\ \A kind, winner : ~EndExternal(s, kind, winner)
    BY DEF ReadExternalPly, ReadRollback, EndExternal
  <2> QED
    BY <1>3, <2>1, <2>2, <2>3, <2>4, <2>5, <2>6, <2>7, <2>8, <2>9, <2>10, <2>11, <2>12, <2>13,
       <2>14, <2>15, <2>16, <2>17, <2>18 DEF Step
<1> QED
  BY <1>1, <1>2, <1>3 DEF Next

\* In a game played here every accepted takeback was performed, and nothing else
\* was rolled back, though other requests run between its two steps and any of
\* them may raise (accept_takeback).
THEOREM TakebacksAreAtomic == Spec => []TakebackAtomic
<1>1. CASE External
  <2>1. TakebackAtomic
    BY <1>1 DEF TakebackAtomic
  <2> QED
    BY <2>1, PTL
<1>2. CASE ~External
  <2>1. Init => TypeInv /\ TakebackInv
    BY TypeInit, TakebackInit
  <2>2. TypeInv /\ TakebackInv /\ [Next]_vars => (TypeInv /\ TakebackInv)'
    BY <1>2, TypeStep, TakebackStep
  <2>3. TypeInv /\ TakebackInv => TakebackAtomic
    BY DEF TakebackInv
  <2> QED
    BY <2>1, <2>2, <2>3, PTL DEF Spec
<1> QED
  BY <1>1, <1>2

----------------------------------------------------------------------------
(* Active offers: the invariant.  What it says of a job is that it holds    *)
(* what a request would read now: no other request has written since.       *)

\* The stamps of the rows are in the past, and no request started before them.
Reached(t) ==
  /\ \A i \in DOMAIN times : times[i].at <= t
  /\ \A x \in Offer : \A i \in DOMAIN offers[x] : offers[x][i].at <= t
StampsBefore(j) ==
  /\ j.stage # "idle" => j.at <= now /\ \A i \in DOMAIN times : times[i].at <= j.at
  /\ j.stage = "clocked" => j.clock.at <= now
  /\ j.stage \notin {"idle", "cleared", "clocked"} => Reached(j.at)
StampInv ==
  /\ \A i \in DOMAIN times : times[i].at <= now
  /\ \A x \in Offer : \A i \in DOMAIN offers[x] : offers[x][i].at <= now
  /\ \A s \in Session : StampsBefore(job[s])

\* A draw is never created, and a takeback that is active is not created again
\* unless its rows cannot be told apart.
OfferOK(x) ==
  LET rows == offers[x] IN
  /\ \A i, k \in DOMAIN rows : i < k => rows[i].at <= rows[k].at
  /\ x[1] = "draw" => \A i \in DOMAIN rows : rows[i].action # "create"
  /\ x[1] = "takeback" /\ ToldApart(x) =>
       CountOf(x, {"create"}) - CountOf(x, OfferAction \ {"create"})
         = IF rows # <<>> /\ rows[Len(rows)].action = "create" THEN 1 ELSE 0

\* What a request has read of the offers.  It is right about those whose rows can
\* be told apart.
ReadsOffers(j) ==
  /\ j.stage = "ply" => j.cancels = {x \in Offer : ActiveByCount(x)}
  /\ j.stage \in {"cleared", "clocked"} => \A x \in Offer : ToldApart(x) => ~ActiveByCount(x)
  /\ j.stage = "offer" =>
       CASE j.action = "create" ->
              j.offer[1] = "takeback" /\ (ToldApart(j.offer) => ~ActiveByCount(j.offer))
         [] j.action = "accept" -> j.offer[1] = "draw"
         [] OTHER -> j.action # "none" /\ (ToldApart(j.offer) => ActiveByCount(j.offer))
  /\ j.stage = "rollback" =>
       IF External THEN j.cancels = {} /\ j.action = "none"
       ELSE /\ j.action = "accept" /\ j.offer = <<"takeback", j.by>>
            /\ ToldApart(j.offer) => ActiveByCount(j.offer)
            /\ j.cancels \subseteq Offer \ {j.offer}
            /\ \A x \in Offer \ {j.offer} : ToldApart(x) => (x \in j.cancels <=> ActiveByCount(x))

OfferInv ==
  /\ StampInv
  /\ \A x \in Offer : OfferOK(x)
  /\ \A s \in Session : ReadsOffers(job[s])

----------------------------------------------------------------------------
(* Active offers: the steps *)

\* What OfferRows adds to the rows of an offer.
Added(cancels, x, action, y) ==
  IF y \in cancels THEN "cancel" ELSE IF y = x THEN action ELSE "none"

LEMMA OfferRowsAdd ==
  ASSUME TypeOK, NEW cancels, NEW x \in Offer, NEW action \in OfferAction \cup {"none"}, NEW t \in Nat,
         offers' = OfferRows(cancels, x, action, t), NEW y \in Offer
  PROVE  LET a == Added(cancels, x, action, y) IN
         /\ a \in OfferAction \cup {"none"}
         /\ a = "none" => offers'[y] = offers[y]
         /\ a # "none" => offers'[y] = Append(offers[y], [action |-> a, at |-> t])
  BY DEF OfferRows, Added, OfferAction

\* An offer after one more row.
LEMMA OfferAppended ==
  ASSUME TypeOK, NEW y \in Offer, NEW a \in OfferAction, NEW t \in Nat,
         offers'[y] = Append(offers[y], [action |-> a, at |-> t])
  PROVE  LET n == Len(offers[y]) IN
         /\ n \in Nat /\ DOMAIN offers[y] = 1..n /\ DOMAIN offers'[y] = 1..(n + 1)
         /\ \A i \in 1..n : offers'[y][i] = offers[y][i]
         /\ offers'[y][n + 1].action = a /\ offers'[y][n + 1].at = t
         /\ offers'[y] # <<>> /\ Len(offers'[y]) = n + 1
         /\ CountOf(y, {"create"})' = CountOf(y, {"create"}) + IF a = "create" THEN 1 ELSE 0
         /\ CountOf(y, OfferAction \ {"create"})'
              = CountOf(y, OfferAction \ {"create"}) + IF a = "create" THEN 0 ELSE 1
         /\ CountOf(y, {"create"}) \in Nat /\ CountOf(y, OfferAction \ {"create"}) \in Nat
<1> DEFINE row == [action |-> a, at |-> t]
           seq == offers[y]
<1>1. seq \in Seq(OfferRow) /\ row \in OfferRow /\ row.action = a /\ row.at = t
  BY DEF TypeOK, OfferRow
<1>2. offers'[y] = Append(seq, row)
  OBVIOUS
<1> HIDE DEF row, seq
<1>3. /\ Len(seq) \in Nat /\ DOMAIN seq = 1..Len(seq) /\ DOMAIN offers'[y] = 1..(Len(seq) + 1)
      /\ \A i \in 1..Len(seq) : offers'[y][i] = seq[i]
      /\ offers'[y][Len(seq) + 1] = row
      /\ offers'[y] # <<>> /\ Len(offers'[y]) = Len(seq) + 1
  BY <1>1, <1>2, AppendProperties, LenProperties
<1>4. ASSUME NEW actions
      PROVE  /\ CountOf(y, actions) = Cardinality(Counted(seq, actions))
             /\ Cardinality({i \in DOMAIN offers'[y] : offers'[y][i].action \in actions})
                  = CountOf(y, actions) + IF a \in actions THEN 1 ELSE 0
             /\ CountOf(y, actions) \in Nat
  <2>1. CountOf(y, actions) = Cardinality(Counted(seq, actions))
    BY DEF CountOf, Counted, seq
  <2>2. {i \in DOMAIN offers'[y] : offers'[y][i].action \in actions} = Counted(Append(seq, row), actions)
    BY <1>2 DEF Counted
  <2>3. Cardinality(Counted(Append(seq, row), actions))
          = Cardinality(Counted(seq, actions)) + IF row.action \in actions THEN 1 ELSE 0
    BY <1>1, CountedAppended
  <2>4. Cardinality(Counted(seq, actions)) \in Nat
    BY <1>1, CountedType
  <2> QED
    BY <1>1, <2>1, <2>2, <2>3, <2>4
<1>5. /\ CountOf(y, {"create"})' = CountOf(y, {"create"}) + IF a \in {"create"} THEN 1 ELSE 0
      /\ CountOf(y, OfferAction \ {"create"})'
           = CountOf(y, OfferAction \ {"create"}) + IF a \in OfferAction \ {"create"} THEN 1 ELSE 0
  BY <1>4 DEF CountOf
<1>6. CountOf(y, {"create"}) \in Nat /\ CountOf(y, OfferAction \ {"create"}) \in Nat
  BY <1>4
<1>7. (a \in {"create"} <=> a = "create") /\ (a \in OfferAction \ {"create"} <=> a # "create")
  OBVIOUS
<1>8. /\ CountOf(y, {"create"})' = CountOf(y, {"create"}) + IF a = "create" THEN 1 ELSE 0
      /\ CountOf(y, OfferAction \ {"create"})'
           = CountOf(y, OfferAction \ {"create"}) + IF a = "create" THEN 0 ELSE 1
  BY <1>5, <1>7
<1> QED
  BY <1>1, <1>3, <1>6, <1>8 DEF seq

\* Rows that can be told apart could be before one more was added.
LEMMA ToldApartBefore ==
  ASSUME NEW y, DOMAIN offers[y] \subseteq DOMAIN offers'[y],
         \A i \in DOMAIN offers[y] : offers'[y][i] = offers[y][i]
  PROVE  ToldApart(y)' => ToldApart(y)
<1> SUFFICES ASSUME ToldApart(y)', NEW i \in DOMAIN offers[y], NEW k \in DOMAIN offers[y], i # k
             PROVE  offers[y][i].at # offers[y][k].at
  BY DEF ToldApart
<1>1. offers'[y][i].at # offers'[y][k].at
  BY DEF ToldApart
<1> QED
  BY <1>1

\* An offer is active exactly if its last row creates it.
LEMMA ActiveByLast ==
  ASSUME TypeOK, NEW x \in Offer, OfferOK(x), ToldApart(x)
  PROVE  ActiveByCount(x) <=> offers[x] # <<>> /\ offers[x][Len(offers[x])].action = "create"
<1> DEFINE rows == offers[x]
<1>1. /\ rows \in Seq(OfferRow) /\ Len(rows) \in Nat /\ DOMAIN rows = 1..Len(rows)
      /\ rows # <<>> => Len(rows) \in DOMAIN rows
  BY LenProperties, EmptySeq DEF TypeOK
<1>2. CountOf(x, {"create"}) = Cardinality(Counted(rows, {"create"}))
      /\ CountOf(x, OfferAction \ {"create"}) = Cardinality(Counted(rows, OfferAction \ {"create"}))
  BY DEF CountOf, Counted
<1>3. CountOf(x, {"create"}) \in Nat /\ CountOf(x, OfferAction \ {"create"}) \in Nat
  BY <1>1, <1>2, CountedType
<1>4. CASE x[1] = "draw"
  <2>1. \A i \in DOMAIN rows : rows[i].action # "create"
    BY <1>4 DEF OfferOK
  <2>2. CountOf(x, {"create"}) = 0
    BY <1>1, <1>2, <2>1, CountedType
  <2> QED
    BY <1>1, <1>3, <2>1, <2>2 DEF ActiveByCount
<1>5. CASE x[1] = "takeback"
  BY <1>3, <1>5 DEF OfferOK, ActiveByCount
<1> QED
  BY <1>4, <1>5 DEF Offer, OfferKind

LEMMA OfferAnswers ==
  ASSUME TypeOK, NEW x \in Offer, OfferOK(x), ToldApart(x)
  PROVE  ActiveAnswers(x) = {ActiveByCount(x)}
<1> DEFINE rows == offers[x]
           n    == Len(rows)
<1>1. /\ rows \in Seq(OfferRow) /\ n \in Nat /\ DOMAIN rows = 1..n
      /\ rows # <<>> => n \in DOMAIN rows
  BY LenProperties, EmptySeq DEF TypeOK
<1>2. \A i \in DOMAIN rows : rows[i].at \in Nat
  <2> TAKE i \in DOMAIN rows
  <2>1. rows[i] \in OfferRow
    BY <1>1, ElementOfSeq
  <2> QED
    BY <2>1 DEF OfferRow
<1>a. ActiveByCount(x) = TRUE \/ ActiveByCount(x) = FALSE
  BY DEF ActiveByCount
<1>3. CASE rows = <<>>
  <2>1. ActiveByCount(x) = FALSE
    BY <1>3, <1>a, ActiveByLast
  <2>2. ActiveAnswers(x) = {FALSE}
    BY <1>3 DEF ActiveAnswers
  <2> QED
    BY <2>1, <2>2
<1>4. CASE rows # <<>>
  <2>1. \A i \in DOMAIN rows : i # n => rows[i].at < rows[n].at
    <3>1. \A i \in DOMAIN rows : i # n => i < n /\ rows[i].at # rows[n].at
      BY <1>1, <1>4 DEF ToldApart
    <3> QED
      BY <1>1, <1>2, <1>4, <3>1 DEF OfferOK
  <2>2. {k \in DOMAIN rows : \A j \in DOMAIN rows : rows[j].at <= rows[k].at} = {n}
    <3>1. \A k \in DOMAIN rows : (\A j \in DOMAIN rows : rows[j].at <= rows[k].at) => k = n
      BY <1>1, <1>2, <1>4, <2>1
    <3>2. \A j \in DOMAIN rows : rows[j].at <= rows[n].at
      BY <1>1, <1>2, <1>4, <2>1
    <3> QED
      BY <1>1, <1>4, <3>1, <3>2
  <2>3. LatestActions(x) = {rows[n].action}
    BY <2>2 DEF LatestActions
  <2>4. ActiveAnswers(x) = {a = "create" : a \in LatestActions(x)}
    BY <1>4 DEF ActiveAnswers
  <2>5. ActiveByCount(x) <=> rows[n].action = "create"
    BY <1>4, ActiveByLast
  <2>6. CASE rows[n].action = "create"
    <3>1. ActiveByCount(x) = TRUE
      BY <1>a, <2>5, <2>6
    <3>2. (rows[n].action = "create") = TRUE
      BY <2>6
    <3>3. ActiveAnswers(x) = {rows[n].action = "create"}
      BY <2>3, <2>4, Zenon
    <3> QED
      BY <3>1, <3>2, <3>3, Zenon
  <2>7. CASE rows[n].action # "create"
    <3>1. ActiveByCount(x) = FALSE
      BY <1>a, <2>5, <2>7
    <3>2. (rows[n].action = "create") = FALSE
      BY <2>7
    <3>3. ActiveAnswers(x) = {rows[n].action = "create"}
      BY <2>3, <2>4, Zenon
    <3> QED
      BY <3>1, <3>2, <3>3, Zenon
  <2> QED
    BY <2>6, <2>7
<1> QED
  BY <1>3, <1>4

\* A row that may be added: a takeback whose rows can be told apart is created
\* when it is not active and answered when it is, a draw is never created.
MayAdd(y, a) ==
  /\ y[1] = "draw" => a # "create"
  /\ y[1] = "takeback" /\ a # "none" /\ ToldApart(y) => (a = "create" <=> ~ActiveByCount(y))

LEMMA OfferStays ==
  ASSUME TypeOK, NEW cancels, NEW x \in Offer, NEW action \in OfferAction \cup {"none"}, NEW t \in Nat,
         offers' = OfferRows(cancels, x, action, t), NEW y \in Offer, OfferOK(y),
         \A i \in DOMAIN offers[y] : offers[y][i].at <= t,
         MayAdd(y, Added(cancels, x, action, y))
  PROVE  OfferOK(y)'
<1> DEFINE a == Added(cancels, x, action, y)
<1>0. y[1] = "draw" \/ y[1] = "takeback"
  BY DEF Offer, OfferKind
<1>1. CASE a = "none"
  <2>1. offers'[y] = offers[y]
    BY <1>1, OfferRowsAdd
  <2> QED
    BY <2>1 DEF OfferOK, CountOf, ToldApart
<1>2. CASE a # "none"
  <2> DEFINE n == Len(offers[y])
  <2>1. a \in OfferAction /\ offers'[y] = Append(offers[y], [action |-> a, at |-> t])
    BY <1>2, OfferRowsAdd
  <2>2. MayAdd(y, a)
    OBVIOUS
  <2> HIDE DEF a
  <2>3. /\ n \in Nat /\ DOMAIN offers[y] = 1..n /\ DOMAIN offers'[y] = 1..(n + 1)
        /\ \A i \in 1..n : offers'[y][i] = offers[y][i]
        /\ offers'[y][n + 1].action = a /\ offers'[y][n + 1].at = t
        /\ offers'[y] # <<>> /\ Len(offers'[y]) = n + 1
        /\ CountOf(y, {"create"})' = CountOf(y, {"create"}) + IF a = "create" THEN 1 ELSE 0
        /\ CountOf(y, OfferAction \ {"create"})'
             = CountOf(y, OfferAction \ {"create"}) + IF a = "create" THEN 0 ELSE 1
        /\ CountOf(y, {"create"}) \in Nat /\ CountOf(y, OfferAction \ {"create"}) \in Nat
    BY <2>1, OfferAppended
  <2> HIDE DEF n
  <2>4. \A i, k \in DOMAIN offers'[y] : i < k => offers'[y][i].at <= offers'[y][k].at
    <3> SUFFICES ASSUME NEW i \in DOMAIN offers'[y], NEW k \in DOMAIN offers'[y], i < k
                 PROVE  offers'[y][i].at <= offers'[y][k].at
      OBVIOUS
    <3>1. i \in 1..n
      BY <2>3
    <3>2. CASE k = n + 1
      BY <2>3, <3>1, <3>2
    <3>3. CASE k \in 1..n
      BY <2>3, <3>1, <3>3 DEF OfferOK
    <3> QED
      BY <2>3, <3>2, <3>3
  <2>a. ToldApart(y)' => ToldApart(y)
    <3>1. DOMAIN offers[y] \subseteq DOMAIN offers'[y]
      BY <2>3
    <3>2. \A i \in DOMAIN offers[y] : offers'[y][i] = offers[y][i]
      BY <2>3
    <3> QED
      BY <3>1, <3>2, ToldApartBefore
  <2>5. CASE y[1] = "draw"
    <3>1. \A i \in DOMAIN offers'[y] : offers'[y][i].action # "create"
      BY <2>2, <2>3, <2>5 DEF OfferOK, MayAdd
    <3> QED
      BY <2>4, <2>5, <3>1 DEF OfferOK
  <2>6. CASE y[1] = "takeback" /\ ~ToldApart(y)'
    BY <2>4, <2>6 DEF OfferOK
  <2>7. CASE y[1] = "takeback" /\ ToldApart(y)'
    <3>1. CountOf(y, {"create"}) - CountOf(y, OfferAction \ {"create"})
            = IF ActiveByCount(y) THEN 1 ELSE 0
      BY <2>a, <2>7, ActiveByLast DEF OfferOK
    <3>2. a = "create" <=> ~ActiveByCount(y)
      BY <1>2, <2>2, <2>a, <2>7 DEF MayAdd, a
    <3>3. CountOf(y, {"create"})' - CountOf(y, OfferAction \ {"create"})'
            = IF a = "create" THEN 1 ELSE 0
      BY <2>3, <3>1, <3>2
    <3> QED
      BY <2>3, <2>4, <2>7, <3>3 DEF OfferOK
  <2> QED
    BY <1>0, <2>5, <2>6, <2>7
<1> QED
  BY <1>1, <1>2

LEMMA NoJobReadsOffers == StampsBefore(NoJob) /\ ReadsOffers(NoJob)
  BY DEF StampsBefore, ReadsOffers, NoJob

LEMMA OfferInit == Init => OfferInv
<1> SUFFICES ASSUME Init PROVE OfferInv
  OBVIOUS
<1>1. \A i \in DOMAIN times : times[i].at = 0
  <2>1. InitRow.at = 0
    BY DEF InitRow, NoRow
  <2>2. \A i \in DOMAIN <<>> : <<>>[i].at = 0
    OBVIOUS
  <2>3. \A i \in DOMAIN <<InitRow>> : <<InitRow>>[i].at = 0
    BY <2>1
  <2> QED
    BY <2>2, <2>3 DEF Init
<1>2. \A x \in Offer : offers[x] = <<>> /\ DOMAIN offers[x] = {}
  BY EmptySeq DEF Init
<1>3. StampInv
  BY <1>1, <1>2, NoJobReadsOffers DEF StampInv, Init
<1>4. \A x \in Offer : OfferOK(x)
  <2> TAKE x \in Offer
  <2>1. CountOf(x, {"create"}) = 0 /\ CountOf(x, OfferAction \ {"create"}) = 0
    <3>1. ASSUME NEW actions
          PROVE  CountOf(x, actions) = 0
      <4>1. {i \in DOMAIN offers[x] : offers[x][i].action \in actions} = {}
        BY <1>2
      <4> QED
        BY <4>1, FS_EmptySet DEF CountOf
    <3> QED
      BY <3>1
  <2> QED
    BY <1>2, <2>1 DEF OfferOK
<1> QED
  BY <1>3, <1>4, NoJobReadsOffers DEF OfferInv, Init

\* A request starts at or after every stamp, and answers what is active.
LEMMA ReadyReached ==
  ASSUME TypeOK, OfferInv
  PROVE  /\ Reached(now) /\ now \in Nat
         /\ \A x \in Offer : ToldApart(x) => ActiveAnswers(x) = {ActiveByCount(x)}
<1>1. Reached(now) /\ now \in Nat
  BY DEF OfferInv, StampInv, Reached, TypeOK
<1> QED
  BY <1>1, OfferAnswers DEF OfferInv

LEMMA OffersStarting ==
  ASSUME OneAtATime, TypeInv, OfferInv, NEW s \in Session, NEW j, Start(s, j),
         StampsBefore(j), ReadsOffers(j)
  PROVE  OfferInv'
<1>1. UNCHANGED <<times, offers, now>> /\ \A r \in Session : job'[r] = j
  BY DEF Start, tables, OneAtATime, TypeInv, TypeOK
<1>2. \A r \in Session : StampsBefore(job[r])'
  BY <1>1 DEF StampsBefore, Reached
<1>3. \A x \in Offer : OfferOK(x)' <=> OfferOK(x)
  BY <1>1 DEF OfferOK, CountOf, ToldApart
<1>4. \A x : (ActiveByCount(x)' <=> ActiveByCount(x)) /\ (ToldApart(x)' <=> ToldApart(x))
  BY <1>1 DEF ActiveByCount, CountOf, ToldApart
<1>5. \A r \in Session : ReadsOffers(job[r])'
  BY <1>1, <1>4 DEF ReadsOffers
<1> QED
  BY <1>1, <1>2, <1>3, <1>5 DEF OfferInv, StampInv

\* A commit: rows are added with stamps that have been reached.
LEMMA OffersEnding ==
  ASSUME OneAtATime, TypeInv, OfferInv, NEW s \in Session, job' = [job EXCEPT ![s] = NoJob],
         now' = now, \A i \in DOMAIN times' : times'[i].at <= now,
         \A x \in Offer : \A i \in DOMAIN offers'[x] : offers'[x][i].at <= now,
         \A x \in Offer : OfferOK(x)'
  PROVE  OfferInv'
<1>1. \A r \in Session : job'[r] = NoJob
  BY Freed
<1>2. \A r \in Session : StampsBefore(job[r])' /\ ReadsOffers(job[r])'
  BY <1>1 DEF StampsBefore, ReadsOffers, NoJob
<1> QED
  BY <1>2 DEF OfferInv, StampInv

LEMMA TimeStamped ==
  ASSUME TypeInv, OfferInv, NEW row \in TimeRow, AddTimeRow(row), row = NoRow \/ row.at <= now
  PROVE  \A i \in DOMAIN times' : times'[i].at <= now
<1>1. times \in Seq(TimeRow) /\ Len(times) \in Nat /\ DOMAIN times = 1..Len(times)
  BY LenProperties DEF TypeInv, TypeOK
<1>2. \A i \in DOMAIN times : times[i].at <= now
  BY DEF OfferInv, StampInv
<1>3. CASE row = NoRow
  BY <1>2, <1>3 DEF AddTimeRow
<1>4. CASE row # NoRow
  <2>1. times' = Append(times, row)
    BY <1>4 DEF AddTimeRow
  <2>2. /\ DOMAIN times' = 1..(Len(times) + 1) /\ times'[Len(times) + 1] = row
        /\ \A i \in 1..Len(times) : times'[i] = times[i]
    BY <1>1, <2>1, AppendProperties, LenProperties
  <2> QED
    BY <1>1, <1>2, <1>4, <2>2
<1> QED
  BY <1>3, <1>4

\* What a row that may be added changes of an offer.
Changes(y, a) ==
  /\ ToldApart(y)' => ToldApart(y)
  /\ a = "none" => (ToldApart(y)' <=> ToldApart(y)) /\ (ActiveByCount(y)' <=> ActiveByCount(y))
  /\ a # "none" /\ ToldApart(y)' => (ActiveByCount(y)' <=> a = "create")

\* What a commit of offer rows not before the earlier ones leaves of the offers.
LEMMA OffersStamped ==
  ASSUME TypeOK, OfferInv, NEW cancels, NEW x \in Offer, NEW action \in OfferAction \cup {"none"},
         NEW t \in Nat, t <= now, offers' = OfferRows(cancels, x, action, t), Reached(t),
         \A y \in Offer : MayAdd(y, Added(cancels, x, action, y))
  PROVE  /\ \A y \in Offer : OfferOK(y)'
         /\ \A y \in Offer : \A i \in DOMAIN offers'[y] : offers'[y][i].at <= now
         /\ \A y \in Offer : Changes(y, Added(cancels, x, action, y))
<1> SUFFICES ASSUME NEW y \in Offer
             PROVE  /\ OfferOK(y)'
                    /\ \A i \in DOMAIN offers'[y] : offers'[y][i].at <= now
                    /\ Changes(y, Added(cancels, x, action, y))
  OBVIOUS
<1>1. OfferOK(y)'
  BY OfferStays DEF OfferInv, Reached
<1>2. /\ OfferOK(y) /\ \A i \in DOMAIN offers[y] : offers[y][i].at <= now
  BY DEF OfferInv, StampInv
<1>r. LET a == Added(cancels, x, action, y) IN
      /\ a \in OfferAction \cup {"none"}
      /\ a = "none" => offers'[y] = offers[y]
      /\ a # "none" => offers'[y] = Append(offers[y], [action |-> a, at |-> t])
  BY OfferRowsAdd
<1>3. PICK a : a = Added(cancels, x, action, y)
  OBVIOUS
<1>4. CASE a = "none"
  <2>1. offers'[y] = offers[y]
    BY <1>r, <1>3, <1>4
  <2> QED
    BY <1>1, <1>2, <1>3, <1>4, <2>1 DEF Changes, ActiveByCount, CountOf, ToldApart
<1>5. CASE a # "none"
  <2>1. a \in OfferAction /\ offers'[y] = Append(offers[y], [action |-> a, at |-> t])
    BY <1>r, <1>3, <1>5
  <2> DEFINE n == Len(offers[y])
  <2>2. /\ n \in Nat /\ DOMAIN offers[y] = 1..n /\ DOMAIN offers'[y] = 1..(n + 1)
        /\ \A i \in 1..n : offers'[y][i] = offers[y][i]
        /\ offers'[y][n + 1].action = a /\ offers'[y][n + 1].at = t
        /\ offers'[y] # <<>> /\ Len(offers'[y]) = n + 1
        /\ CountOf(y, {"create"})' = CountOf(y, {"create"}) + IF a = "create" THEN 1 ELSE 0
        /\ CountOf(y, OfferAction \ {"create"})'
             = CountOf(y, OfferAction \ {"create"}) + IF a = "create" THEN 0 ELSE 1
        /\ CountOf(y, {"create"}) \in Nat /\ CountOf(y, OfferAction \ {"create"}) \in Nat
    BY <2>1, OfferAppended
  <2> HIDE DEF n
  <2>4. \A i \in DOMAIN offers'[y] : offers'[y][i].at <= now
    <3> TAKE i \in DOMAIN offers'[y]
    <3>1. i \in 1..n \/ i = n + 1
      BY <2>2
    <3> QED
      BY <1>2, <2>2, <3>1
  <2>a. ToldApart(y)' => ToldApart(y)
    <3>1. DOMAIN offers[y] \subseteq DOMAIN offers'[y]
      BY <2>2
    <3>2. \A i \in DOMAIN offers[y] : offers'[y][i] = offers[y][i]
      BY <2>2
    <3> QED
      BY <3>1, <3>2, ToldApartBefore
  <2>5. ToldApart(y)' => (ActiveByCount(y)' <=> a = "create")
    <3> HAVE ToldApart(y)'
    <3>1. MayAdd(y, a) /\ ToldApart(y)
      BY <1>3, <2>a
    <3>2. ActiveByCount(y) => CountOf(y, {"create"}) - CountOf(y, OfferAction \ {"create"}) > 0
      BY <2>2 DEF ActiveByCount
    <3>3. CASE y[1] = "draw"
      <4>1. \A i \in DOMAIN offers[y] : offers[y][i].action # "create"
        BY <1>2, <3>3 DEF OfferOK
      <4>2. offers[y] # <<>> => n \in DOMAIN offers[y]
        <5>1. offers[y] \in Seq(OfferRow)
          BY DEF TypeOK
        <5> QED
          BY <2>2, <5>1, EmptySeq DEF n
      <4>3. ~ActiveByCount(y)
        BY <1>2, <3>1, <4>1, <4>2, ActiveByLast DEF n
      <4> QED
        BY <2>2, <3>1, <3>3, <4>3 DEF MayAdd, ActiveByCount
    <3>4. CASE y[1] = "takeback"
      <4>1. CountOf(y, {"create"}) - CountOf(y, OfferAction \ {"create"})
              = IF ActiveByCount(y) THEN 1 ELSE 0
        BY <1>2, <3>1, <3>4, ActiveByLast DEF OfferOK
      <4>2. a = "create" <=> ~ActiveByCount(y)
        BY <1>5, <3>1, <3>4 DEF MayAdd
      <4> QED
        BY <2>2, <4>1, <4>2 DEF ActiveByCount
    <3> QED
      BY <3>3, <3>4 DEF Offer, OfferKind
  <2> QED
    BY <1>1, <1>3, <1>5, <2>4, <2>5, <2>a DEF Changes
<1> QED
  BY <1>4, <1>5

LEMMA OfferStarts ==
  ASSUME OneAtATime, TypeInv, OfferInv, NEW s \in Session,
         NEW x \in Offer, NEW action \in OfferAction, StartOffer(s, x, action),
         CASE action = "create" -> x[1] = "takeback" /\ (ToldApart(x) => ~ActiveByCount(x))
           [] action = "accept" -> x[1] = "draw"
           [] OTHER -> ToldApart(x) => ActiveByCount(x)
  PROVE  OfferInv'
<1> DEFINE j == [NoJob EXCEPT !.stage = "offer", !.at = now, !.offer = x, !.action = action]
<1>1. Start(s, j)
  BY DEF StartOffer
<1>2. j.stage = "offer" /\ j.at = now /\ j.offer = x /\ j.action = action
  BY DEF NoJob
<1>3. Reached(now) /\ now \in Nat /\ action # "none"
  BY ReadyReached DEF TypeInv, OfferAction
<1> HIDE DEF j
<1>4. StampsBefore(j)
  BY <1>2, <1>3 DEF StampsBefore, Reached
<1>5. ReadsOffers(j)
  BY <1>2, <1>3 DEF ReadsOffers
<1> QED
  BY <1>1, <1>4, <1>5, OffersStarting

\* The requests that read and start a job.
LEMMA OfferReads ==
  ASSUME OneAtATime, TypeInv, OfferInv, NEW s \in Session
  PROVE  /\ \A client \in Color, original \in Sip \cup {"none"}, sip \in Sip :
              ReadPly(s, client, original, sip) => OfferInv'
         /\ ReadClock(s) => OfferInv'
         /\ \A original \in Sip \cup {"none"}, sip \in Sip, declared \in Remainders \cup {<<>>} :
              ReadExternalPly(s, original, sip, declared) => OfferInv'
         /\ \A client \in Color : AcceptTakeback(s, client) => OfferInv'
         /\ \A keep : ReadRollback(s, keep) => OfferInv'
         /\ \A receiver \in Color : ReadTime(s, receiver) => OfferInv'
<1>j. job[s] \in Job /\ job \in [Session -> Job] /\ TypeOK
  BY DEF TypeInv, TypeOK
<1>s. ASSUME NEW j, Start(s, j), j.at = now, j.stage \notin {"idle", "cleared", "clocked"},
             ReadsOffers(j)
      PROVE  OfferInv'
  <2>1. Reached(now) /\ now \in Nat
    BY <1>j, <1>s, ReadyReached
  <2>2. StampsBefore(j)
    BY <1>s, <2>1 DEF StampsBefore, Reached
  <2> QED
    BY <1>s, <2>2, OffersStarting
<1>1. ASSUME NEW client \in Color, NEW original \in Sip \cup {"none"}, NEW sip \in Sip,
             ReadPly(s, client, original, sip)
      PROVE  OfferInv'
  <2>1. PICK cur \in Current :
          /\ CanPly(cur, client, original, sip)
          /\ Start(s, [NoJob EXCEPT !.stage = "ply", !.at = now, !.cnt = cur.cnt, !.sip = sip,
                                    !.cancels = {x \in Offer : ActiveByCount(x)}])
    BY <1>1, Zenon DEF ReadPly
  <2> DEFINE j == [NoJob EXCEPT !.stage = "ply", !.at = now, !.cnt = cur.cnt, !.sip = sip,
                                !.cancels = {x \in Offer : ActiveByCount(x)}]
  <2>2. Start(s, j) /\ j.stage = "ply" /\ j.at = now /\ j.cancels = {x \in Offer : ActiveByCount(x)}
    BY <2>1 DEF NoJob
  <2> HIDE DEF j
  <2>3. ReadsOffers(j)
    BY <2>2 DEF ReadsOffers
  <2> QED
    BY <1>1, <1>s, <2>2, <2>3 DEF ReadPly
<1>2. ASSUME ReadClock(s)
      PROVE  OfferInv'
  <2> DEFINE clock == PlyClock(LatestTime, job[s].at, job[s].cnt, ToMove[job[s].sip])
             j     == [job[s] EXCEPT !.stage = "clocked", !.clock = clock]
  <2>1. job[s].stage = "cleared" /\ Start(s, j)
    BY <1>2 DEF ReadClock
  <2>2. j.stage = "clocked" /\ j.clock = clock /\ j.at = job[s].at
    BY <1>j DEF Job
  <2>3. clock.at = job[s].at \/ clock.at = 0
    BY DEF PlyClock, NoRow
  <2>4. /\ job[s].at <= now /\ \A i \in DOMAIN times : times[i].at <= job[s].at
        /\ \A x \in Offer : ToldApart(x) => ~ActiveByCount(x)
    BY <2>1 DEF OfferInv, StampInv, StampsBefore, ReadsOffers
  <2>5. now \in Nat /\ job[s].at \in Nat
    BY <1>j DEF TypeOK, Job
  <2> HIDE DEF clock, j
  <2>6. StampsBefore(j) /\ ReadsOffers(j)
    BY <2>2, <2>3, <2>4, <2>5 DEF StampsBefore, ReadsOffers
  <2> QED
    BY <2>1, <2>6, OffersStarting
<1>3. ASSUME NEW original \in Sip \cup {"none"}, NEW sip \in Sip,
             NEW declared \in Remainders \cup {<<>>}, ReadExternalPly(s, original, sip, declared)
      PROVE  OfferInv'
  <2> DEFINE stage == IF declared = <<>> THEN "charge" ELSE "declared"
         clock(cur) == IF declared = <<>> THEN LatestTime
                       ELSE [ms |-> declared, ticking |-> TickingAfterPly(cur.cnt, ToMove[sip]),
                             at |-> 0, reason |-> "ply"]
  <2>1. PICK cur \in Current :
          /\ CanPly(cur, "white", original, sip)
          /\ declared # <<>> => Fischer
          /\ Start(s, [NoJob EXCEPT !.stage = stage, !.at = now, !.cnt = cur.cnt, !.sip = sip,
                                    !.clock = clock(cur)])
    BY <1>3, Zenon DEF ReadExternalPly
  <2> DEFINE j == [NoJob EXCEPT !.stage = stage, !.at = now, !.cnt = cur.cnt, !.sip = sip,
                                !.clock = clock(cur)]
  <2>2. Start(s, j) /\ j.stage \in {"charge", "declared"} /\ j.at = now
    BY <2>1 DEF NoJob
  <2> HIDE DEF j
  <2>3. ReadsOffers(j)
    BY <2>2 DEF ReadsOffers
  <2> QED
    BY <1>3, <1>s, <2>2, <2>3 DEF ReadExternalPly
<1>4. ASSUME NEW client \in Color, AcceptTakeback(s, client)
      PROVE  OfferInv'
  <2> DEFINE author  == Opposite(client)
             offer   == <<"takeback", author>>
             keep(i) == CountBeforeLastMoveOf(i, author)
  <2>1. author \in Color /\ offer \in Offer /\ offer = <<"takeback", author>>
    BY OppositeType DEF Offer, OfferKind
  <2>2. /\ ~External /\ Ready(s) /\ TRUE \in ActiveAnswers(offer)
        /\ \E i \in LastLive :
             /\ EnoughPlys(keep(i))
             /\ \E row \in TimeRowsBelow(keep(i)) :
                \E cancels \in SUBSET (Offer \ {offer}) :
                  /\ \A x \in Offer \ {offer} : (x \in cancels) \in ActiveAnswers(x)
                  /\ Start(s, [RollbackJob(plies[i].idx + 1, keep(i), author, row)
                                 EXCEPT !.cancels = cancels, !.action = "accept", !.offer = offer])
    BY <1>4, Zenon DEF AcceptTakeback
  <2> HIDE DEF author, offer, keep
  <2>a. \A x \in Offer : ToldApart(x) => ActiveAnswers(x) = {ActiveByCount(x)}
    BY <1>j, ReadyReached
  <2>3. ToldApart(offer) => ActiveByCount(offer)
    BY <2>1, <2>2, <2>a
  <2>b. PICK i \in LastLive :
          /\ EnoughPlys(keep(i))
          /\ \E row \in TimeRowsBelow(keep(i)) :
             \E cancels \in SUBSET (Offer \ {offer}) :
               /\ \A x \in Offer \ {offer} : (x \in cancels) \in ActiveAnswers(x)
               /\ Start(s, [RollbackJob(plies[i].idx + 1, keep(i), author, row)
                              EXCEPT !.cancels = cancels, !.action = "accept", !.offer = offer])
    BY <2>2, Zenon
  <2>c. PICK row \in TimeRowsBelow(keep(i)) :
          \E cancels \in SUBSET (Offer \ {offer}) :
            /\ \A x \in Offer \ {offer} : (x \in cancels) \in ActiveAnswers(x)
            /\ Start(s, [RollbackJob(plies[i].idx + 1, keep(i), author, row)
                           EXCEPT !.cancels = cancels, !.action = "accept", !.offer = offer])
    BY <2>b, Zenon
  <2>4. PICK cancels \in SUBSET (Offer \ {offer}) :
          /\ \A x \in Offer \ {offer} : (x \in cancels) \in ActiveAnswers(x)
          /\ Start(s, [RollbackJob(plies[i].idx + 1, keep(i), author, row)
                         EXCEPT !.cancels = cancels, !.action = "accept", !.offer = offer])
    BY <2>c, Zenon
  <2>5. \A x \in Offer \ {offer} : ToldApart(x) => (x \in cancels <=> ActiveByCount(x))
    <3>1. \A x \in Offer \ {offer} : ToldApart(x) => (x \in cancels) = ActiveByCount(x)
      BY <2>a, <2>4
    <3> QED
      BY <3>1
  <2> DEFINE j == [RollbackJob(plies[i].idx + 1, keep(i), author, row)
                     EXCEPT !.cancels = cancels, !.action = "accept", !.offer = offer]
  <2>6. /\ j.stage = "rollback" /\ j.at = now /\ j.by = author
        /\ j.cancels = cancels /\ j.action = "accept" /\ j.offer = offer
    BY DEF RollbackJob, NoJob
  <2>7. Start(s, j)
    BY <2>4
  <2> HIDE DEF j
  <2>8. ReadsOffers(j)
    BY <2>1, <2>2, <2>3, <2>4, <2>5, <2>6 DEF ReadsOffers
  <2> QED
    BY <1>s, <2>2, <2>6, <2>7, <2>8
<1>5. ASSUME NEW keep, ReadRollback(s, keep)
      PROVE  OfferInv'
  <2> DEFINE by(i) == Requester(plies[i].idx + 1, keep, ToMove[plies[i].sip])
  <2>1. PICK i \in LastLive, row \in TimeRowsBelow(keep) :
          Start(s, RollbackJob(plies[i].idx + 1, keep, by(i), row))
    BY <1>5, Zenon DEF ReadRollback
  <2> HIDE DEF by
  <2>2. PICK j : j = RollbackJob(plies[i].idx + 1, keep, by(i), row)
    OBVIOUS
  <2>3. j.stage = "rollback" /\ j.at = now /\ j.cancels = {} /\ j.action = "none" /\ External
    BY <1>5, <2>2 DEF ReadRollback, RollbackJob, NoJob
  <2>4. ReadsOffers(j)
    BY <2>3 DEF ReadsOffers
  <2> QED
    BY <1>5, <1>s, <2>1, <2>2, <2>3, <2>4 DEF ReadRollback
<1>6. ASSUME NEW receiver \in Color, ReadTime(s, receiver)
      PROVE  OfferInv'
  <2> DEFINE clock == [LatestTime EXCEPT !.ms[receiver] = @ + Bonus, !.reason = "time_added"]
  <2>1. Start(s, [NoJob EXCEPT !.stage = "add", !.at = now, !.clock = clock])
    BY <1>6 DEF ReadTime
  <2> HIDE DEF clock
  <2>2. PICK j : j = [NoJob EXCEPT !.stage = "add", !.at = now, !.clock = clock]
    OBVIOUS
  <2>3. j.stage = "add" /\ j.at = now
    BY <2>2 DEF NoJob
  <2>4. ReadsOffers(j)
    BY <2>3 DEF ReadsOffers
  <2> QED
    BY <1>6, <1>s, <2>1, <2>2, <2>3, <2>4 DEF ReadTime
<1> QED
  BY <1>1, <1>2, <1>3, <1>4, <1>5, <1>6

\* The stamp of a commit is not before the time of its job.
LEMMA StampReached ==
  ASSUME TypeOK, OfferInv, NEW s \in Session, job[s].stage \notin {"idle", "cleared", "clocked"},
         NEW t \in job[s].at..now
  PROVE  t \in Nat /\ t <= now /\ Reached(t)
<1>1. job[s].at \in Nat /\ now \in Nat /\ t \in Nat /\ job[s].at <= t /\ t <= now
  BY Instants DEF TypeOK, Job
<1>2. Reached(job[s].at)
  BY DEF OfferInv, StampInv, StampsBefore
<1>3. \A i \in DOMAIN times : times[i].at \in Nat
  <2> TAKE i \in DOMAIN times
  <2>1. times[i] \in TimeRow
    BY ElementOfSeq DEF TypeOK
  <2> QED
    BY <2>1 DEF TimeRow
<1>4. \A y \in Offer : \A i \in DOMAIN offers[y] : offers[y][i].at \in Nat
  <2> TAKE y \in Offer
  <2> TAKE i \in DOMAIN offers[y]
  <2>1. offers[y][i] \in OfferRow
    BY ElementOfSeq DEF TypeOK
  <2> QED
    BY <2>1 DEF OfferRow
<1> QED
  BY <1>1, <1>2, <1>3, <1>4 DEF Reached

\* A ply whose clock has been read finds no active offer; one that is about to
\* clear the offers closes those that are active.
LEMMA OffersCleared ==
  ASSUME OneAtATime, TypeInv, OfferInv, NEW s \in Session, CancelAllActiveOffers(s)
  PROVE  OfferInv'
<1>j. job[s] \in Job /\ job[s].stage = "ply" /\ job \in [Session -> Job] /\ now \in Nat /\ TypeOK
  BY DEF CancelAllActiveOffers, TypeInv, TypeOK
<1>1. PICK t \in job[s].at..now :
        /\ offers' = OfferRows(job[s].cancels, <<"draw", "white">>, "none", t)
        /\ job' = [job EXCEPT ![s].stage = "cleared", ![s].at = t]
  BY DEF CancelAllActiveOffers
<1>2. PICK cancels, x : cancels = job[s].cancels /\ x = <<"draw", "white">>
  OBVIOUS
<1>3. x \in Offer /\ "none" \in OfferAction \cup {"none"}
  BY <1>2 DEF Offer, OfferKind, Color
<1>6. t \in Nat /\ t <= now /\ Reached(t)
  BY <1>j, StampReached
<1>4. offers' = OfferRows(cancels, x, "none", t) /\ UNCHANGED <<times, now>>
  BY <1>1, <1>2 DEF CancelAllActiveOffers
<1>5. cancels = {y \in Offer : ActiveByCount(y)}
  BY <1>j, <1>2 DEF OfferInv, ReadsOffers
<1>7. \A y \in Offer : /\ Added(cancels, x, "none", y) = IF ActiveByCount(y) THEN "cancel" ELSE "none"
                       /\ MayAdd(y, Added(cancels, x, "none", y))
  BY <1>5 DEF Added, MayAdd
<1>8. /\ \A y \in Offer : OfferOK(y)'
      /\ \A y \in Offer : \A i \in DOMAIN offers'[y] : offers'[y][i].at <= now
      /\ \A y \in Offer : Changes(y, Added(cancels, x, "none", y))
  BY <1>j, <1>3, <1>4, <1>6, <1>7, OffersStamped
<1>9. \A y \in Offer : ToldApart(y)' => ~ActiveByCount(y)'
  BY <1>7, <1>8 DEF Changes
<1>10. \A r \in Session : job'[r].stage = "cleared" /\ job'[r].at = t
  BY <1>j, <1>1 DEF OneAtATime, Job
<1>11. \A r \in Session : StampsBefore(job[r])' /\ ReadsOffers(job[r])'
  BY <1>3, <1>4, <1>6, <1>9, <1>10 DEF StampsBefore, ReadsOffers, Reached
<1> QED
  BY <1>4, <1>8, <1>11 DEF OfferInv, StampInv

\* What a job writes of the offers may be written.
LEMMA JobMayAdd ==
  ASSUME TypeOK, OfferInv, NEW s \in Session, NEW y \in Offer
  PROVE  /\ job[s].stage = "offer" => MayAdd(y, Added({}, job[s].offer, job[s].action, y))
         /\ job[s].stage = "rollback" =>
              /\ MayAdd(y, Added(job[s].cancels, job[s].offer, job[s].action, y))
              /\ ~External => /\ Added(job[s].cancels, job[s].offer, job[s].action, y) # "create"
                              /\ ToldApart(y) =>
                                   (Added(job[s].cancels, job[s].offer, job[s].action, y) = "none"
                                      <=> ~ActiveByCount(y))
<1> DEFINE j == job[s]
<1>1. j.offer \in Offer /\ j.action \in OfferAction \cup {"none"} /\ ReadsOffers(j)
  BY DEF TypeOK, Job, OfferInv
<1> HIDE DEF j
<1>2. CASE j.stage = "offer"
  <2> SUFFICES MayAdd(y, Added({}, j.offer, j.action, y))
    BY <1>2 DEF j
  <2>1. CASE y # j.offer
    BY <2>1 DEF Added, MayAdd
  <2>2. CASE y = j.offer
    <3>1. Added({}, j.offer, j.action, y) = j.action
      BY <2>2 DEF Added
    <3>2. CASE j.action = "create"
      BY <1>1, <1>2, <2>2, <3>1, <3>2 DEF MayAdd, ReadsOffers
    <3>3. CASE j.action # "create"
      BY <1>1, <1>2, <2>2, <3>1, <3>3 DEF MayAdd, ReadsOffers
    <3> QED
      BY <3>2, <3>3
  <2> QED
    BY <2>1, <2>2
<1>3. CASE j.stage = "rollback" /\ External
  <2>1. Added(j.cancels, j.offer, j.action, y) = "none"
    BY <1>1, <1>3 DEF ReadsOffers, Added
  <2> QED
    BY <1>3, <2>1 DEF MayAdd, j
<1>4. CASE j.stage = "rollback" /\ ~External
  <2>1. /\ j.action = "accept"
        /\ ToldApart(j.offer) => ActiveByCount(j.offer)
        /\ j.cancels \subseteq Offer \ {j.offer}
        /\ \A x \in Offer \ {j.offer} : ToldApart(x) => (x \in j.cancels <=> ActiveByCount(x))
    BY <1>1, <1>4 DEF ReadsOffers
  <2>2. Added(j.cancels, j.offer, j.action, y)
          = IF y = j.offer THEN "accept" ELSE IF y \in j.cancels THEN "cancel" ELSE "none"
    BY <2>1 DEF Added
  <2> QED
    BY <1>4, <2>1, <2>2 DEF MayAdd, j
<1> QED
  BY <1>2, <1>3, <1>4 DEF j

LEMMA OfferCommits ==
  ASSUME OneAtATime, TypeInv, OfferInv, NEW s \in Session
  PROVE  /\ TimeoutReached(s) => OfferInv'
         /\ RecordPly(s) => OfferInv'
         /\ RecordExternalPly(s) => OfferInv'
         /\ CommitOffer(s) => OfferInv'
         /\ CommitRollback(s) => OfferInv'
         /\ CommitTime(s) => OfferInv'
<1>j. job[s] \in Job /\ TypeOK /\ job[s].clock \in TimeRow /\ now \in Nat
  BY DEF TypeInv, TypeOK, Job
<1>t. \A i \in DOMAIN times : times[i].at <= now
  BY DEF OfferInv, StampInv
<1>o. UNCHANGED offers => /\ \A y \in Offer : OfferOK(y)'
                         /\ \A y \in Offer : \A i \in DOMAIN offers'[y] : offers'[y][i].at <= now
  BY DEF OfferInv, StampInv, OfferOK, CountOf, ToldApart
<1>p. ASSUME NEW row \in TimeRow, row = NoRow \/ row.at <= now, AppendPly(s, row)
      PROVE  OfferInv'
  <2>1. AddTimeRow(row) /\ job' = [job EXCEPT ![s] = NoJob] /\ UNCHANGED <<offers, now>>
    BY <1>p DEF AppendPly
  <2>2. \A i \in DOMAIN times' : times'[i].at <= now
    BY <1>p, <2>1, TimeStamped
  <2> QED
    BY <1>o, <2>1, <2>2, OffersEnding
<1>s. ASSUME NEW t \in Nat
      PROVE  [job[s].clock EXCEPT !.at = t] \in TimeRow /\ [job[s].clock EXCEPT !.at = t].at = t
  BY <1>j DEF TimeRow
<1>1. ASSUME TimeoutReached(s)
      PROVE  OfferInv'
  <2>1. UNCHANGED <<times, offers, now>> /\ job' = [job EXCEPT ![s] = NoJob]
    BY <1>1 DEF TimeoutReached, tables
  <2> QED
    BY <1>o, <1>t, <2>1, OffersEnding
<1>2. ASSUME RecordPly(s)
      PROVE  OfferInv'
  <2>1. job[s].stage = "clocked" /\ AppendPly(s, job[s].clock)
    BY <1>2 DEF RecordPly
  <2>2. job[s].clock.at <= now
    BY <2>1 DEF OfferInv, StampInv, StampsBefore
  <2> QED
    BY <1>j, <1>p, <2>1, <2>2
<1>3. ASSUME RecordExternalPly(s)
      PROVE  OfferInv'
  <2> DEFINE row(t) == IF job[s].stage = "charge"
                       THEN PlyClock(job[s].clock, t, job[s].cnt, ToMove[job[s].sip])
                       ELSE [job[s].clock EXCEPT !.at = t]
  <2>1. PICK t \in job[s].at..now : AppendPly(s, row(t))
    BY <1>3 DEF RecordExternalPly
  <2>2. t \in Nat /\ t <= now
    BY <1>j, Instants
  <2>3. row(t) \in TimeRow
    BY <1>j, <1>s, <2>2, PlyClockType, PositionAssumption DEF Job
  <2>4. row(t) = NoRow \/ row(t).at = t
    BY <1>s, <2>2 DEF PlyClock
  <2> HIDE DEF row
  <2> QED
    BY <1>p, <2>1, <2>2, <2>3, <2>4
<1>4. ASSUME CommitOffer(s)
      PROVE  OfferInv'
  <2>1. PICK t \in job[s].at..now : offers' = OfferRows({}, job[s].offer, job[s].action, t)
    BY <1>4 DEF CommitOffer
  <2>2. job[s].stage = "offer" /\ UNCHANGED <<times, now>> /\ job' = [job EXCEPT ![s] = NoJob]
    BY <1>4 DEF CommitOffer
  <2>3. t \in Nat /\ t <= now /\ Reached(t)
    BY <1>j, <2>2, StampReached
  <2>4. job[s].offer \in Offer /\ job[s].action \in OfferAction \cup {"none"}
    BY <1>j DEF Job
  <2>5. /\ \A y \in Offer : OfferOK(y)'
        /\ \A y \in Offer : \A i \in DOMAIN offers'[y] : offers'[y][i].at <= now
    BY <1>j, <2>1, <2>2, <2>3, <2>4, JobMayAdd, OffersStamped
  <2> QED
    BY <1>t, <2>2, <2>5, OffersEnding
<1>5. ASSUME CommitRollback(s)
      PROVE  OfferInv'
  <2> DEFINE row(t) == IF job[s].clock = NoRow THEN NoRow ELSE [job[s].clock EXCEPT !.at = t]
  <2>1. PICK t \in job[s].at..now :
          /\ offers' = OfferRows(job[s].cancels, job[s].offer, job[s].action, t)
          /\ AddTimeRow(row(t))
    BY <1>5 DEF CommitRollback
  <2>2. job[s].stage = "rollback" /\ UNCHANGED now /\ job' = [job EXCEPT ![s] = NoJob]
    BY <1>5 DEF CommitRollback
  <2>3. t \in Nat /\ t <= now /\ Reached(t)
    BY <1>j, <2>2, StampReached
  <2>4. job[s].offer \in Offer /\ job[s].action \in OfferAction \cup {"none"}
    BY <1>j DEF Job
  <2>5. /\ \A y \in Offer : OfferOK(y)'
        /\ \A y \in Offer : \A i \in DOMAIN offers'[y] : offers'[y][i].at <= now
    BY <1>j, <2>1, <2>2, <2>3, <2>4, JobMayAdd, OffersStamped
  <2>6. row(t) \in TimeRow /\ (row(t) = NoRow \/ row(t).at <= now)
    BY <1>s, <2>3, NoRowType
  <2> HIDE DEF row
  <2>7. \A i \in DOMAIN times' : times'[i].at <= now
    BY <2>1, <2>6, TimeStamped
  <2> QED
    BY <2>2, <2>5, <2>7, OffersEnding
<1>6. ASSUME CommitTime(s)
      PROVE  OfferInv'
  <2>1. PICK t \in job[s].at..now : times' = Append(times, [job[s].clock EXCEPT !.at = t])
    BY <1>6 DEF CommitTime
  <2>2. UNCHANGED <<offers, now>> /\ job' = [job EXCEPT ![s] = NoJob] /\ job[s].stage = "add"
    BY <1>6 DEF CommitTime
  <2>3. PICK row \in TimeRow : row = [job[s].clock EXCEPT !.at = t]
    BY <1>j, <1>s, Instants
  <2>4. t <= now /\ row.at = t
    BY <1>j, <1>s, <2>3, Instants
  <2>5. \A i \in DOMAIN times' : times'[i].at <= now
    <3>1. times \in Seq(TimeRow) /\ Len(times) \in Nat /\ DOMAIN times = 1..Len(times)
      BY <1>j, LenProperties DEF TypeOK
    <3>2. times' = Append(times, row)
      BY <2>1, <2>3
    <3>3. /\ DOMAIN times' = 1..(Len(times) + 1) /\ times'[Len(times) + 1] = row
          /\ \A i \in 1..Len(times) : times'[i] = times[i]
      BY <3>1, <3>2, AppendProperties, LenProperties
    <3> QED
      BY <1>t, <2>4, <3>1, <3>3
  <2> QED
    BY <1>o, <2>2, <2>5, OffersEnding
<1> QED
  BY <1>1, <1>2, <1>3, <1>4, <1>5, <1>6

LEMMA OfferStep ==
  ASSUME OneAtATime, TypeInv, OfferInv, [Next]_vars
  PROVE  OfferInv'
<1>j. TypeOK /\ now \in Nat
  BY DEF TypeInv, TypeOK
<1>l. ASSUME UNCHANGED <<times, offers, job>>, now' \in Nat, now <= now'
      PROVE  OfferInv'
  <2>1. \A x \in Offer : OfferOK(x)' <=> OfferOK(x)
    BY <1>l DEF OfferOK, CountOf, ToldApart
  <2>2. \A x : (ActiveByCount(x)' <=> ActiveByCount(x)) /\ (ToldApart(x)' <=> ToldApart(x))
    BY <1>l DEF ActiveByCount, CountOf, ToldApart
  <2>3. \A r \in Session : ReadsOffers(job[r])'
    BY <1>l, <2>2 DEF OfferInv, ReadsOffers
  <2>4. \A t \in Nat : t <= now => t <= now'
    BY <1>j, <1>l
  <2>5. /\ \A i \in DOMAIN times : times[i].at \in Nat
        /\ \A x \in Offer : \A i \in DOMAIN offers[x] : offers[x][i].at \in Nat
        /\ \A r \in Session : job[r].at \in Nat /\ job[r].clock.at \in Nat
    <3>1. \A r \in Session : job[r].at \in Nat /\ job[r].clock.at \in Nat
      BY <1>j DEF TypeOK, Job, TimeRow
    <3>2. \A i \in DOMAIN times : times[i].at \in Nat
      <4> TAKE i \in DOMAIN times
      <4>1. times[i] \in TimeRow
        BY <1>j, ElementOfSeq DEF TypeOK
      <4> QED
        BY <4>1 DEF TimeRow
    <3>3. \A y \in Offer : \A i \in DOMAIN offers[y] : offers[y][i].at \in Nat
      <4> TAKE y \in Offer
      <4> TAKE i \in DOMAIN offers[y]
      <4>1. offers[y][i] \in OfferRow
        BY <1>j, ElementOfSeq DEF TypeOK
      <4> QED
        BY <4>1 DEF OfferRow
    <3> QED
      BY <3>1, <3>2, <3>3
  <2>6. \A r \in Session : StampsBefore(job[r])'
    BY <1>l, <2>4, <2>5 DEF OfferInv, StampInv, StampsBefore, Reached
  <2> QED
    BY <1>l, <2>1, <2>3, <2>4, <2>5, <2>6 DEF OfferInv, StampInv
<1>1. CASE UNCHANGED vars
  BY <1>1, <1>j, <1>l DEF vars
<1>2. CASE Tick
  BY <1>2, <1>j, <1>l DEF Tick, tables
<1>3. ASSUME NEW s \in Session, Step(s)
      PROVE  OfferInv'
  <2>1. CancelAllActiveOffers(s) => OfferInv'
    BY OffersCleared
  <2>2. \A client \in Color : <<"takeback", client>> \in Offer /\ <<"draw", client>> \in Offer
    BY DEF Offer, OfferKind
  <2>3. ASSUME NEW client \in Color, CreateTakeback(s, client)
        PROVE  OfferInv'
    <3>1. Ready(s) /\ FALSE \in ActiveAnswers(<<"takeback", client>>)
          /\ StartOffer(s, <<"takeback", client>>, "create")
      BY <2>3 DEF CreateTakeback
    <3>2. ToldApart(<<"takeback", client>>) => ~ActiveByCount(<<"takeback", client>>)
      BY <1>j, <2>2, <3>1, ReadyReached
    <3> QED
      BY <2>2, <3>1, <3>2, OfferStarts DEF OfferAction
  <2>4. ASSUME NEW client \in Color, CreateDraw(s, client)
        PROVE  OfferInv'
    <3>1. Ready(s) /\ StartOffer(s, <<"draw", Opposite(client)>>, "accept")
      BY <2>4 DEF CreateDraw
    <3>2. <<"draw", Opposite(client)>> \in Offer
      BY <2>2, OppositeType
    <3> QED
      BY <3>1, <3>2, OfferStarts DEF OfferAction
  <2>5. ASSUME NEW client \in Color, NEW action \in {"cancel", "decline", "accept"},
               NEW kind \in OfferKind, AnswerOffer(s, client, action, kind)
        PROVE  OfferInv'
    <3>1. PICK x : x = <<kind, IF action = "cancel" THEN client ELSE Opposite(client)>>
      OBVIOUS
    <3>2. x \in Offer /\ x[1] = kind /\ action \in OfferAction
      BY <3>1, OppositeType DEF Offer, OfferAction
    <3>3. Ready(s) /\ TRUE \in ActiveAnswers(x) /\ StartOffer(s, x, action)
          /\ (action = "accept" => kind = "draw")
      BY <2>5, <3>1 DEF AnswerOffer
    <3>4. ToldApart(x) => ActiveByCount(x)
      BY <1>j, <3>2, <3>3, ReadyReached
    <3> QED
      BY <3>2, <3>3, <3>4, OfferStarts
  <2>6. ASSUME NEW client \in Color, VoidTakeback(s, client)
        PROVE  OfferInv'
    <3>1. PICK x : x = <<"takeback", Opposite(client)>>
      OBVIOUS
    <3>2. x \in Offer /\ Ready(s) /\ TRUE \in ActiveAnswers(x) /\ StartOffer(s, x, "cancel")
      BY <2>2, <2>6, <3>1, OppositeType DEF VoidTakeback
    <3>3. ToldApart(x) => ActiveByCount(x)
      BY <1>j, <3>2, ReadyReached
    <3> QED
      BY <3>2, <3>3, OfferStarts DEF OfferAction
  <2>7. /\ \A client \in Color : Resign(s, client) => OfferInv'
        /\ \A kind, winner : EndExternal(s, kind, winner) => OfferInv'
    BY <1>j, <1>l DEF Resign, EndExternal, tables
  <2>8. Abort(s) => OfferInv'
    BY NoJobReadsOffers, OffersStarting DEF Abort
  <2> QED
    BY <1>3, OfferReads, OfferCommits, <2>1, <2>3, <2>4, <2>5, <2>6, <2>7, <2>8 DEF Step
<1> QED
  BY <1>1, <1>2, <1>3 DEF Next

\* One request at a time, an offer whose rows carry different stamps is active by
\* the count of its rows exactly if its latest row creates it: no request creates
\* it while it is there or answers it while it is not, whatever is read of the
\* offers that were changed twice within one second (get_active_offers,
\* is_offer_active).
THEOREM OffersAgreeInTurn ==
  ASSUME OneAtATime
  PROVE  Spec => []OffersAgree
<1>1. Init => TypeInv /\ OfferInv
  BY TypeInit, OfferInit
<1>2. TypeInv /\ OfferInv /\ [Next]_vars => (TypeInv /\ OfferInv)'
  BY TypeStep, OfferStep
<1>3. TypeInv /\ OfferInv => OffersAgree
  BY OfferAnswers DEF OfferInv, OffersAgree, TypeInv
<1> QED
  BY <1>1, <1>2, <1>3, PTL DEF Spec
=============================================================================
