-------------------------- MODULE ChallengeProofs --------------------------
(***************************************************************************)
(* Proofs about Challenges, for any users, terms, requests and limits, and *)
(* any number of requests in progress.                                     *)
(***************************************************************************)
EXTENDS ChallengesImplementBoard, SequenceTheorems, FiniteSetTheorems, TLAPS

RowOK(row) ==
  /\ (row.callee = "none") = (row.kind # "direct")
  /\ row.callee # row.caller

\* rows are what a job read them to be, of whom it decided what to write
JobOK(rows, j) ==
  /\ j.stage # "create" => j.new = {}
  /\ \A row \in j.new : RowOK(row)
  /\ j.stage \in {"game", "close"} => j.id \in DOMAIN rows
  /\ j.stage = "game" => j.client \in User /\ j.client # rows[j.id].caller
  /\ j.todo \subseteq DOMAIN rows /\ j.done \subseteq DOMAIN rows

TypeInv ==
  /\ TypeOK
  /\ \A i \in DOMAIN challenges : RowOK(challenges[i])
  /\ \A s \in Session : JobOK(challenges, job[s])

\* What no step changes: a row stays, keeps its users and its kind, and is not
\* reopened.
Kept(old, new) ==
  /\ DOMAIN old \subseteq DOMAIN new
  /\ \A i \in DOMAIN old :
       /\ new[i].caller = old[i].caller
       /\ new[i].callee = old[i].callee
       /\ new[i].kind = old[i].kind
       /\ new[i].active => old[i].active

----------------------------------------------------------------------------
(* Rows *)

LEMMA NoJobType == NoJob \in Job /\ \A rows : JobOK(rows, NoJob)
  BY DEF NoJob, Job, JobOK

LEMMA KeptJobs ==
  ASSUME NEW old, NEW new, Kept(old, new), NEW j, JobOK(old, j)
  PROVE  JobOK(new, j)
  BY DEF Kept, JobOK

LEMMA KeptSame == \A rows : Kept(rows, rows)
  BY DEF Kept

\* A row for which a job was begun is added.
LEMMA RowsAppended ==
  ASSUME NEW rows \in Seq(ChallengeRow), NEW row \in ChallengeRow
  PROVE  /\ Append(rows, row) \in Seq(ChallengeRow)
         /\ Kept(rows, Append(rows, row))
         /\ DOMAIN Append(rows, row) = DOMAIN rows \cup {Len(rows) + 1}
         /\ Append(rows, row)[Len(rows) + 1] = row
         /\ \A i \in DOMAIN rows : Append(rows, row)[i] = rows[i]
<1>1. /\ DOMAIN rows = 1..Len(rows) /\ Len(rows) \in Nat
      /\ DOMAIN Append(rows, row) = 1..(Len(rows) + 1)
      /\ Append(rows, row) \in Seq(ChallengeRow)
      /\ \A i \in 1..Len(rows) : Append(rows, row)[i] = rows[i]
      /\ Append(rows, row)[Len(rows) + 1] = row
  BY AppendProperties, LenProperties
<1> QED
  BY <1>1 DEF Kept

\* Rows are closed, whichever they are.
LEMMA RowsClosed ==
  ASSUME NEW rows \in Seq(ChallengeRow), NEW new, DOMAIN new = DOMAIN rows,
         \A i \in DOMAIN rows :
           \/ new[i] = rows[i]
           \/ new[i] = [rows[i] EXCEPT !.active = FALSE]
           \/ \E g \in Nat : new[i] = [rows[i] EXCEPT !.active = FALSE, !.game = g],
         \E n \in Nat : DOMAIN new = 1..n,
         new = [i \in DOMAIN new |-> new[i]]
  PROVE  new \in Seq(ChallengeRow) /\ Kept(rows, new)
<1>1. \A i \in DOMAIN rows : rows[i] \in ChallengeRow
  BY ElementOfSeq, LenProperties
<1>2. \A i \in DOMAIN rows : /\ new[i] \in ChallengeRow
                             /\ new[i].caller = rows[i].caller
                             /\ new[i].callee = rows[i].callee
                             /\ new[i].kind = rows[i].kind
                             /\ new[i].active => rows[i].active
  <2> SUFFICES ASSUME NEW i \in DOMAIN rows
               PROVE  /\ new[i] \in ChallengeRow
                      /\ new[i].caller = rows[i].caller
                      /\ new[i].callee = rows[i].callee
                      /\ new[i].kind = rows[i].kind
                      /\ new[i].active => rows[i].active
    OBVIOUS
  <2>1. rows[i] \in ChallengeRow
    BY <1>1
  <2>2. CASE new[i] = rows[i]
    BY <2>1, <2>2
  <2>3. CASE new[i] = [rows[i] EXCEPT !.active = FALSE]
    BY <2>1, <2>3 DEF ChallengeRow
  <2>4. CASE \E g \in Nat : new[i] = [rows[i] EXCEPT !.active = FALSE, !.game = g]
    BY <2>1, <2>4 DEF ChallengeRow
  <2> QED
    BY <2>2, <2>3, <2>4
<1>3. PICK n \in Nat : DOMAIN new = 1..n
  OBVIOUS
<1>4. new \in [1..n -> ChallengeRow]
  BY <1>2, <1>3
<1> QED
  BY <1>2, <1>4, SeqDef DEF Kept

----------------------------------------------------------------------------
(* Steps *)

\* What a commit closes: the challenge of its session, and nothing more.
LEMMA CommitsClose ==
  ASSUME TypeInv, NEW s \in Session, CommitGame(s) \/ CommitClose(s) \/ CancelNext(s)
  PROVE  /\ challenges' \in Seq(ChallengeRow) /\ Kept(challenges, challenges')
         /\ DOMAIN challenges' = DOMAIN challenges
         /\ \A i \in DOMAIN challenges \ {job[s].id} : challenges'[i] = challenges[i]
         /\ job[s].id \in DOMAIN challenges => ~challenges'[job[s].id].active
<1>1. /\ challenges \in Seq(ChallengeRow)
      /\ DOMAIN challenges = 1..Len(challenges) /\ Len(challenges) \in Nat
      /\ \A i \in DOMAIN challenges : challenges[i] \in ChallengeRow
  BY LenProperties, ElementOfSeq DEF TypeInv, TypeOK
<1>2. Len(games) + 1 \in Nat
  BY LenProperties DEF TypeInv, TypeOK
<1> DEFINE i == job[s].id
<1>3. CASE CommitGame(s)
  <2>1. challenges' = [challenges EXCEPT ![i].active = FALSE, ![i].game = Len(games) + 1]
    BY <1>3 DEF CommitGame
  <2>2. /\ DOMAIN challenges' = DOMAIN challenges
        /\ challenges' = [k \in DOMAIN challenges' |-> challenges'[k]]
        /\ \A k \in DOMAIN challenges \ {i} : challenges'[k] = challenges[k]
    BY <1>1, <2>1
  <2>3. i \in DOMAIN challenges =>
          /\ challenges'[i] = [challenges[i] EXCEPT !.active = FALSE, !.game = Len(games) + 1]
          /\ ~challenges'[i].active
    BY <1>1, <2>1 DEF ChallengeRow
  <2>4. \A k \in DOMAIN challenges :
           \/ challenges'[k] = challenges[k]
           \/ \E g \in Nat : challenges'[k] = [challenges[k] EXCEPT !.active = FALSE, !.game = g]
    BY <1>2, <2>2, <2>3
  <2> QED
    BY <1>1, <2>2, <2>3, <2>4, RowsClosed
<1>4. CASE CommitClose(s)
  <2>1. challenges' = [challenges EXCEPT ![i].active = FALSE]
    BY <1>4 DEF CommitClose
  <2>2. /\ DOMAIN challenges' = DOMAIN challenges
        /\ challenges' = [k \in DOMAIN challenges' |-> challenges'[k]]
        /\ \A k \in DOMAIN challenges \ {i} : challenges'[k] = challenges[k]
    BY <1>1, <2>1
  <2>3. i \in DOMAIN challenges =>
          /\ challenges'[i] = [challenges[i] EXCEPT !.active = FALSE]
          /\ ~challenges'[i].active
    BY <1>1, <2>1 DEF ChallengeRow
  <2>4. \A k \in DOMAIN challenges :
           \/ challenges'[k] = challenges[k]
           \/ challenges'[k] = [challenges[k] EXCEPT !.active = FALSE]
    BY <2>2, <2>3
  <2> QED
    BY <1>1, <2>2, <2>3, <2>4, RowsClosed
<1>5. CASE CancelNext(s)
  <2>1. challenges' = [k \in DOMAIN challenges |->
                         IF k = i THEN [challenges[k] EXCEPT !.active = FALSE] ELSE challenges[k]]
    BY <1>5 DEF CancelNext
  <2>2. /\ DOMAIN challenges' = DOMAIN challenges
        /\ challenges' = [k \in DOMAIN challenges' |-> challenges'[k]]
        /\ \A k \in DOMAIN challenges \ {i} : challenges'[k] = challenges[k]
    BY <1>1, <2>1
  <2>3. i \in DOMAIN challenges =>
          /\ challenges'[i] = [challenges[i] EXCEPT !.active = FALSE]
          /\ ~challenges'[i].active
    BY <1>1, <2>1 DEF ChallengeRow
  <2>4. \A k \in DOMAIN challenges :
           \/ challenges'[k] = challenges[k]
           \/ challenges'[k] = [challenges[k] EXCEPT !.active = FALSE]
    BY <2>2, <2>3
  <2> QED
    BY <1>1, <2>2, <2>3, <2>4, RowsClosed
<1> QED
  BY <1>3, <1>4, <1>5

\* A step that closes or opens nothing leaves the rows alone.
LEMMA OthersKeepRows ==
  ASSUME NEW s \in Session, Step(s),
         ~CommitChallenge(s), ~CommitGame(s), ~CommitClose(s), ~CancelNext(s)
  PROVE  challenges' = challenges
  BY DEF Step, Admit, ReadAndMerge, ReadAccept, ReadCancel, ReadDecline, ActivateShutdown,
         ReadActive, EndCancelAll, Abort, Begin

\* No step reopens a challenge.
LEMMA RowsKept ==
  ASSUME TypeInv, NEW s \in Session, Step(s)
  PROVE  challenges' \in Seq(ChallengeRow) /\ Kept(challenges, challenges')
<1>1. CASE CommitChallenge(s)
  <2>1. PICK row \in job[s].new : challenges' = Append(challenges, row)
    BY <1>1 DEF CommitChallenge
  <2>2. row \in ChallengeRow
    BY <2>1 DEF TypeInv, TypeOK, Job
  <2> QED
    BY <2>1, <2>2, RowsAppended DEF TypeInv, TypeOK
<1>2. CASE CommitGame(s) \/ CommitClose(s) \/ CancelNext(s)
  BY <1>2, CommitsClose
<1>3. CASE ~CommitChallenge(s) /\ ~(CommitGame(s) \/ CommitClose(s) \/ CancelNext(s))
  BY <1>3, OthersKeepRows, KeptSame DEF TypeInv, TypeOK
<1> QED
  BY <1>1, <1>2, <1>3

\* Only the commit of a game adds one.
LEMMA OthersKeepGames ==
  ASSUME NEW s \in Session, Step(s), ~CommitGame(s)
  PROVE  games' = games
  BY DEF Step, Admit, ReadAndMerge, CommitChallenge, ReadAccept, ReadCancel, ReadDecline, CommitClose,
         ActivateShutdown, ReadActive, CancelNext, EndCancelAll, Abort, Begin

\* A session begins a job that suits the rows.
LEMMA BeginJob ==
  ASSUME TypeInv, NEW s \in Session, Step(s)
  PROVE  job' \in [Session -> Job] /\ \A t \in Session : JobOK(challenges', job'[t])
<1> SUFFICES \E j \in Job : JobOK(challenges, j) /\ job' = [job EXCEPT ![s] = j]
  BY RowsKept, KeptJobs DEF TypeInv, TypeOK
<1> USE NoJobType
<1>1. /\ DOMAIN challenges \subseteq Nat
      /\ \A i \in DOMAIN challenges : challenges[i] \in ChallengeRow /\ RowOK(challenges[i])
      /\ job \in [Session -> Job] /\ JobOK(challenges, job[s])
  BY LenProperties, ElementOfSeq DEF TypeInv, TypeOK
<1>2. CASE Admit(s)
  BY <1>2 DEF Admit, Begin, NoJob, Job, JobOK
<1>3. ASSUME NEW caller \in User, NEW payload \in Request, ReadAndMerge(s, caller, payload)
      PROVE  \E j \in Job : JobOK(challenges, j) /\ job' = [job EXCEPT ![s] = j]
  <2> DEFINE r == Validated(caller, payload)
  <2>1. payload \in Payload /\ (payload.callee = "none") = (payload.kind # "direct") /\ "none" \notin User
    BY <1>3, ChallengeAssumption
  <2>2. /\ r \in Payload
        /\ r.kind = payload.kind /\ r.callee = payload.callee
    BY <2>1, ChallengeAssumption DEF Validated, Payload, AcceptorColor
  <2> HIDE DEF r
  <2>3. ASSUME Begin(s, [NoJob EXCEPT !.stage = "create", !.new = {NewRow(caller, r)}])
        PROVE  \E j \in Job : JobOK(challenges, j) /\ job' = [job EXCEPT ![s] = j]
    <3> DEFINE j == [NoJob EXCEPT !.stage = "create", !.new = {NewRow(caller, r)}]
    <3>1. NewRow(caller, r) \in ChallengeRow
      BY <2>2 DEF NewRow, ChallengeRow, Payload
    <3>2. RowOK(NewRow(caller, r))
      <4>1. r.kind = "direct" => r.callee # caller
        BY <1>3 DEF ReadAndMerge, ValidCallee, r
      <4> QED
        BY <2>1, <2>2, <4>1 DEF NewRow, RowOK
    <3>3. j \in Job
      BY <3>1 DEF NoJob, Job
    <3>4. JobOK(challenges, j)
      BY <3>2 DEF NoJob, JobOK
    <3> QED
      BY <2>3, <3>3, <3>4 DEF Begin
  <2>4. ASSUME NEW i \in Mergeable(caller, r),
               Begin(s, [NoJob EXCEPT !.stage = "game", !.id = i, !.client = caller])
        PROVE  \E j \in Job : JobOK(challenges, j) /\ job' = [job EXCEPT ![s] = j]
    <3> DEFINE j == [NoJob EXCEPT !.stage = "game", !.id = i, !.client = caller]
    <3>1. i \in DOMAIN challenges /\ challenges[i].caller # caller
      BY DEF Mergeable
    <3>2. j \in Job /\ JobOK(challenges, j)
      BY <1>1, <3>1 DEF NoJob, Job, JobOK
    <3> QED
      BY <2>4, <3>2 DEF Begin
  <2> QED
    BY <1>3, <2>3, <2>4 DEF ReadAndMerge, r
<1>4. ASSUME NEW client \in User, NEW i \in DOMAIN challenges, ReadAccept(s, client, i)
      PROVE  \E j \in Job : JobOK(challenges, j) /\ job' = [job EXCEPT ![s] = j]
  <2> DEFINE j == [NoJob EXCEPT !.stage = "game", !.id = i, !.client = client]
  <2>1. challenges[i].caller # client
    BY <1>1, <1>4 DEF ReadAccept, MayAccept, RowOK
  <2>2. j \in Job /\ JobOK(challenges, j)
    BY <1>1, <2>1 DEF NoJob, Job, JobOK
  <2> QED
    BY <1>4, <2>2 DEF ReadAccept, Begin
<1>5. ASSUME NEW client \in User, NEW i \in DOMAIN challenges,
             ReadCancel(s, client, i) \/ ReadDecline(s, client, i)
      PROVE  \E j \in Job : JobOK(challenges, j) /\ job' = [job EXCEPT ![s] = j]
  <2> DEFINE j == [NoJob EXCEPT !.stage = "close", !.id = i]
  <2>1. j \in Job /\ JobOK(challenges, j)
    BY <1>1 DEF NoJob, Job, JobOK
  <2> QED
    BY <1>5, <2>1 DEF ReadCancel, ReadDecline, Begin
<1>6. CASE ActivateShutdown(s)
  BY <1>6 DEF ActivateShutdown, NoJob, Job, JobOK
<1>7. CASE ReadActive(s)
  <2> DEFINE active == {i \in DOMAIN challenges : challenges[i].active}
             j == [NoJob EXCEPT !.stage = "cancelling", !.todo = active]
  <2>1. j \in Job /\ JobOK(challenges, j)
    BY <1>1 DEF NoJob, Job, JobOK
  <2> QED
    BY <1>7, <2>1 DEF ReadActive, Begin
<1>8. CASE CancelNext(s)
  <2>1. PICK i \in job[s].todo :
          job' = [job EXCEPT ![s] = IF CancelFails(i) THEN NoJob
                                    ELSE [job[s] EXCEPT !.id = i, !.todo = @ \ {i}, !.done = @ \cup {i}]]
    BY <1>8 DEF CancelNext
  <2>2. job[s].stage = "cancelling"
    BY <1>8 DEF CancelNext
  <2> DEFINE j == [job[s] EXCEPT !.id = i, !.todo = @ \ {i}, !.done = @ \cup {i}]
  <2>3. job[s] \in Job /\ JobOK(challenges, job[s]) /\ i \in DOMAIN challenges
    BY <1>1, <2>1 DEF JobOK
  <2>4. j \in Job
    BY <1>1, <2>3 DEF Job
  <2>5. JobOK(challenges, j)
    BY <2>2, <2>3 DEF Job, JobOK
  <2>6. job' = [job EXCEPT ![s] = IF CancelFails(i) THEN NoJob ELSE j]
    BY <2>1, Zenon
  <2> QED
    BY <2>4, <2>5, <2>6
<1>9. CASE CommitChallenge(s) \/ CommitGame(s) \/ CommitClose(s) \/ EndCancelAll(s) \/ Abort(s)
  BY <1>9 DEF CommitChallenge, CommitGame, CommitClose, EndCancelAll, Abort, Begin
<1> QED
  BY <1>2, <1>3, <1>4, <1>5, <1>6, <1>7, <1>8, <1>9 DEF Step

\* The players of the game a session commits are its client and the caller.
LEMMA GameCommitted ==
  ASSUME TypeInv, NEW s \in Session, CommitGame(s)
  PROVE  \E g \in GameRow :
           /\ games' = Append(games, g)
           /\ g.white # g.black
           /\ g.of = job[s].id
<1> DEFINE c == challenges[job[s].id]
<1>1. /\ c \in ChallengeRow
      /\ job[s].client \in User /\ job[s].client # c.caller
      /\ job[s].id \in Nat
  BY LenProperties, ElementOfSeq DEF TypeInv, TypeOK, JobOK, CommitGame, Job
<1>2. PICK seats \in Seats(c.color, c.caller, job[s].client) :
        games' = Append(games, [white |-> seats[1], black |-> seats[2], rated |-> c.rated,
                                terms |-> c.terms, of |-> job[s].id])
  BY DEF CommitGame
<1>3. c.caller \in User /\ c.color \in AcceptorColor /\ c.rated \in BOOLEAN /\ c.terms \in Terms
  BY <1>1 DEF ChallengeRow
<1> HIDE DEF c
<1>4. seats \in {<<job[s].client, c.caller>>, <<c.caller, job[s].client>>}
  BY <1>2, <1>3 DEF Seats, AcceptorColor
<1>5. seats[1] \in User /\ seats[2] \in User /\ seats[1] # seats[2]
  BY <1>1, <1>3, <1>4 DEF c
<1> QED
  BY <1>1, <1>2, <1>3, <1>5 DEF GameRow

LEMMA TypeStep == TypeInv /\ [Next]_vars => TypeInv'
<1> SUFFICES ASSUME TypeInv, [Next]_vars
             PROVE  TypeInv'
  OBVIOUS
<1>1. ASSUME NEW s \in Session, Step(s)
      PROVE  TypeInv'
  <2>1. challenges' \in Seq(ChallengeRow) /\ Kept(challenges, challenges')
    BY <1>1, RowsKept
  <2>2. job' \in [Session -> Job] /\ \A t \in Session : JobOK(challenges', job'[t])
    BY <1>1, BeginJob
  <2>3. games' \in Seq(GameRow)
    <3>1. CASE CommitGame(s)
      BY <3>1, GameCommitted, AppendProperties DEF TypeInv, TypeOK
    <3>2. CASE ~CommitGame(s)
      BY <1>1, <3>2, OthersKeepGames DEF TypeInv, TypeOK
    <3> QED
      BY <3>1, <3>2
  <2>4. shutdown' \in BOOLEAN
    BY <1>1 DEF TypeInv, TypeOK, Step, Admit, ReadAndMerge, CommitChallenge, ReadAccept, CommitGame,
                ReadCancel, ReadDecline, CommitClose, ActivateShutdown, ReadActive, CancelNext,
                EndCancelAll, Abort, Begin
  <2>5. announced' \subseteq DOMAIN challenges'
    <3>1. announced' \subseteq DOMAIN challenges
      BY <1>1 DEF TypeInv, TypeOK, JobOK, Step, Admit, ReadAndMerge, CommitChallenge, ReadAccept, CommitGame,
                  ReadCancel, ReadDecline, CommitClose, ActivateShutdown, ReadActive, CancelNext,
                  EndCancelAll, Abort, Begin
    <3> QED
      BY <2>1, <3>1 DEF Kept
  <2>6. \A i \in DOMAIN challenges' : RowOK(challenges'[i])
    <3>1. CASE CommitChallenge(s)
      <4>1. PICK row \in job[s].new : challenges' = Append(challenges, row)
        BY <3>1 DEF CommitChallenge
      <4>2. row \in ChallengeRow /\ RowOK(row)
        BY <4>1 DEF TypeInv, TypeOK, Job, JobOK
      <4> QED
        BY <4>1, <4>2, RowsAppended DEF TypeInv, TypeOK
    <3>2. CASE ~CommitChallenge(s)
      <4>1. DOMAIN challenges' = DOMAIN challenges
        BY <1>1, <3>2, CommitsClose, OthersKeepRows
      <4> QED
        BY <2>1, <4>1 DEF TypeInv, Kept, RowOK
    <3> QED
      BY <3>1, <3>2
  <2> QED
    BY <2>1, <2>2, <2>3, <2>4, <2>5, <2>6 DEF TypeInv, TypeOK, RowOK
<1>2. CASE Restart
  BY <1>2, NoJobType DEF Restart, TypeInv, TypeOK
<1>3. CASE UNCHANGED vars
  BY <1>3 DEF vars, TypeInv, TypeOK
<1> QED
  BY <1>1, <1>2, <1>3 DEF Next

LEMMA TypeInit == Init => TypeInv
<1> SUFFICES ASSUME Init PROVE TypeInv
  OBVIOUS
<1>1. <<>> \in Seq(ChallengeRow) /\ <<>> \in Seq(GameRow) /\ DOMAIN <<>> = {}
  BY EmptySeq
<1>2. \A s \in Session : job[s] = NoJob
  BY DEF Init
<1> QED
  BY <1>1, <1>2, NoJobType DEF Init, TypeInv, TypeOK

LEMMA TypeInvariant == Spec => []TypeInv
<1> QED
  BY TypeInit, TypeStep, PTL DEF Spec

\* Every row and every job has the shape the code gives it, and the direct
\* challenges, and only they, have a callee.
THEOREM TypeCorrect == Spec => []TypeOK
<1>1. TypeInv => TypeOK
  BY DEF TypeInv
<1> QED
  BY <1>1, TypeInvariant, PTL

----------------------------------------------------------------------------
(* Games *)

GamesInv == NobodyPlaysThemself /\ GameClosesItsChallenge

LEMMA GamesStep == TypeInv /\ GamesInv /\ [Next]_vars => GamesInv'
<1> SUFFICES ASSUME TypeInv, GamesInv, [Next]_vars
             PROVE  GamesInv'
  OBVIOUS
<1>1. /\ challenges \in Seq(ChallengeRow) /\ games \in Seq(GameRow)
      /\ DOMAIN games = 1..Len(games) /\ Len(games) \in Nat
  BY LenProperties DEF TypeInv, TypeOK
<1>2. ASSUME NEW s \in Session, CommitGame(s)
      PROVE  GamesInv'
  <2>1. PICK g \in GameRow : games' = Append(games, g) /\ g.white # g.black /\ g.of = job[s].id
    BY <1>2, GameCommitted
  <2>2. /\ DOMAIN games' = 1..(Len(games) + 1)
        /\ \A k \in DOMAIN games : games'[k] = games[k]
        /\ games'[Len(games) + 1] = g
    BY <1>1, <2>1, AppendProperties
  <2>3. /\ DOMAIN challenges' = DOMAIN challenges
        /\ \A i \in DOMAIN challenges \ {job[s].id} : challenges'[i] = challenges[i]
        /\ ~challenges'[job[s].id].active
        /\ job[s].id \in DOMAIN challenges
    BY <1>2, CommitsClose DEF TypeInv, JobOK, CommitGame
  <2>4. challenges'[job[s].id].game = Len(games) + 1
    <3>1. challenges[job[s].id] \in ChallengeRow
      BY <1>1, <2>3, LenProperties, ElementOfSeq
    <3> QED
      BY <1>1, <1>2, <2>3, <3>1 DEF CommitGame, ChallengeRow
  <2>5. NobodyPlaysThemself'
    BY <1>1, <2>1, <2>2 DEF GamesInv, NobodyPlaysThemself
  <2>6. GameClosesItsChallenge'
    <3> SUFFICES ASSUME NEW k \in DOMAIN games'
                 PROVE  /\ games'[k].of \in DOMAIN challenges'
                        /\ ~challenges'[games'[k].of].active
                        /\ challenges'[games'[k].of].game \in DOMAIN games'
                        /\ games'[challenges'[games'[k].of].game].of = games'[k].of
      BY DEF GameClosesItsChallenge
    <3>1. CASE games'[k].of = job[s].id
      BY <1>1, <2>1, <2>2, <2>3, <2>4, <3>1
    <3>2. CASE games'[k].of # job[s].id
      <4>1. k \in DOMAIN games /\ games'[k] = games[k]
        BY <1>1, <2>1, <2>2, <3>2
      <4>2. /\ games[k].of \in DOMAIN challenges
            /\ ~challenges[games[k].of].active
            /\ challenges[games[k].of].game \in DOMAIN games
            /\ games[challenges[games[k].of].game].of = games[k].of
        BY <4>1 DEF GamesInv, GameClosesItsChallenge
      <4>3. games[k].of # job[s].id
        BY <3>2, <4>1
      <4>4. challenges'[games[k].of] = challenges[games[k].of] /\ games[k].of \in DOMAIN challenges'
        BY <2>3, <4>2, <4>3
      <4> DEFINE n == challenges[games[k].of].game
      <4>5. n \in DOMAIN games' /\ games'[n] = games[n]
        BY <1>1, <2>2, <4>2
      <4> HIDE DEF n
      <4> QED
        BY <4>1, <4>2, <4>4, <4>5 DEF n
    <3> QED
      BY <3>1, <3>2
  <2> QED
    BY <2>5, <2>6 DEF GamesInv
<1>3. ASSUME NEW s \in Session, Step(s), ~CommitGame(s)
      PROVE  GamesInv'
  <2>1. games' = games
    BY <1>3, OthersKeepGames
  <2>2. Kept(challenges, challenges')
    BY <1>3, RowsKept
  <2>3. \A i \in DOMAIN challenges : challenges'[i].game = challenges[i].game
    <3>1. \A i \in DOMAIN challenges : challenges[i] \in ChallengeRow
      BY <1>1, LenProperties, ElementOfSeq
    <3>2. CASE CommitChallenge(s)
      <4>1. PICK row \in job[s].new : challenges' = Append(challenges, row)
        BY <3>2 DEF CommitChallenge
      <4>2. row \in ChallengeRow
        BY <4>1 DEF TypeInv, TypeOK, Job
      <4> QED
        BY <1>1, <4>1, <4>2, RowsAppended
    <3>3. CASE CommitClose(s)
      BY <3>1, <3>3 DEF CommitClose, ChallengeRow
    <3>4. CASE CancelNext(s)
      BY <3>1, <3>4 DEF CancelNext, ChallengeRow
    <3>5. CASE ~CommitChallenge(s) /\ ~CommitClose(s) /\ ~CancelNext(s)
      BY <1>3, <3>5, OthersKeepRows
    <3> QED
      BY <3>2, <3>3, <3>4, <3>5
  <2>4. GameClosesItsChallenge'
    BY <2>1, <2>2, <2>3 DEF GamesInv, GameClosesItsChallenge, Kept
  <2> QED
    BY <2>1, <2>4 DEF GamesInv, NobodyPlaysThemself
<1>4. CASE Restart \/ UNCHANGED vars
  BY <1>4 DEF Restart, vars, GamesInv, NobodyPlaysThemself, GameClosesItsChallenge
<1> QED
  BY <1>2, <1>3, <1>4 DEF Next

LEMMA GamesInvariant == Spec => []GamesInv
<1>1. Init => GamesInv
  BY EmptySeq DEF Init, GamesInv, NobodyPlaysThemself, GameClosesItsChallenge
<1> QED
  BY <1>1, GamesStep, TypeInvariant, PTL DEF Spec

\* However many requests accept, merge, cancel and decline at the same time, the
\* challenge a game was created from is closed for good and leads to such a game.
THEOREM GamesCloseTheirChallenges == Spec => []GameClosesItsChallenge
<1>1. GamesInv => GameClosesItsChallenge
  BY DEF GamesInv
<1> QED
  BY <1>1, GamesInvariant, PTL

\* No acceptance and no merge lets anyone play against themselves.
THEOREM PlayersDiffer == Spec => []NobodyPlaysThemself
<1>1. GamesInv => NobodyPlaysThemself
  BY DEF GamesInv
<1> QED
  BY <1>1, GamesInvariant, PTL

----------------------------------------------------------------------------
(* The shutdown *)

Closes(j) == j.stage \in {"list", "cancelling"}

\* Of what one session has cancelled only the last is not committed, and what
\* was announced before and left active is on its list again.
CancellingOK(rows, said, j) ==
  j.stage = "cancelling" =>
    /\ \A i \in j.done : rows[i].active => i = j.id
    /\ \A i \in said : rows[i].active => i \in j.todo \cup j.done

ShutdownInv ==
  /\ \A s \in Session : Closes(job[s]) => shutdown
  /\ \A s, t \in Session : Closes(job[s]) /\ Closes(job[t]) => s = t
  /\ \A s \in Session : CancellingOK(challenges, announced, job[s])
  /\ OneLeftBehind

\* Rows that are kept and announcements that stay disturb no shutdown.
LEMMA CancellingKept ==
  ASSUME NEW old, NEW new, Kept(old, new), NEW said, said \subseteq DOMAIN old,
         NEW j, JobOK(old, j), CancellingOK(old, said, j)
  PROVE  CancellingOK(new, said, j)
  BY DEF Kept, CancellingOK, JobOK

LEMMA OneLeftKept ==
  ASSUME TypeInv, OneLeftBehind, Kept(challenges, challenges'), announced' = announced
  PROVE  OneLeftBehind'
  BY DEF TypeInv, TypeOK, OneLeftBehind, Kept

\* A session that begins something else than a shutdown.
LEMMA OtherJob ==
  ASSUME TypeInv, ShutdownInv, NEW s \in Session, NEW j, ~Closes(j),
         job' = [job EXCEPT ![s] = j], Kept(challenges, challenges'),
         UNCHANGED <<announced, shutdown>>
  PROVE  ShutdownInv'
<1>1. \A t \in Session : job'[t] = j \/ job'[t] = job[t]
  BY DEF TypeInv, TypeOK
<1>2. CancellingOK(challenges', announced, j)
  BY DEF Closes, CancellingOK
<1>3. \A t \in Session : CancellingOK(challenges', announced', job'[t])
  BY <1>1, <1>2, CancellingKept DEF TypeInv, TypeOK, ShutdownInv
<1>4. \A t \in Session : Closes(job'[t]) => job'[t] = job[t]
  BY <1>1
<1>5. OneLeftBehind'
  BY OneLeftKept DEF ShutdownInv
<1> QED
  BY <1>3, <1>4, <1>5 DEF ShutdownInv

LEMMA ShutdownStep == TypeInv /\ ShutdownInv /\ [Next]_vars => ShutdownInv'
<1> SUFFICES ASSUME TypeInv, ShutdownInv, [Next]_vars
             PROVE  ShutdownInv'
  OBVIOUS
<1>1. job \in [Session -> Job] /\ announced \subseteq DOMAIN challenges
  BY DEF TypeInv, TypeOK
<1>2. ~Closes(NoJob)
  BY DEF NoJob, Closes
<1>3. ASSUME NEW s \in Session, Step(s),
             ~ActivateShutdown(s), ~ReadActive(s), ~CancelNext(s), ~EndCancelAll(s)
      PROVE  ShutdownInv'
  <2>1. \E j : ~Closes(j) /\ job' = [job EXCEPT ![s] = j]
    BY <1>2, <1>3 DEF Step, Admit, ReadAndMerge, CommitChallenge, ReadAccept, CommitGame, ReadCancel,
                      ReadDecline, CommitClose, Abort, Begin, NoJob, Closes
  <2>2. UNCHANGED <<announced, shutdown>>
    BY <1>3 DEF Step, Admit, ReadAndMerge, CommitChallenge, ReadAccept, CommitGame, ReadCancel,
                ReadDecline, CommitClose, Abort, Begin
  <2> QED
    BY <1>3, <2>1, <2>2, RowsKept, OtherJob
<1>4. ASSUME NEW s \in Session, ActivateShutdown(s)
      PROVE  ShutdownInv'
  <2>1. \A t \in Session : ~Closes(job[t])
    BY <1>4 DEF ActivateShutdown, ShutdownInv
  <2>2. \A t \in Session \ {s} : job'[t] = job[t]
    BY <1>1, <1>4 DEF ActivateShutdown
  <2>3. job'[s].stage = "list" /\ shutdown'
    BY <1>1, <1>4 DEF ActivateShutdown, NoJob
  <2>4. UNCHANGED <<challenges, announced>>
    BY <1>4 DEF ActivateShutdown
  <2> QED
    BY <2>1, <2>2, <2>3, <2>4 DEF ShutdownInv, CancellingOK, OneLeftBehind
<1>5. ASSUME NEW s \in Session, ReadActive(s)
      PROVE  ShutdownInv'
  <2>1. Closes(job[s])
    BY <1>5 DEF ReadActive, Closes
  <2>2. \A t \in Session \ {s} : job'[t] = job[t]
    BY <1>1, <1>5 DEF ReadActive, Begin
  <2>3. /\ job'[s].stage = "cancelling" /\ job'[s].done = {}
        /\ job'[s].todo = {i \in DOMAIN challenges : challenges[i].active}
    BY <1>1, <1>5 DEF ReadActive, Begin, NoJob
  <2>4. UNCHANGED <<challenges, announced, shutdown>>
    BY <1>5 DEF ReadActive, Begin
  <2>5. CancellingOK(challenges, announced, job'[s])
    BY <1>1, <2>3 DEF CancellingOK
  <2>6. \A t \in Session : Closes(job'[t]) => Closes(job[t])
    BY <2>1, <2>2
  <2> QED
    BY <2>2, <2>4, <2>5, <2>6 DEF ShutdownInv, OneLeftBehind
<1>6. ASSUME NEW s \in Session, CancelNext(s)
      PROVE  ShutdownInv'
  <2>1. PICK i \in job[s].todo :
          job' = [job EXCEPT ![s] = IF CancelFails(i) THEN NoJob
                                    ELSE [job[s] EXCEPT !.id = i, !.todo = @ \ {i}, !.done = @ \cup {i}]]
    BY <1>6 DEF CancelNext
  <2>2. UNCHANGED <<announced, shutdown>> /\ job[s].stage = "cancelling"
    BY <1>6 DEF CancelNext
  <2>3. Step(s)
    BY <1>6 DEF Step
  <2>4. /\ Kept(challenges, challenges')
        /\ job[s].id \in DOMAIN challenges => ~challenges'[job[s].id].active
    BY <1>6, CommitsClose
  <2>5. CASE CancelFails(i)
    <3>1. job' = [job EXCEPT ![s] = NoJob]
      BY <2>1, <2>5
    <3> QED
      BY <1>2, <2>2, <2>4, <3>1, OtherJob
  <2>6. CASE ~CancelFails(i)
    <3> DEFINE j == [job[s] EXCEPT !.id = i, !.todo = @ \ {i}, !.done = @ \cup {i}]
    <3>1. job' = [job EXCEPT ![s] = j]
      BY <2>1, <2>6
    <3>2. /\ j.stage = "cancelling" /\ j.id = i
          /\ j.todo = job[s].todo \ {i} /\ j.done = job[s].done \cup {i}
      BY <1>1, <2>2 DEF Job
    <3> HIDE DEF j
    <3>3. job[s].done \subseteq DOMAIN challenges
      BY DEF TypeInv, JobOK
    <3>4. \A k \in job[s].done : ~challenges'[k].active
      <4>1. \A k \in job[s].done : challenges'[k].active => challenges[k].active
        BY <2>4, <3>3 DEF Kept
      <4>2. \A k \in job[s].done : challenges[k].active => k = job[s].id
        BY <2>2 DEF ShutdownInv, CancellingOK
      <4> QED
        BY <2>4, <3>3, <4>1, <4>2
    <3>5. \A k \in announced : challenges'[k].active => k \in job[s].todo \cup job[s].done
      BY <1>1, <2>2, <2>4 DEF ShutdownInv, CancellingOK, Kept
    <3>6. CancellingOK(challenges', announced', j)
      BY <2>1, <2>2, <3>2, <3>4, <3>5 DEF CancellingOK
    <3>7. job'[s] = j /\ \A t \in Session \ {s} : job'[t] = job[t]
      BY <1>1, <3>1
    <3>8. \A t \in Session : CancellingOK(challenges', announced', job'[t])
      BY <1>1, <2>2, <2>4, <3>6, <3>7, CancellingKept DEF TypeInv, ShutdownInv
    <3>9. \A t \in Session : Closes(job'[t]) => Closes(job[t])
      BY <2>2, <3>7 DEF Closes
    <3>10. OneLeftBehind'
      BY <2>2, <2>4, OneLeftKept DEF ShutdownInv
    <3> QED
      BY <2>2, <3>8, <3>9, <3>10 DEF ShutdownInv
  <2> QED
    BY <2>5, <2>6
<1>7. ASSUME NEW s \in Session, EndCancelAll(s)
      PROVE  ShutdownInv'
  <2>1. /\ announced' = announced \cup job[s].done
        /\ UNCHANGED <<challenges, shutdown>>
        /\ job[s].stage = "cancelling" /\ job[s].todo = {}
    BY <1>7 DEF EndCancelAll
  <2>2. job'[s] = NoJob /\ \A t \in Session \ {s} : job'[t] = job[t]
    BY <1>1, <1>7 DEF EndCancelAll
  <2>3. \A k \in announced' : challenges[k].active => k = job[s].id
    BY <2>1 DEF ShutdownInv, CancellingOK
  <2>4. \A t \in Session : ~Closes(job'[t])
    BY <1>2, <2>1, <2>2 DEF ShutdownInv, Closes
  <2> QED
    BY <2>1, <2>3, <2>4 DEF ShutdownInv, OneLeftBehind, CancellingOK, Closes
<1>8. CASE Restart
  BY <1>2, <1>8 DEF Restart, ShutdownInv, CancellingOK, OneLeftBehind, Closes, NoJob
<1>9. CASE UNCHANGED vars
  BY <1>9 DEF vars, ShutdownInv, OneLeftBehind
<1> QED
  BY <1>3, <1>4, <1>5, <1>6, <1>7, <1>8, <1>9 DEF Next

\* Whatever is accepted, refused or restarted meanwhile, of the challenges the
\* server has announced as cancelled at most one is still active.
THEOREM AtMostOneLeftBehind == Spec => []OneLeftBehind
<1>1. Init => ShutdownInv
  BY DEF Init, NoJob, ShutdownInv, Closes, CancellingOK, OneLeftBehind
<1>2. ShutdownInv => OneLeftBehind
  BY DEF ShutdownInv
<1> QED
  BY <1>1, <1>2, ShutdownStep, TypeInvariant, PTL DEF Spec

----------------------------------------------------------------------------
(* The limit *)

OpenIn(rows, u) == {i \in DOMAIN rows : rows[i].active /\ rows[i].caller = u}
AddingIn(jobs, u) == {s \in Session : \E row \in jobs[s].new : row.caller = u}

\* The open challenges of a user and those that are about to be added
LimitInv ==
  \A u \in User : Cardinality(OpenIn(challenges, u)) + Cardinality(AddingIn(job, u))
                    <= MaxActive + Cardinality(Session) - 1

LEMMA OpenFinite ==
  ASSUME NEW rows \in Seq(ChallengeRow), NEW u
  PROVE  IsFiniteSet(OpenIn(rows, u)) /\ Cardinality(OpenIn(rows, u)) \in Nat
<1>1. DOMAIN rows = 1..Len(rows) /\ Len(rows) \in Nat
  BY LenProperties
<1>2. IsFiniteSet(DOMAIN rows)
  BY <1>1, FS_Interval
<1>3. OpenIn(rows, u) \subseteq DOMAIN rows
  BY DEF OpenIn
<1> QED
  BY <1>2, <1>3, FS_Subset, FS_CardinalityType

LEMMA AddingFinite ==
  ASSUME NEW jobs, NEW u
  PROVE  /\ IsFiniteSet(AddingIn(jobs, u))
         /\ Cardinality(AddingIn(jobs, u)) \in Nat
         /\ Cardinality(AddingIn(jobs, u)) <= Cardinality(Session)
         /\ Cardinality(Session) \in Nat /\ MaxActive \in Nat
<1>1. AddingIn(jobs, u) \subseteq Session
  BY DEF AddingIn
<1>2. IsFiniteSet(Session) /\ MaxActive \in Nat
  BY ChallengeAssumption
<1> QED
  BY <1>1, <1>2, FS_Subset, FS_CardinalityType

\* A step that neither opens a challenge nor is about to.
LEMMA LimitKept ==
  ASSUME TypeInv, LimitInv, challenges' \in Seq(ChallengeRow),
         \A u \in User : OpenIn(challenges', u) \subseteq OpenIn(challenges, u),
         \A u \in User : AddingIn(job', u) \subseteq AddingIn(job, u)
  PROVE  LimitInv'
<1> SUFFICES ASSUME NEW u \in User
             PROVE  Cardinality(OpenIn(challenges', u)) + Cardinality(AddingIn(job', u))
                      <= MaxActive + Cardinality(Session) - 1
  BY DEF LimitInv
<1> DEFINE a == Cardinality(OpenIn(challenges, u))
           b == Cardinality(AddingIn(job, u))
           c == Cardinality(OpenIn(challenges', u))
           d == Cardinality(AddingIn(job', u))
<1>1. a \in Nat /\ c \in Nat /\ c <= a
  BY OpenFinite, FS_Subset DEF TypeInv, TypeOK
<1>2. b \in Nat /\ d \in Nat /\ d <= b
  BY AddingFinite, FS_Subset
<1>3. MaxActive + Cardinality(Session) - 1 \in Int
  BY AddingFinite
<1>4. a + b <= MaxActive + Cardinality(Session) - 1
  BY DEF LimitInv
<1> HIDE DEF a, b, c, d
<1> SUFFICES c + d <= MaxActive + Cardinality(Session) - 1
  BY DEF c, d
<1> QED
  BY <1>1, <1>2, <1>3, <1>4

LEMMA LimitStep == TypeInv /\ LimitInv /\ [Next]_vars => LimitInv'
<1> SUFFICES ASSUME TypeInv, LimitInv, [Next]_vars
             PROVE  LimitInv'
  OBVIOUS
<1>1. job \in [Session -> Job] /\ challenges \in Seq(ChallengeRow)
  BY DEF TypeInv, TypeOK
<1>2. NoJob.new = {}
  BY DEF NoJob
<1>3. ASSUME NEW s \in Session, CommitChallenge(s)
      PROVE  LimitInv'
  <2>1. PICK row \in job[s].new : challenges' = Append(challenges, row)
    BY <1>3 DEF CommitChallenge
  <2>2. row \in ChallengeRow /\ job' = [job EXCEPT ![s] = NoJob]
    BY <1>3, <2>1 DEF TypeInv, TypeOK, Job, CommitChallenge
  <2> DEFINE n == Len(challenges) + 1
  <2>3. /\ challenges' \in Seq(ChallengeRow)
        /\ DOMAIN challenges' = DOMAIN challenges \cup {n}
        /\ challenges'[n] = row
        /\ \A i \in DOMAIN challenges : challenges'[i] = challenges[i]
    BY <1>1, <2>1, <2>2, RowsAppended
  <2>4. n \notin DOMAIN challenges
    BY <1>1, LenProperties
  <2> HIDE DEF n
  <2> SUFFICES ASSUME NEW u \in User
               PROVE  Cardinality(OpenIn(challenges', u)) + Cardinality(AddingIn(job', u))
                        <= MaxActive + Cardinality(Session) - 1
    BY DEF LimitInv
  <2> DEFINE a == Cardinality(OpenIn(challenges, u))
             b == Cardinality(AddingIn(job, u))
             c == Cardinality(OpenIn(challenges', u))
             d == Cardinality(AddingIn(job', u))
  <2>5. a \in Nat /\ c \in Nat /\ b \in Nat /\ d \in Nat
    BY <1>1, <2>3, OpenFinite, AddingFinite
  <2>6. a + b <= MaxActive + Cardinality(Session) - 1 /\ MaxActive + Cardinality(Session) - 1 \in Int
    BY AddingFinite DEF LimitInv
  <2>7. AddingIn(job', u) = AddingIn(job, u) \ {s}
    BY <1>1, <1>2, <2>2 DEF AddingIn
  <2>8. CASE row.caller = u
    <3>1. OpenIn(challenges', u) \subseteq OpenIn(challenges, u) \cup {n}
      BY <2>3 DEF OpenIn
    <3>2. c <= a + 1
      <4>1. IsFiniteSet(OpenIn(challenges, u)) /\ n \notin OpenIn(challenges, u)
        BY <1>1, <2>4, OpenFinite DEF OpenIn
      <4>2. /\ IsFiniteSet(OpenIn(challenges, u) \cup {n})
            /\ Cardinality(OpenIn(challenges, u) \cup {n}) = a + 1
        BY <4>1, FS_AddElement
      <4> QED
        BY <3>1, <4>2, FS_Subset
    <3>3. s \in AddingIn(job, u)
      BY <2>1, <2>8 DEF AddingIn
    <3>4. d = b - 1
      BY <2>7, <3>3, AddingFinite, FS_RemoveElement
    <3> HIDE DEF a, b, c, d
    <3>5. c + d <= MaxActive + Cardinality(Session) - 1
      BY <2>5, <2>6, <3>2, <3>4
    <3> QED
      BY <3>5 DEF c, d
  <2>9. CASE row.caller # u
    <3>1. OpenIn(challenges', u) = OpenIn(challenges, u)
      BY <2>3, <2>4, <2>9 DEF OpenIn
    <3>2. c = a
      BY <3>1
    <3>3. d <= b
      BY <2>7, AddingFinite, FS_Subset
    <3> HIDE DEF a, b, c, d
    <3>4. c + d <= MaxActive + Cardinality(Session) - 1
      BY <2>5, <2>6, <3>2, <3>3
    <3> QED
      BY <3>4 DEF c, d
  <2> QED
    BY <2>8, <2>9
<1>4. ASSUME NEW s \in Session, NEW caller \in User, NEW payload \in Request, ReadAndMerge(s, caller, payload)
      PROVE  LimitInv'
  <2>1. /\ challenges' = challenges
        /\ Cardinality(OpenIn(challenges, caller)) < MaxActive
    BY <1>4 DEF ReadAndMerge, Begin, WithinLimits, ActiveOf, OpenIn
  <2>2. \E j : /\ job' = [job EXCEPT ![s] = j]
               /\ \A row \in j.new : row.caller = caller
    <3> DEFINE r == Validated(caller, payload)
    <3>1. ASSUME Begin(s, [NoJob EXCEPT !.stage = "create", !.new = {NewRow(caller, r)}])
          PROVE  \E j : /\ job' = [job EXCEPT ![s] = j]
                       /\ \A row \in j.new : row.caller = caller
      <4> DEFINE j == [NoJob EXCEPT !.stage = "create", !.new = {NewRow(caller, r)}]
      <4>1. j.new = {NewRow(caller, r)}
        BY DEF NoJob
      <4>2. NewRow(caller, r).caller = caller
        BY DEF NewRow
      <4> QED
        BY <3>1, <4>1, <4>2 DEF Begin
    <3>2. ASSUME NEW i, Begin(s, [NoJob EXCEPT !.stage = "game", !.id = i, !.client = caller])
          PROVE  \E j : /\ job' = [job EXCEPT ![s] = j]
                       /\ \A row \in j.new : row.caller = caller
      <4> DEFINE j == [NoJob EXCEPT !.stage = "game", !.id = i, !.client = caller]
      <4>1. j.new = {}
        BY DEF NoJob
      <4> QED
        BY <3>2, <4>1 DEF Begin
    <3> QED
      BY <1>4, <3>1, <3>2 DEF ReadAndMerge
  <2>3. \A u \in User \ {caller} : AddingIn(job', u) \subseteq AddingIn(job, u)
    BY <1>1, <2>2 DEF AddingIn
  <2> SUFFICES ASSUME NEW u \in User
               PROVE  Cardinality(OpenIn(challenges', u)) + Cardinality(AddingIn(job', u))
                        <= MaxActive + Cardinality(Session) - 1
    BY DEF LimitInv
  <2>4. /\ Cardinality(OpenIn(challenges, u)) \in Nat /\ Cardinality(AddingIn(job', u)) \in Nat
        /\ Cardinality(AddingIn(job, u)) \in Nat
        /\ MaxActive \in Nat /\ Cardinality(Session) \in Nat
        /\ Cardinality(AddingIn(job', u)) <= Cardinality(Session)
    BY <1>1, OpenFinite, AddingFinite
  <2>5. CASE u = caller
    BY <2>1, <2>4, <2>5
  <2>6. CASE u # caller
    <3>1. Cardinality(AddingIn(job', u)) <= Cardinality(AddingIn(job, u))
      BY <2>3, <2>6, AddingFinite, FS_Subset
    <3>2. Cardinality(OpenIn(challenges, u)) + Cardinality(AddingIn(job, u))
            <= MaxActive + Cardinality(Session) - 1
      BY DEF LimitInv
    <3> QED
      BY <2>1, <2>4, <3>1, <3>2
  <2> QED
    BY <2>5, <2>6
<1>5. ASSUME NEW s \in Session, Step(s), ~CommitChallenge(s),
             \A caller \in User, payload \in Request : ~ReadAndMerge(s, caller, payload)
      PROVE  LimitInv'
  <2>1. job'[s].new \subseteq job[s].new /\ \A t \in Session \ {s} : job'[t] = job[t]
    <3>1. CASE CancelNext(s)
      <4>1. PICK i \in job[s].todo :
              job' = [job EXCEPT ![s] = IF CancelFails(i) THEN NoJob
                                        ELSE [job[s] EXCEPT !.id = i, !.todo = @ \ {i}, !.done = @ \cup {i}]]
        BY <3>1 DEF CancelNext
      <4>2. [job[s] EXCEPT !.id = i, !.todo = @ \ {i}, !.done = @ \cup {i}].new = job[s].new
        BY <1>1 DEF Job
      <4> QED
        BY <1>1, <1>2, <4>1, <4>2
    <3>2. CASE Admit(s)
      BY <1>1, <3>2 DEF Admit, Begin, NoJob
    <3>3. ASSUME NEW client \in User, NEW i \in DOMAIN challenges,
                 ReadAccept(s, client, i) \/ ReadCancel(s, client, i) \/ ReadDecline(s, client, i)
          PROVE  job'[s].new \subseteq job[s].new /\ \A t \in Session \ {s} : job'[t] = job[t]
      BY <1>1, <3>3 DEF ReadAccept, ReadCancel, ReadDecline, Begin, NoJob
    <3>4. CASE ActivateShutdown(s) \/ ReadActive(s)
      BY <1>1, <3>4 DEF ActivateShutdown, ReadActive, Begin, NoJob
    <3>5. CASE CommitGame(s) \/ CommitClose(s) \/ EndCancelAll(s) \/ Abort(s)
      BY <1>1, <1>2, <3>5 DEF CommitGame, CommitClose, EndCancelAll, Abort, Begin
    <3> QED
      BY <1>5, <3>1, <3>2, <3>3, <3>4, <3>5 DEF Step
  <2>2. \A u \in User : AddingIn(job', u) \subseteq AddingIn(job, u)
    BY <1>1, <2>1 DEF AddingIn
  <2>3. /\ challenges' \in Seq(ChallengeRow) /\ Kept(challenges, challenges')
        /\ DOMAIN challenges' = DOMAIN challenges
    BY <1>5, RowsKept, CommitsClose, OthersKeepRows
  <2>4. \A u \in User : OpenIn(challenges', u) \subseteq OpenIn(challenges, u)
    BY <2>3 DEF Kept, OpenIn
  <2> QED
    BY <2>2, <2>3, <2>4, LimitKept
<1>6. CASE Restart
  <2>1. \A u \in User : AddingIn(job', u) \subseteq AddingIn(job, u)
    BY <1>2, <1>6 DEF Restart, AddingIn
  <2> QED
    BY <1>1, <1>6, <2>1, LimitKept DEF Restart
<1>7. CASE UNCHANGED vars
  BY <1>7 DEF vars, LimitInv
<1> QED
  BY <1>3, <1>4, <1>5, <1>6, <1>7 DEF Next

\* The limit of active challenges can be exceeded by one for each further
\* request in progress and no more.
THEOREM LimitHoldsUpToRaces == Spec => []LimitOvershoot
<1>1. Init => LimitInv
  <2> SUFFICES ASSUME Init, NEW u \in User
               PROVE  Cardinality(OpenIn(challenges, u)) + Cardinality(AddingIn(job, u))
                        <= MaxActive + Cardinality(Session) - 1
    BY DEF LimitInv
  <2>1. OpenIn(challenges, u) = {} /\ AddingIn(job, u) = {}
    BY EmptySeq DEF Init, NoJob, OpenIn, AddingIn
  <2>2. Cardinality(Session) \in Nat /\ Cardinality(Session) # 0 /\ MaxActive \in Nat
    BY ChallengeAssumption, FS_EmptySet, FS_CardinalityType
  <2> QED
    BY <2>1, <2>2, FS_EmptySet
<1>2. TypeInv /\ LimitInv => LimitOvershoot
  <2> SUFFICES ASSUME TypeInv, LimitInv, NEW u \in User
               PROVE  Cardinality(ActiveOf(u)) <= MaxActive + Cardinality(Session) - 1
    BY DEF LimitOvershoot
  <2>1. ActiveOf(u) = OpenIn(challenges, u)
    BY DEF ActiveOf, OpenIn
  <2>2. /\ Cardinality(OpenIn(challenges, u)) \in Nat /\ Cardinality(AddingIn(job, u)) \in Nat
        /\ MaxActive \in Nat /\ Cardinality(Session) \in Nat
    BY OpenFinite, AddingFinite DEF TypeInv, TypeOK
  <2>3. Cardinality(OpenIn(challenges, u)) + Cardinality(AddingIn(job, u)) <= MaxActive + Cardinality(Session) - 1
    BY DEF LimitInv
  <2> QED
    BY <2>1, <2>2, <2>3
<1> QED
  BY <1>1, <1>2, LimitStep, TypeInvariant, PTL DEF Spec

----------------------------------------------------------------------------
(* The closed server *)

LEMMA CreatingFinite ==
  /\ IsFiniteSet(Creating) /\ Cardinality(Creating) \in Nat
  /\ IsFiniteSet(Creating') /\ Cardinality(Creating') \in Nat
<1>1. IsFiniteSet(Session) /\ Creating \subseteq Session /\ Creating' \subseteq Session
  BY ChallengeAssumption DEF Creating
<1> QED
  BY <1>1, FS_Subset, FS_CardinalityType

\* A step that posts nothing and begins no creation.
LEMMA CreatingKept ==
  ASSUME TypeInv, challenges' \in Seq(ChallengeRow),
         DOMAIN challenges' = DOMAIN challenges, Creating' \subseteq Creating
  PROVE  Len(challenges') + Cardinality(Creating') <= Len(challenges) + Cardinality(Creating)
<1>1. Len(challenges') = Len(challenges) /\ Len(challenges) \in Nat
  <2>1. challenges \in Seq(ChallengeRow)
    BY DEF TypeInv, TypeOK
  <2>2. /\ Len(challenges) \in Nat /\ DOMAIN challenges = 1..Len(challenges)
        /\ Len(challenges') \in Nat /\ DOMAIN challenges' = 1..Len(challenges')
    BY <2>1, LenProperties
  <2> QED
    BY <2>2
<1>2. Cardinality(Creating') <= Cardinality(Creating)
  BY CreatingFinite, FS_Subset
<1> QED
  BY <1>1, <1>2, CreatingFinite

LEMMA ClosedStep ==
  ASSUME TypeInv, [Next]_vars, shutdown, shutdown'
  PROVE  Len(challenges') + Cardinality(Creating') <= Len(challenges) + Cardinality(Creating)
<1>1. job \in [Session -> Job] /\ challenges \in Seq(ChallengeRow)
  BY DEF TypeInv, TypeOK
<1>2. NoJob.stage = "idle"
  BY DEF NoJob
<1>3. ASSUME NEW s \in Session, CommitChallenge(s)
      PROVE  Len(challenges') + Cardinality(Creating') <= Len(challenges) + Cardinality(Creating)
  <2>1. PICK row \in job[s].new : challenges' = Append(challenges, row)
    BY <1>3 DEF CommitChallenge
  <2>2. row \in ChallengeRow
    BY <1>1, <2>1 DEF Job
  <2>3. Len(challenges') = Len(challenges) + 1 /\ Len(challenges) \in Nat
    BY <1>1, <2>1, <2>2, AppendProperties, LenProperties
  <2>4. s \in Creating /\ Creating' = Creating \ {s}
    BY <1>1, <1>2, <1>3 DEF CommitChallenge, Creating
  <2>5. Cardinality(Creating') = Cardinality(Creating) - 1
    BY <2>4, CreatingFinite, FS_RemoveElement
  <2> QED
    BY <2>3, <2>5, CreatingFinite
<1>4. ASSUME NEW s \in Session, Step(s), ~CommitChallenge(s)
      PROVE  Len(challenges') + Cardinality(Creating') <= Len(challenges) + Cardinality(Creating)
  <2>1. /\ \A t \in Session \ {s} : job'[t] = job[t]
        /\ job'[s].stage \in {"admitted", "create"} => job[s].stage \in {"admitted", "create"}
    <3>1. ASSUME NEW caller \in User, NEW payload \in Request, ReadAndMerge(s, caller, payload)
          PROVE  /\ \A t \in Session \ {s} : job'[t] = job[t]
                 /\ job[s].stage \in {"admitted", "create"}
      BY <1>1, <3>1 DEF ReadAndMerge, Begin
    <3>2. CASE CancelNext(s)
      <4>1. PICK i \in job[s].todo :
              job' = [job EXCEPT ![s] = IF CancelFails(i) THEN NoJob
                                        ELSE [job[s] EXCEPT !.id = i, !.todo = @ \ {i}, !.done = @ \cup {i}]]
        BY <3>2 DEF CancelNext
      <4>2. [job[s] EXCEPT !.id = i, !.todo = @ \ {i}, !.done = @ \cup {i}].stage = job[s].stage
        BY <1>1 DEF Job
      <4> QED
        BY <1>1, <1>2, <4>1, <4>2
    <3>3. ~Admit(s) /\ ~ActivateShutdown(s)
      BY DEF Admit, ActivateShutdown
    <3>4. ASSUME NEW client \in User, NEW i \in DOMAIN challenges,
                 ReadAccept(s, client, i) \/ ReadCancel(s, client, i) \/ ReadDecline(s, client, i)
          PROVE  /\ \A t \in Session \ {s} : job'[t] = job[t]
                 /\ job'[s].stage \notin {"admitted", "create"}
      <4>1. CASE ReadAccept(s, client, i)
        <5>1. job' = [job EXCEPT ![s] = [NoJob EXCEPT !.stage = "game", !.id = i, !.client = client]]
          BY <4>1 DEF ReadAccept, Begin
        <5>2. [NoJob EXCEPT !.stage = "game", !.id = i, !.client = client].stage = "game"
          BY DEF NoJob
        <5> QED
          BY <1>1, <5>1, <5>2
      <4>2. CASE ReadCancel(s, client, i) \/ ReadDecline(s, client, i)
        <5>1. job' = [job EXCEPT ![s] = [NoJob EXCEPT !.stage = "close", !.id = i]]
          BY <4>2 DEF ReadCancel, ReadDecline, Begin
        <5>2. [NoJob EXCEPT !.stage = "close", !.id = i].stage = "close"
          BY DEF NoJob
        <5> QED
          BY <1>1, <5>1, <5>2
      <4> QED
        BY <3>4, <4>1, <4>2
    <3>5. CASE ReadActive(s)
      BY <1>1, <3>5 DEF ReadActive, Begin, NoJob
    <3>6. CASE CommitGame(s) \/ CommitClose(s) \/ EndCancelAll(s) \/ Abort(s)
      BY <1>1, <1>2, <3>6 DEF CommitGame, CommitClose, EndCancelAll, Abort, Begin
    <3> QED
      BY <1>4, <3>1, <3>2, <3>3, <3>4, <3>5, <3>6 DEF Step
  <2>2. Creating' \subseteq Creating
    BY <2>1 DEF Creating
  <2>3. challenges' \in Seq(ChallengeRow) /\ DOMAIN challenges' = DOMAIN challenges
    BY <1>4, RowsKept, CommitsClose, OthersKeepRows
  <2> QED
    BY <2>2, <2>3, CreatingKept
<1>5. CASE Restart
  BY <1>5 DEF Restart
<1>6. CASE UNCHANGED vars
  BY <1>1, <1>6, CreatingKept DEF vars, Creating
<1> QED
  BY <1>3, <1>4, <1>5, <1>6 DEF Next

\* Of a server that is closed, the challenges and the requests that are creating
\* one never grow in number together: late challenges run out.
THEOREM LateChallengesRunOut == Spec => ClosedToChallenges
<1>1. TypeInv /\ [Next]_vars =>
        [shutdown /\ shutdown' => Len(challenges') + Cardinality(Creating')
                                  <= Len(challenges) + Cardinality(Creating)]_vars
  BY ClosedStep
<1> QED
  BY <1>1, TypeInvariant, PTL DEF Spec, ClosedToChallenges

----------------------------------------------------------------------------
(* One request at a time *)

OneAtATime == \A s, t \in Session : s = t

\* SuitEachOther of two rows, one of which may still have to be added
Suit(c, d) ==
  /\ c.active /\ d.active
  /\ c.caller # d.caller
  /\ c.kind = "public" \/ (c.kind = "direct" /\ c.callee = d.caller)
  /\ d.kind = "public" \/ (d.kind = "direct" /\ d.callee = c.caller)
  /\ c.rated = d.rated /\ c.terms = d.terms
  /\ Seats(c.color, c.caller, d.caller) \cap Seats(d.color, d.caller, c.caller) # {}

MayPost(row) ==
  /\ row.active
  /\ Cardinality(ActiveOf(row.caller)) < MaxActive
  /\ \A i \in DOMAIN challenges : ~Suit(challenges[i], row)
MayPlay(client, i) ==
  /\ challenges[i].active
  /\ challenges[i].callee \in {"none", client}

\* A job of the only session holds what its request would read now.
ReadsNow(j) ==
  /\ j.stage = "create" => \A row \in j.new : MayPost(row)
  /\ j.stage = "game" => MayPlay(j.client, j.id)
  /\ j.stage = "close" => challenges[j.id].active
  /\ j.stage = "cancelling" =>
       /\ j.id \in DOMAIN challenges => challenges[j.id].active
       /\ \A i \in j.todo : i # j.id /\ challenges[i].active

AloneInv ==
  /\ \A i, k \in DOMAIN challenges : ~Suit(challenges[i], challenges[k])
  /\ \A s \in Session : ReadsNow(job[s])

LEMMA NoJobReads == ReadsNow(NoJob)
  BY DEF NoJob, ReadsNow

LEMMA SuitSymmetric == \A c, d : Suit(c, d) => Suit(d, c)
  BY DEF Suit

\* What suits a new challenge is what it would have been merged with.
LEMMA SuitingMerged ==
  ASSUME NEW caller \in User, NEW r, r.kind \in Kind, r.color \in AcceptorColor,
         NEW i \in DOMAIN challenges, challenges[i].color \in AcceptorColor,
         Suit(challenges[i], NewRow(caller, r))
  PROVE  i \in Mergeable(caller, r)
<1> DEFINE c == challenges[i]
           d == NewRow(caller, r)
<1>1. /\ d.caller = caller /\ d.kind = r.kind /\ d.callee = r.callee /\ d.color = r.color
      /\ d.rated = r.rated /\ d.terms = r.terms
  BY DEF NewRow
<1>2. Suit(c, d) /\ c.color \in AcceptorColor
  OBVIOUS
<1> HIDE DEF c, d
<1>3. MergeableWith(c.color, r.color)
  <2>1. PICK seats : /\ seats \in Seats(c.color, c.caller, caller)
                     /\ seats \in Seats(r.color, caller, c.caller)
    BY <1>1, <1>2 DEF Suit
  <2>2. ASSUME c.color = r.color, c.color # "random"
        PROVE  FALSE
    <3>1. c.caller # caller
      BY <1>1, <1>2 DEF Suit
    <3>2. CASE c.color = "white"
      BY <2>1, <2>2, <3>1, <3>2 DEF Seats
    <3>3. CASE c.color = "black"
      BY <2>1, <2>2, <3>1, <3>3 DEF Seats
    <3> QED
      BY <1>2, <2>2, <3>2, <3>3 DEF AcceptorColor
  <2> QED
    BY <2>2 DEF MergeableWith
<1>4. /\ r.kind # "link_only"
      /\ c.active /\ c.caller # caller
      /\ c.rated = r.rated /\ c.terms = r.terms
      /\ c.kind = "public" \/ (c.kind = "direct" /\ c.callee = caller)
      /\ r.kind = "direct" => c.caller = r.callee
  BY <1>1, <1>2 DEF Suit
<1> QED
  BY <1>3, <1>4 DEF Mergeable, c

\* What a session is doing next, of the rows that it reads.
LEMMA JobBegun ==
  ASSUME TypeInv, AloneInv, NEW s \in Session, Step(s),
         ~CommitChallenge(s), ~CommitGame(s), ~CommitClose(s), ~CancelNext(s)
  PROVE  \E j : ReadsNow(j) /\ job' = [job EXCEPT ![s] = j]
<1> USE NoJobReads
<1>1. CASE Admit(s)
  BY <1>1 DEF Admit, Begin, NoJob, ReadsNow
<1>2. ASSUME NEW caller \in User, NEW payload \in Request, ReadAndMerge(s, caller, payload)
      PROVE  \E j : ReadsNow(j) /\ job' = [job EXCEPT ![s] = j]
  <2> DEFINE r == Validated(caller, payload)
  <2>1. r.kind \in Kind /\ r.color \in AcceptorColor
    BY ChallengeAssumption DEF Validated, Payload, AcceptorColor
  <2>l. Cardinality(ActiveOf(caller)) < MaxActive
    BY <1>2, Zenon DEF ReadAndMerge, WithinLimits
  <2>w. IF Mergeable(caller, r) = {}
           THEN Begin(s, [NoJob EXCEPT !.stage = "create", !.new = {NewRow(caller, r)}])
           ELSE \E i \in Mergeable(caller, r) :
                  Begin(s, [NoJob EXCEPT !.stage = "game", !.id = i, !.client = caller])
    BY <1>2, Zenon DEF ReadAndMerge
  <2> HIDE DEF r
  <2>2. ASSUME Mergeable(caller, r) = {},
               Begin(s, [NoJob EXCEPT !.stage = "create", !.new = {NewRow(caller, r)}])
        PROVE  \E j : ReadsNow(j) /\ job' = [job EXCEPT ![s] = j]
    <3> DEFINE row == NewRow(caller, r)
               j == [NoJob EXCEPT !.stage = "create", !.new = {row}]
    <3>1. row.active /\ row.caller = caller
      BY DEF NewRow
    <3>2. \A i \in DOMAIN challenges : ~Suit(challenges[i], row)
      <4> TAKE i \in DOMAIN challenges
      <4>1. challenges[i] \in ChallengeRow
        BY LenProperties, ElementOfSeq DEF TypeInv, TypeOK
      <4>2. challenges[i].color \in AcceptorColor
        BY <4>1 DEF ChallengeRow
      <4> QED
        BY <2>1, <2>2, <4>2, SuitingMerged
    <3> HIDE DEF row
    <3>4. MayPost(row)
      BY <2>l, <3>1, <3>2, Zenon DEF MayPost
    <3>5. ReadsNow(j)
      BY <3>4 DEF NoJob, ReadsNow
    <3> QED
      BY <2>2, <3>5 DEF Begin, row
  <2>3. ASSUME NEW i \in Mergeable(caller, r),
               Begin(s, [NoJob EXCEPT !.stage = "game", !.id = i, !.client = caller])
        PROVE  \E j : ReadsNow(j) /\ job' = [job EXCEPT ![s] = j]
    <3> DEFINE j == [NoJob EXCEPT !.stage = "game", !.id = i, !.client = caller]
    <3>1. i \in DOMAIN challenges /\ RowOK(challenges[i])
      BY DEF Mergeable, TypeInv
    <3>2. MayPlay(caller, i)
      BY <3>1 DEF Mergeable, MayPlay, RowOK
    <3>3. ReadsNow(j)
      BY <3>2 DEF NoJob, ReadsNow
    <3> QED
      BY <2>3, <3>3 DEF Begin
  <2>4. CASE Mergeable(caller, r) = {}
    BY <2>w, <2>2, <2>4, Zenon
  <2>5. CASE Mergeable(caller, r) # {}
    BY <2>w, <2>3, <2>5, Zenon
  <2> QED
    BY <2>4, <2>5
<1>3. ASSUME NEW client \in User, NEW i \in DOMAIN challenges, ReadAccept(s, client, i)
      PROVE  \E j : ReadsNow(j) /\ job' = [job EXCEPT ![s] = j]
  <2> DEFINE j == [NoJob EXCEPT !.stage = "game", !.id = i, !.client = client]
  <2>1. MayPlay(client, i)
    BY <1>3 DEF ReadAccept, MayAccept, MayPlay, TypeInv, RowOK
  <2>2. ReadsNow(j)
    BY <2>1 DEF NoJob, ReadsNow
  <2> QED
    BY <1>3, <2>2 DEF ReadAccept, Begin
<1>4. ASSUME NEW client \in User, NEW i \in DOMAIN challenges,
             ReadCancel(s, client, i) \/ ReadDecline(s, client, i)
      PROVE  \E j : ReadsNow(j) /\ job' = [job EXCEPT ![s] = j]
  <2> DEFINE j == [NoJob EXCEPT !.stage = "close", !.id = i]
  <2>1. ReadsNow(j)
    BY <1>4 DEF ReadCancel, ReadDecline, NoJob, ReadsNow
  <2> QED
    BY <1>4, <2>1 DEF ReadCancel, ReadDecline, Begin
<1>5. CASE ActivateShutdown(s)
  BY <1>5 DEF ActivateShutdown, NoJob, ReadsNow
<1>6. CASE ReadActive(s)
  <2> DEFINE active == {i \in DOMAIN challenges : challenges[i].active}
             j == [NoJob EXCEPT !.stage = "cancelling", !.todo = active]
  <2>1. 0 \notin DOMAIN challenges
    BY LenProperties DEF TypeInv, TypeOK
  <2>2. ReadsNow(j)
    BY <2>1 DEF NoJob, ReadsNow
  <2>3. job' = [job EXCEPT ![s] = j]
    BY <1>6, Zenon DEF ReadActive, Begin
  <2> HIDE DEF j
  <2> QED
    BY <2>2, <2>3
<1>7. CASE EndCancelAll(s) \/ Abort(s)
  BY <1>7 DEF EndCancelAll, Abort, Begin
<1> QED
  BY <1>1, <1>2, <1>3, <1>4, <1>5, <1>6, <1>7 DEF Step

\* A session that leaves the rows as they are: its job was read of them.
LEMMA RowsRead ==
  ASSUME OneAtATime, TypeInv, AloneInv, NEW s \in Session, challenges' = challenges,
         NEW j, ReadsNow(j), job' = [job EXCEPT ![s] = j]
  PROVE  AloneInv'
<1>1. \A t \in Session : job'[t] = j
  BY DEF OneAtATime, TypeInv, TypeOK
<1>2. ReadsNow(j)'
  BY DEF ReadsNow, MayPost, MayPlay, ActiveOf
<1>3. \A i, k \in DOMAIN challenges' : ~Suit(challenges'[i], challenges'[k])
  BY DEF AloneInv
<1>4. \A t \in Session : ReadsNow(job[t])'
  BY <1>1, <1>2
<1> QED
  BY <1>3, <1>4 DEF AloneInv

\* The shutdown goes on with a challenge that is still active.
LEMMA NextCancelled ==
  ASSUME TypeInv, AloneInv, NEW s \in Session, CancelNext(s)
  PROVE  \E j : /\ job' = [job EXCEPT ![s] = j]
                /\ \/ j = NoJob
                   \/ /\ j.stage = "cancelling"
                      /\ \A k \in j.todo \cup {j.id} : challenges'[k].active
                      /\ j.id \notin j.todo
<1>k. /\ DOMAIN challenges' = DOMAIN challenges
      /\ \A i \in DOMAIN challenges \ {job[s].id} : challenges'[i] = challenges[i]
  BY CommitsClose
<1>1. PICK i \in job[s].todo :
        job' = [job EXCEPT ![s] = IF CancelFails(i) THEN NoJob
                                  ELSE [job[s] EXCEPT !.id = i, !.todo = @ \ {i}, !.done = @ \cup {i}]]
  BY Zenon DEF CancelNext
<1>2. /\ job[s].stage = "cancelling" /\ job[s] \in Job /\ i \in DOMAIN challenges
      /\ \A k \in job[s].todo : k \in DOMAIN challenges /\ k # job[s].id /\ challenges[k].active
  BY <1>1 DEF CancelNext, TypeInv, TypeOK, JobOK, AloneInv, ReadsNow
<1>3. \A k \in job[s].todo : challenges'[k].active
  BY <1>k, <1>2
<1>4. CASE CancelFails(i)
  BY <1>1, <1>4
<1>5. CASE ~CancelFails(i)
  <2>1. PICK j : j = [job[s] EXCEPT !.id = i, !.todo = @ \ {i}, !.done = @ \cup {i}]
    OBVIOUS
  <2>2. job' = [job EXCEPT ![s] = j]
    BY <1>1, <1>5, <2>1
  <2>3. j.stage = "cancelling" /\ j.id = i /\ j.todo = job[s].todo \ {i}
    BY <1>2, <2>1 DEF Job
  <2> QED
    BY <1>3, <2>2, <2>3
<1> QED
  BY <1>4, <1>5

\* A challenge is closed: those left suit each other no more than before.
LEMMA ClosedAlone ==
  ASSUME OneAtATime, TypeInv, AloneInv, NEW s \in Session,
         CommitGame(s) \/ CommitClose(s) \/ CancelNext(s)
  PROVE  AloneInv'
<1>1. /\ DOMAIN challenges' = DOMAIN challenges
      /\ \A i \in DOMAIN challenges \ {job[s].id} : challenges'[i] = challenges[i]
      /\ job[s].id \in DOMAIN challenges => ~challenges'[job[s].id].active
  BY CommitsClose
<1>2. \A i, k \in DOMAIN challenges' : ~Suit(challenges'[i], challenges'[k])
  <2> SUFFICES ASSUME NEW i \in DOMAIN challenges', NEW k \in DOMAIN challenges',
                      Suit(challenges'[i], challenges'[k])
               PROVE  FALSE
    OBVIOUS
  <2>1. challenges'[i].active /\ challenges'[k].active
    BY DEF Suit
  <2>2. challenges'[i] = challenges[i] /\ challenges'[k] = challenges[k]
    BY <1>1, <2>1
  <2> QED
    BY <1>1, <2>2 DEF AloneInv
<1>3. PICK j : ReadsNow(j)' /\ job' = [job EXCEPT ![s] = j]
  <2>1. CASE CommitGame(s) \/ CommitClose(s)
    <3>1. job' = [job EXCEPT ![s] = NoJob]
      BY <2>1 DEF CommitGame, CommitClose
    <3>2. ReadsNow(NoJob)'
      BY DEF NoJob, ReadsNow
    <3> QED
      BY <3>1, <3>2
  <2>2. CASE CancelNext(s)
    <3>1. PICK j : /\ job' = [job EXCEPT ![s] = j]
                   /\ \/ j = NoJob
                      \/ /\ j.stage = "cancelling"
                         /\ \A k \in j.todo \cup {j.id} : challenges'[k].active
                         /\ j.id \notin j.todo
      BY <2>2, NextCancelled
    <3>2. ReadsNow(j)'
      BY <3>1 DEF NoJob, ReadsNow
    <3> QED
      BY <3>1, <3>2
  <2> QED
    BY <2>1, <2>2
<1>4. \A t \in Session : job'[t] = j
  BY <1>3 DEF OneAtATime, TypeInv, TypeOK
<1>5. \A t \in Session : ReadsNow(job[t])'
  BY <1>3, <1>4
<1> QED
  BY <1>2, <1>5 DEF AloneInv

\* A challenge is posted: nothing that waits suits it.
LEMMA PostedAlone ==
  ASSUME OneAtATime, TypeInv, AloneInv, NEW s \in Session, CommitChallenge(s)
  PROVE  AloneInv'
<1>1. PICK row \in job[s].new : challenges' = Append(challenges, row)
  BY DEF CommitChallenge
<1>2. MayPost(row) /\ row \in ChallengeRow
  BY <1>1 DEF CommitChallenge, AloneInv, ReadsNow, TypeInv, TypeOK, Job
<1>3. PICK m : m = Len(challenges) + 1
  OBVIOUS
<1>4. /\ DOMAIN challenges' = DOMAIN challenges \cup {m}
      /\ challenges'[m] = row
      /\ \A i \in DOMAIN challenges : challenges'[i] = challenges[i]
  BY <1>1, <1>2, <1>3, RowsAppended DEF TypeInv, TypeOK
<1>5. /\ ~Suit(row, row)
      /\ \A i \in DOMAIN challenges : ~Suit(challenges[i], row) /\ ~Suit(row, challenges[i])
  <2>1. ~Suit(row, row)
    BY DEF Suit
  <2> QED
    BY <1>2, <2>1, SuitSymmetric DEF MayPost
<1>6. \A i, k \in DOMAIN challenges' : ~Suit(challenges'[i], challenges'[k])
  BY <1>4, <1>5 DEF AloneInv
<1>7. \A t \in Session : job'[t] = NoJob
  BY DEF CommitChallenge, OneAtATime, TypeInv, TypeOK
<1>8. ReadsNow(NoJob)'
  BY DEF NoJob, ReadsNow
<1>9. \A t \in Session : ReadsNow(job[t])'
  BY <1>7, <1>8
<1> QED
  BY <1>6, <1>9 DEF AloneInv

LEMMA AloneStep ==
  ASSUME OneAtATime
  PROVE  TypeInv /\ AloneInv /\ [Next]_vars => AloneInv'
<1> SUFFICES ASSUME TypeInv, AloneInv, [Next]_vars
             PROVE  AloneInv'
  OBVIOUS
<1>1. ASSUME NEW s \in Session, Step(s)
      PROVE  AloneInv'
  <2>1. CASE CommitGame(s) \/ CommitClose(s) \/ CancelNext(s)
    BY <2>1, ClosedAlone
  <2>2. CASE CommitChallenge(s)
    BY <2>2, PostedAlone
  <2>3. CASE ~CommitChallenge(s) /\ ~(CommitGame(s) \/ CommitClose(s) \/ CancelNext(s))
    <3>1. PICK j : ReadsNow(j) /\ job' = [job EXCEPT ![s] = j]
      BY <1>1, <2>3, JobBegun
    <3>2. challenges' = challenges
      BY <1>1, <2>3, OthersKeepRows
    <3> QED
      BY <3>1, <3>2, RowsRead
  <2> QED
    BY <2>1, <2>2, <2>3
<1>2. CASE Restart
  <2>1. challenges' = challenges /\ \A t \in Session : job'[t] = NoJob
    BY <1>2 DEF Restart
  <2>2. ReadsNow(NoJob)'
    BY DEF NoJob, ReadsNow
  <2>3. \A t \in Session : ReadsNow(job[t])'
    BY <2>1, <2>2
  <2>4. \A i, k \in DOMAIN challenges' : ~Suit(challenges'[i], challenges'[k])
    BY <2>1 DEF AloneInv
  <2> QED
    BY <2>3, <2>4 DEF AloneInv
<1>3. CASE UNCHANGED vars
  BY <1>3 DEF vars, AloneInv, ReadsNow, MayPost, MayPlay, ActiveOf
<1> QED
  BY <1>1, <1>2, <1>3 DEF Next

LEMMA AloneInvariant ==
  ASSUME OneAtATime
  PROVE  Spec => []AloneInv
<1>1. Init => AloneInv
  <2> SUFFICES ASSUME Init PROVE AloneInv
    OBVIOUS
  <2>1. DOMAIN challenges = {} /\ \A s \in Session : job[s] = NoJob
    BY EmptySeq DEF Init
  <2> QED
    BY <2>1, NoJobReads DEF AloneInv
<1>2. TypeInv /\ AloneInv /\ [Next]_vars => AloneInv'
  BY AloneStep
<1> QED
  BY <1>1, <1>2, TypeInvariant, PTL DEF Spec

\* One request at a time, no two challenges that suit each other ever wait side
\* by side, whatever is posted, accepted, refused or cancelled and whenever the
\* server is shut down or restarted (try_merging).
THEOREM SuitingChallengesMerge ==
  ASSUME OneAtATime
  PROVE  Spec => []NothingLeftToMerge
<1>1. AloneInv => NothingLeftToMerge
  BY DEF AloneInv, Suit, NothingLeftToMerge, SuitEachOther
<1> QED
  BY <1>1, AloneInvariant, PTL

----------------------------------------------------------------------------
(* The board *)

\* What the rows of challenges and games are on the board.
Entry == [caller : User, callee : User \cup {"none"}, open : BOOLEAN]
EntryOf(row) == [caller |-> row.caller, callee |-> row.callee, open |-> row.active]
Entries(rows) ==
  [i \in DOMAIN rows |-> [caller |-> rows[i].caller, callee |-> rows[i].callee, open |-> rows[i].active]]
Match == [of : Nat, players : SUBSET User]
Matches(rows) == [g \in DOMAIN rows |-> [of |-> rows[g].of, players |-> {rows[g].white, rows[g].black}]]

LEMMA EntriesType ==
  ASSUME NEW rows \in Seq(ChallengeRow)
  PROVE  /\ Entries(rows) \in Seq(Entry) /\ Len(Entries(rows)) = Len(rows)
         /\ \A i \in DOMAIN rows : Entries(rows)[i] = EntryOf(rows[i])
<1>1. Len(rows) \in Nat /\ DOMAIN rows = 1..Len(rows)
  BY LenProperties
<1>2. \A i \in DOMAIN rows : rows[i] \in ChallengeRow
  BY <1>1, ElementOfSeq
<1>3. \A i \in DOMAIN rows : Entries(rows)[i] = EntryOf(rows[i]) /\ EntryOf(rows[i]) \in Entry
  BY <1>2 DEF Entries, EntryOf, Entry, ChallengeRow
<1>4. Entries(rows) \in [1..Len(rows) -> Entry]
  BY <1>1, <1>3 DEF Entries
<1> QED
  BY <1>1, <1>3, <1>4, SeqDef

LEMMA EntryAdded ==
  ASSUME NEW rows \in Seq(ChallengeRow), NEW row \in ChallengeRow
  PROVE  Entries(Append(rows, row)) = Append(Entries(rows), EntryOf(row))
<1>1. /\ Append(rows, row) \in Seq(ChallengeRow) /\ Len(Append(rows, row)) = Len(rows) + 1
      /\ \A i \in 1..Len(rows) : Append(rows, row)[i] = rows[i]
      /\ Append(rows, row)[Len(rows) + 1] = row
      /\ Len(rows) \in Nat /\ DOMAIN rows = 1..Len(rows)
      /\ DOMAIN Append(rows, row) = 1..(Len(rows) + 1)
  BY AppendProperties, LenProperties
<1>2. EntryOf(row) \in Entry
  BY DEF EntryOf, Entry, ChallengeRow
<1> DEFINE new == Append(rows, row)
<1>3. /\ Entries(new) \in Seq(Entry) /\ Len(Entries(new)) = Len(rows) + 1
      /\ \A i \in 1..(Len(rows) + 1) : Entries(new)[i] = EntryOf(new[i])
  BY <1>1, EntriesType
<1>4. /\ Entries(rows) \in Seq(Entry) /\ Len(Entries(rows)) = Len(rows)
      /\ \A i \in 1..Len(rows) : Entries(rows)[i] = EntryOf(rows[i])
  BY <1>1, EntriesType
<1>5. /\ Append(Entries(rows), EntryOf(row)) \in Seq(Entry)
      /\ Len(Append(Entries(rows), EntryOf(row))) = Len(rows) + 1
      /\ \A i \in 1..Len(rows) : Append(Entries(rows), EntryOf(row))[i] = Entries(rows)[i]
      /\ Append(Entries(rows), EntryOf(row))[Len(rows) + 1] = EntryOf(row)
  BY <1>2, <1>4, AppendProperties
<1>6. \A i \in 1..(Len(rows) + 1) : Entries(new)[i] = Append(Entries(rows), EntryOf(row))[i]
  <2> TAKE i \in 1..(Len(rows) + 1)
  <2>1. i \in 1..Len(rows) \/ i = Len(rows) + 1
    BY <1>1
  <2> QED
    BY <1>1, <1>3, <1>4, <1>5, <2>1
<1> QED
  BY <1>3, <1>5, <1>6, SeqEqual

LEMMA MatchesType ==
  ASSUME NEW rows \in Seq(GameRow)
  PROVE  /\ Matches(rows) \in Seq(Match) /\ Len(Matches(rows)) = Len(rows)
         /\ \A g \in DOMAIN rows :
              Matches(rows)[g] = [of |-> rows[g].of, players |-> {rows[g].white, rows[g].black}]
<1>1. Len(rows) \in Nat /\ DOMAIN rows = 1..Len(rows)
  BY LenProperties
<1>2. \A g \in DOMAIN rows : rows[g] \in GameRow
  BY <1>1, ElementOfSeq
<1>3. \A g \in DOMAIN rows : rows[g].of \in Nat /\ {rows[g].white, rows[g].black} \in SUBSET User
  BY <1>2 DEF GameRow
<1>4. Matches(rows) \in [1..Len(rows) -> Match]
  BY <1>1, <1>3 DEF Matches, Match
<1> QED
  BY <1>1, <1>4, SeqDef DEF Matches

LEMMA MatchAdded ==
  ASSUME NEW rows \in Seq(GameRow), NEW game \in GameRow,
         NEW match, match = [of |-> game.of, players |-> {game.white, game.black}]
  PROVE  Matches(Append(rows, game)) = Append(Matches(rows), match)
<1>1. /\ Append(rows, game) \in Seq(GameRow) /\ Len(Append(rows, game)) = Len(rows) + 1
      /\ \A g \in 1..Len(rows) : Append(rows, game)[g] = rows[g]
      /\ Append(rows, game)[Len(rows) + 1] = game
      /\ Len(rows) \in Nat /\ DOMAIN rows = 1..Len(rows)
      /\ DOMAIN Append(rows, game) = 1..(Len(rows) + 1)
  BY AppendProperties, LenProperties
<1>2. match \in Match
  BY DEF Match, GameRow
<1> DEFINE new == Append(rows, game)
           OfGame(row) == [of |-> row.of, players |-> {row.white, row.black}]
<1>3. /\ Matches(new) \in Seq(Match) /\ Len(Matches(new)) = Len(rows) + 1
      /\ \A g \in 1..(Len(rows) + 1) : Matches(new)[g] = OfGame(new[g])
  BY <1>1, MatchesType
<1>4. /\ Matches(rows) \in Seq(Match) /\ Len(Matches(rows)) = Len(rows)
      /\ \A g \in 1..Len(rows) : Matches(rows)[g] = OfGame(rows[g])
  BY <1>1, MatchesType
<1>5. /\ Append(Matches(rows), match) \in Seq(Match)
      /\ Len(Append(Matches(rows), match)) = Len(rows) + 1
      /\ \A g \in 1..Len(rows) : Append(Matches(rows), match)[g] = Matches(rows)[g]
      /\ Append(Matches(rows), match)[Len(rows) + 1] = match
  BY <1>2, <1>4, AppendProperties
<1>6. match = OfGame(game)
  OBVIOUS
<1> HIDE DEF OfGame
<1>7. \A g \in 1..(Len(rows) + 1) : Matches(new)[g] = Append(Matches(rows), match)[g]
  <2> TAKE g \in 1..(Len(rows) + 1)
  <2>1. g \in 1..Len(rows) \/ g = Len(rows) + 1
    BY <1>1
  <2> QED
    BY <1>1, <1>3, <1>4, <1>5, <1>6, <2>1
<1> QED
  BY <1>3, <1>5, <1>7, SeqEqual

\* The board counts as the code does.
LEMMA BoardCounts == \A S : Board!Cardinality(S) = Cardinality(S)
  BY DEF Board!Cardinality, Cardinality

\* A challenge is posted: its caller was within the limit and still is.
LEMMA PostOnBoard ==
  ASSUME TypeInv, AloneInv, NEW s \in Session, CommitChallenge(s)
  PROVE  Board!Post
<1>1. PICK row \in job[s].new : challenges' = Append(challenges, row)
  BY DEF CommitChallenge
<1>2. /\ MayPost(row) /\ row \in ChallengeRow /\ RowOK(row)
      /\ challenges \in Seq(ChallengeRow)
  BY <1>1 DEF CommitChallenge, AloneInv, ReadsNow, TypeInv, TypeOK, Job, JobOK
<1>3. PICK caller \in User, callee \in User \cup {"none"} :
        caller = row.caller /\ callee = row.callee
  BY <1>2 DEF ChallengeRow
<1>4. caller # callee
  BY <1>2, <1>3 DEF RowOK
<1>5. Board!Cardinality(Board!Open(caller)) < MaxActive
  <2>1. Board!Open(caller) = ActiveOf(caller)
    BY DEF Board!Open, ActiveOf
  <2> QED
    BY <1>2, <1>3, <2>1, BoardCounts DEF MayPost
<1>6. EntryOf(row) = [caller |-> caller, callee |-> callee, open |-> TRUE]
  BY <1>2, <1>3 DEF EntryOf, MayPost, ChallengeRow
<1>7. Entries(challenges') = Append(Entries(challenges), [caller |-> caller, callee |-> callee, open |-> TRUE])
  BY <1>1, <1>2, <1>6, EntryAdded
<1>8. Matches(games') = Matches(games)
  BY DEF CommitChallenge
<1> QED
  BY <1>4, <1>5, <1>7, <1>8, Zenon DEF Board!Post, Entries, Matches

\* One row is closed and nothing else changes on the board.
LEMMA EntryClosed ==
  ASSUME TypeInv, NEW i \in DOMAIN challenges,
         challenges' \in Seq(ChallengeRow), Kept(challenges, challenges'),
         DOMAIN challenges' = DOMAIN challenges, ~challenges'[i].active,
         \A k \in DOMAIN challenges \ {i} : challenges'[k] = challenges[k]
  PROVE  Entries(challenges') = [Entries(challenges) EXCEPT ![i].open = FALSE]
<1>1. /\ challenges \in Seq(ChallengeRow)
      /\ DOMAIN challenges = 1..Len(challenges) /\ DOMAIN challenges' = 1..Len(challenges')
      /\ \A k \in DOMAIN challenges : challenges'[k] \in ChallengeRow
  BY LenProperties, ElementOfSeq DEF TypeInv, TypeOK
<1>2. \A k \in DOMAIN challenges :
        /\ challenges'[k].caller = challenges[k].caller
        /\ challenges'[k].callee = challenges[k].callee
  BY DEF Kept
<1>3. challenges'[i].active = FALSE
  BY <1>1 DEF ChallengeRow
<1>4. \A k \in DOMAIN challenges :
        Entries(challenges')[k] = IF k = i THEN [Entries(challenges)[k] EXCEPT !.open = FALSE]
                                  ELSE Entries(challenges)[k]
  BY <1>1, <1>2, <1>3 DEF Entries
<1> QED
  BY <1>1, <1>4 DEF Entries

\* A challenge that is cancelled or refused was open.
LEMMA CloseOnBoard ==
  ASSUME TypeInv, AloneInv, NEW s \in Session, CommitClose(s) \/ CancelNext(s)
  PROVE  Board!Close \/ UNCHANGED <<challenges, games>>
<1>1. games' = games
  BY Zenon DEF CommitClose, CancelNext
<1>2. /\ challenges' \in Seq(ChallengeRow) /\ Kept(challenges, challenges')
      /\ DOMAIN challenges' = DOMAIN challenges
      /\ \A i \in DOMAIN challenges \ {job[s].id} : challenges'[i] = challenges[i]
      /\ job[s].id \in DOMAIN challenges => ~challenges'[job[s].id].active
      /\ challenges \in Seq(ChallengeRow)
  BY CommitsClose DEF TypeInv, TypeOK
<1>3. CASE job[s].id \in DOMAIN challenges
  <2>1. PICK i \in DOMAIN challenges : i = job[s].id
    BY <1>3
  <2>2. challenges[i].active
    <3>1. ReadsNow(job[s]) /\ job[s].stage \in {"close", "cancelling"}
      BY Zenon DEF CommitClose, CancelNext, AloneInv
    <3> QED
      BY <2>1, <3>1 DEF ReadsNow
  <2>3. Entries(challenges') = [Entries(challenges) EXCEPT ![i].open = FALSE]
    BY <1>2, <2>1, EntryClosed
  <2>4. Entries(challenges)[i].open
    BY <2>2 DEF Entries
  <2>5. Matches(games') = Matches(games)
    BY <1>1
  <2>6. i \in DOMAIN Entries(challenges)
    BY DEF Entries
  <2>7. Board!Close
    BY <2>3, <2>4, <2>5, <2>6, Zenon DEF Board!Close, Entries, Matches
  <2> QED
    BY <2>7
<1>4. CASE job[s].id \notin DOMAIN challenges
  <2>1. \A i \in DOMAIN challenges : challenges'[i] = challenges[i]
    BY <1>2, <1>4
  <2>2. Len(challenges') = Len(challenges)
    BY <1>2, LenProperties
  <2>3. challenges' = challenges
    BY <1>2, <2>1, <2>2, LenProperties, SeqEqual
  <2> QED
    BY <1>1, <2>3
<1> QED
  BY <1>3, <1>4

\* A challenge that is played was open, to the one who accepts it.
LEMMA PlayOnBoard ==
  ASSUME TypeInv, AloneInv, NEW s \in Session, CommitGame(s)
  PROVE  Board!Play
<1>1. PICK i \in DOMAIN challenges, acceptor \in User :
        /\ i = job[s].id /\ acceptor = job[s].client
        /\ acceptor # challenges[i].caller
  BY DEF CommitGame, TypeInv, JobOK
<1>2. challenges[i].active /\ challenges[i].callee \in {"none", acceptor}
  BY <1>1 DEF CommitGame, AloneInv, ReadsNow, MayPlay
<1>3. challenges[i] \in ChallengeRow /\ games \in Seq(GameRow) /\ i \in Nat
  BY LenProperties, ElementOfSeq DEF TypeInv, TypeOK
<1>4. Entries(challenges') = [Entries(challenges) EXCEPT ![i].open = FALSE]
  BY <1>1, CommitsClose, EntryClosed
<1>5. PICK game \in GameRow :
        /\ games' = Append(games, game) /\ game.of = i
        /\ {game.white, game.black} = {challenges[i].caller, acceptor}
  <2> DEFINE c == challenges[i]
  <2>1. PICK seats \in Seats(c.color, c.caller, acceptor) :
          games' = Append(games, [white |-> seats[1], black |-> seats[2], rated |-> c.rated,
                                  terms |-> c.terms, of |-> i])
    BY <1>1 DEF CommitGame
  <2>2. c.caller \in User /\ c.color \in AcceptorColor /\ c.rated \in BOOLEAN /\ c.terms \in Terms
    BY <1>3 DEF ChallengeRow
  <2> HIDE DEF c
  <2>3. seats \in {<<acceptor, c.caller>>, <<c.caller, acceptor>>}
    BY <2>1, <2>2 DEF Seats, AcceptorColor
  <2> DEFINE g == [white |-> seats[1], black |-> seats[2], rated |-> c.rated,
                   terms |-> c.terms, of |-> i]
  <2>4. g \in GameRow /\ g.of = i /\ {g.white, g.black} = {c.caller, acceptor}
    BY <1>3, <2>2, <2>3 DEF GameRow
  <2> QED
    BY <2>1, <2>4 DEF c
<1>6. PICK match : match = [of |-> i, players |-> {challenges[i].caller, acceptor}]
  OBVIOUS
<1>7. Matches(games') = Append(Matches(games), match)
  <2>1. match = [of |-> game.of, players |-> {game.white, game.black}]
    BY <1>5, <1>6
  <2> QED
    BY <1>3, <1>5, <2>1, MatchAdded
<1>8. /\ i \in DOMAIN Entries(challenges)
      /\ Entries(challenges)[i].open
      /\ acceptor # Entries(challenges)[i].caller
      /\ Entries(challenges)[i].callee \in {"none", acceptor}
      /\ match = [of |-> i, players |-> {Entries(challenges)[i].caller, acceptor}]
  BY <1>1, <1>2, <1>6 DEF Entries
<1>9. Matches(games') = Append(Matches(games), [of |-> i, players |-> {Entries(challenges)[i].caller, acceptor}])
  BY <1>7, <1>8
<1> QED
  BY <1>4, <1>8, <1>9, Zenon DEF Board!Play, Entries, Matches

LEMMA StepOnBoard ==
  ASSUME TypeInv, AloneInv, [Next]_vars
  PROVE  Board!Post \/ Board!Close \/ Board!Play \/ UNCHANGED <<challenges, games>>
<1>1. ASSUME NEW s \in Session, Step(s)
      PROVE  Board!Post \/ Board!Close \/ Board!Play \/ UNCHANGED <<challenges, games>>
  <2>1. CASE CommitChallenge(s)
    BY <2>1, PostOnBoard
  <2>2. CASE CommitClose(s) \/ CancelNext(s)
    BY <2>2, CloseOnBoard
  <2>3. CASE CommitGame(s)
    BY <2>3, PlayOnBoard
  <2>4. CASE ~CommitChallenge(s) /\ ~CommitGame(s) /\ ~CommitClose(s) /\ ~CancelNext(s)
    BY <1>1, <2>4, OthersKeepRows, OthersKeepGames
  <2> QED
    BY <2>1, <2>2, <2>3, <2>4
<1>2. CASE Restart \/ UNCHANGED vars
  BY <1>2 DEF Restart, vars
<1> QED
  BY <1>1, <1>2 DEF Next

\* One request at a time, the tables keep the board of challenges: a challenge is
\* open until it is closed or played, once, by its caller and one other user
\* whom it is open to, and nobody has more open than the limit (create_challenge,
\* accept_challenge, cancel_challenge, decline_challenge, cancel_all_challenges).
THEOREM TablesKeepTheBoard ==
  ASSUME OneAtATime
  PROVE  Spec => ImplementsBoard
<1>1. Init => Board!Start
  <2> SUFFICES ASSUME Init PROVE Board!Start
    OBVIOUS
  <2>1. challenges = <<>> /\ games = <<>> /\ DOMAIN <<>> = {}
    BY EmptySeq DEF Init
  <2>2. <<>> \in Seq(ChallengeRow) /\ <<>> \in Seq(GameRow) /\ Len(<<>>) = 0
    BY EmptySeq
  <2>3. Entries(challenges) = <<>> /\ Matches(games) = <<>>
    BY <2>1, <2>2, EntriesType, MatchesType, EmptySeq
  <2> QED
    BY <2>3 DEF Board!Start, Entries, Matches
<1>2. TypeInv /\ AloneInv /\ [Next]_vars => [Board!Post \/ Board!Close \/ Board!Play]_(Board!vars)
  BY StepOnBoard DEF Board!vars
<1>3. Spec => []AloneInv
  BY AloneInvariant
<1> QED
  BY <1>1, <1>2, <1>3, TypeInvariant, PTL DEF Spec, ImplementsBoard, Board!Spec

=============================================================================
