------------------------ MODULE GameImplementsRecord ------------------------
(***************************************************************************)
(* The tables of Game, read as the record of a game that GameRecord        *)
(* promises.                                                               *)
(***************************************************************************)
EXTENDS Game

PlyAt(k) == plies[CHOOSE i \in Live : plies[i].idx = k]

Line ==
  [k \in 1..Cardinality(Live) |->
     [sip |-> PlyAt(k - 1).sip,
      ms  |-> IF Fischer THEN times[PlyAt(k - 1).time].ms ELSE NoRow.ms]]

Record == INSTANCE GameRecord WITH
  Timed   <- Fischer,
  StartMs <- IF Fischer THEN InitRow.ms ELSE NoRow.ms,
  line    <- Line,
  clock   <- [ms |-> LatestTime.ms, ticking |-> LatestTime.ticking],
  open    <- {c \in Color : ToldApart(<<"takeback", c>>) /\ ActiveByCount(<<"takeback", c>>)},
  doubt   <- {c \in Color : ~ToldApart(<<"takeback", c>>)}

\* One request at a time, the tables implement the record: every commit of every
\* handler is a ply, a takeback, an offer, an addition of time or no change.
ImplementsRecord == Record!Spec
=============================================================================
