------------------------------- MODULE Rules --------------------------------
(***************************************************************************)
(* The rules of the game: rules/piece.py, ply.py, ply_validation.py and    *)
(* position.py.  A position is an arrangement of pieces and the colour to  *)
(* move.  The arrangement is a function over the hexes of the board and    *)
(* whatever places off it a text has put a piece on, with Empty where the  *)
(* source has no entry; Position is the positions on the board.  A         *)
(* validator that raises PlyImpossibleException is a predicate that is     *)
(* false.                                                                  *)
(***************************************************************************)
EXTENDS Coords

PieceKind == {"progressor", "aggressor", "defensor", "liberator", "dominator", "intellector"}
Promotion == {"aggressor", "defensor", "liberator", "dominator"}

Piece(kind, color) == [kind |-> kind, color |-> color]
Pieces == [kind : PieceKind, color : PieceColor]
Empty == Piece("none", "none")
Arrangement == [Hexes -> Pieces \cup {Empty}]
Position == [piece_arrangement : Arrangement, color_to_move : PieceColor]
\* the positions with pieces on the given places off the board, too
PositionOver(places) ==
  [piece_arrangement : [Hexes \cup places -> Pieces \cup {Empty}], color_to_move : PieceColor]
Known(p) == DOMAIN p.piece_arrangement

MorphInto == PieceKind \cup {"none"}
Ply(departure, destination, morph_into) ==
  [departure |-> departure, destination |-> destination, morph_into |-> morph_into]
Plys == [departure : Hexes, destination : Hexes, morph_into : MorphInto]

Moving(p, ply) == p.piece_arrangement[ply.departure]
Target(p, ply) == p.piece_arrangement[ply.destination]
Free(p, h) == h \in Known(p) => p.piece_arrangement[h] = Empty
Intellectors(p, c) == {h \in Known(p) : p.piece_arrangement[h] = Piece("intellector", c)}

DerivedKind(p, ply) ==
  IF Target(p, ply) = Empty THEN "normal"
  ELSE IF Target(p, ply).color = Moving(p, ply).color THEN "swap" ELSE "capture"

\* the search goes over the six lateral steps of length one, in White's sense
IsHexUnderAura(p, h, side) ==
  \E d \in Lateral : LET near == StepTarget(h, d, "white", 1)
                     IN IsValid(near) /\ near \in Intellectors(p, side)

-----------------------------------------------------------------------------
(* ply_validation.py *)

CaptureOrNormal(p, ply, aura_allowed) ==
  /\ DerivedKind(p, ply) # "swap"
  /\ ply.morph_into # "none" =>
       /\ aura_allowed
       /\ Target(p, ply) = Piece(ply.morph_into, Opposite(Moving(p, ply).color))
       /\ ply.morph_into \notin {Moving(p, ply).kind, "intellector"}
       /\ IsHexUnderAura(p, ply.departure, Moving(p, ply).color)

DeltaI(ply) == ply.destination.i - ply.departure.i
DeltaJ(ply) == ply.destination.j - ply.departure.j
Size(n) == IF n < 0 THEN -n ELSE n

\* mutant: the hex next to the destination is not looked at
RaycastPasses(p, ply, absolute_direction) ==
  LET ray == Ray(ply.departure, absolute_direction, "white")
      n == Size(DeltaI(ply))
  IN n <= Len(ray) /\ (\A m \in 1 .. n - 2 : Free(p, ray[m])) /\ ray[n].j = ply.destination.j

RaycastReaches(p, ply, absolute_direction) ==
  LET ray == Ray(ply.departure, absolute_direction, "white")
      n == Size(DeltaI(ply))
  IN /\ n <= Len(ray)
     /\ \A m \in 1 .. n - 1 : Free(p, ray[m])
     /\ ray[n].j = ply.destination.j

ValidateProgressor(p, ply, allow_aura_captures) ==
  LET color == Moving(p, ply).color
      required_delta == IF color = "white" THEN -1 ELSE 1
      straight == ply.destination.i = ply.departure.i
      slanting == (ply.departure.i % 2 = 0) = (color = "white")
  IN /\ DeltaI(ply) \in -1 .. 1
     /\ DeltaJ(ply) = IF straight \/ slanting THEN required_delta ELSE 0
     /\ IF IsFinalRowFor(ply.destination, color)
          THEN ply.morph_into \notin Promotion =>
                 Target(p, ply).kind = "intellector" /\ ply.morph_into = "none"
          ELSE CaptureOrNormal(p, ply, allow_aura_captures)

ValidateDefensor(p, ply) ==
  /\ IsLateralNeighbourFor(ply.departure, ply.destination)
  /\ IF DerivedKind(p, ply) = "swap" THEN Target(p, ply).kind = "intellector"
     ELSE CaptureOrNormal(p, ply, TRUE)

ValidateIntellector(p, ply) ==
  /\ \/ DerivedKind(p, ply) = "normal"
     \/ Target(p, ply) = Piece("defensor", Moving(p, ply).color)
  /\ ply.morph_into = "none"
  /\ IsLateralNeighbourFor(ply.departure, ply.destination)

IsJump(ply) ==
  \/ (DeltaI(ply) \in {-2, 2} /\ DeltaJ(ply) \in {-1, 1})
  \/ (DeltaI(ply) = 0 /\ DeltaJ(ply) \in {-2, 2})

\* mutant: the quiet step may capture
ValidateCapturingLiberator(p, ply) ==
  IF IsJump(ply) THEN CaptureOrNormal(p, ply, TRUE)
  ELSE DerivedKind(p, ply) # "swap" /\ IsLateralNeighbourFor(ply.departure, ply.destination)

ValidateLiberator(p, ply) ==
  IF IsJump(ply) THEN CaptureOrNormal(p, ply, TRUE)
  ELSE /\ DerivedKind(p, ply) = "normal"
       /\ IsLateralNeighbourFor(ply.departure, ply.destination)

\* the numbers strictly between a and b
Between(a, b) == IF a < b THEN a + 1 .. b - 1 ELSE b + 1 .. a - 1

ValidateAggressor(p, ply) ==
  /\ DeltaI(ply) # 0
  /\ IF DeltaJ(ply) = 0
       THEN /\ DeltaI(ply) % 2 = 0
            /\ \A i \in Between(ply.departure.i, ply.destination.i) :
                 (i - ply.departure.i) % 2 = 0 => Free(p, Hex(i, ply.departure.j))
       ELSE RaycastReaches(p, ply,
              IF DeltaI(ply) < 0
                THEN IF DeltaJ(ply) < 0 THEN "AGR_FORWARD_LEFT" ELSE "AGR_BACK_LEFT"
                ELSE IF DeltaJ(ply) < 0 THEN "AGR_FORWARD_RIGHT" ELSE "AGR_BACK_RIGHT")
  /\ CaptureOrNormal(p, ply, TRUE)

ValidateDominator(p, ply) ==
  LET back == DeltaJ(ply) > 0 \/ (DeltaJ(ply) = 0 /\ ply.departure.i % 2 = 0)
  IN /\ IF DeltaI(ply) = 0
          THEN /\ DeltaJ(ply) # 0
               /\ \A j \in Between(ply.departure.j, ply.destination.j) :
                    Free(p, Hex(ply.departure.i, j))
          ELSE RaycastReaches(p, ply,
                 IF DeltaI(ply) < 0 THEN IF back THEN "BACK_LEFT" ELSE "FORWARD_LEFT"
                                    ELSE IF back THEN "BACK_RIGHT" ELSE "FORWARD_RIGHT")
     /\ CaptureOrNormal(p, ply, TRUE)

-----------------------------------------------------------------------------
(* position.py *)

Validate(p, ply, allow_progressor_aura) ==
  CASE Moving(p, ply).kind = "progressor"  -> ValidateProgressor(p, ply, allow_progressor_aura)
    [] Moving(p, ply).kind = "defensor"    -> ValidateDefensor(p, ply)
    [] Moving(p, ply).kind = "intellector" -> ValidateIntellector(p, ply)
    [] Moving(p, ply).kind = "liberator"   -> ValidateLiberator(p, ply)
    [] Moving(p, ply).kind = "aggressor"   -> ValidateAggressor(p, ply)
    [] Moving(p, ply).kind = "dominator"   -> ValidateDominator(p, ply)

\* as the server calls it: without the aura for progressors
IsPlyPossible(p, ply) ==
  /\ Moving(p, ply).color = p.color_to_move
  /\ Validate(p, ply, FALSE)

\* mutant: a swap is performed as a capture
PerformWithoutSwap(p, ply) ==
  [piece_arrangement |->
     [p.piece_arrangement EXCEPT
        ![ply.departure] = Empty,
        ![ply.destination] = IF ply.morph_into = "none" THEN Moving(p, ply)
                             ELSE Piece(ply.morph_into, Moving(p, ply).color)],
   color_to_move |-> Opposite(p.color_to_move)]

\* mutant: the departure is not popped
PerformWithoutPop(p, ply) ==
  [piece_arrangement |->
     [p.piece_arrangement EXCEPT
        ![ply.departure] = IF DerivedKind(p, ply) = "swap" THEN Target(p, ply) ELSE Moving(p, ply),
        ![ply.destination] =
            IF DerivedKind(p, ply) = "swap" \/ ply.morph_into = "none" THEN Moving(p, ply)
            ELSE Piece(ply.morph_into, Moving(p, ply).color)],
   color_to_move |-> Opposite(p.color_to_move)]

PerformPly(p, ply) ==
  [piece_arrangement |->
     [p.piece_arrangement EXCEPT
        ![ply.departure] = IF DerivedKind(p, ply) = "swap" THEN Target(p, ply) ELSE Empty,
        ![ply.destination] =
            IF DerivedKind(p, ply) = "swap" \/ ply.morph_into = "none" THEN Moving(p, ply)
            ELSE Piece(ply.morph_into, Moving(p, ply).color)],
   color_to_move |-> Opposite(p.color_to_move)]

\* The set-up of one side, the first rank from the left; Black's is seen from the
\* other side of the board.
FirstRank == <<"dominator", "liberator", "aggressor", "defensor", "intellector",
               "defensor", "aggressor", "liberator", "dominator">>
SetUp(h, color) ==
  LET rank == IF color = "black" THEN h.j ELSE 6 - h.j - (h.i % 2)
  IN IF rank = 0 THEN Piece(FirstRank[h.i + 1], color)
     ELSE IF rank = 1 /\ h.i % 2 = 0 THEN Piece("progressor", color) ELSE Empty

DefaultStarting ==
  [piece_arrangement |->
     [h \in Hexes |-> IF SetUp(h, "black") # Empty THEN SetUp(h, "black") ELSE SetUp(h, "white")],
   color_to_move |-> "white"]

FinalityGroup == {"valid_non_final", "fatum", "breakthrough", "invalid"}

GetFinalityGroup(p) ==
  LET at == [c \in PieceColor |-> Intellectors(p, c)]
      found == {c \in PieceColor : at[c] # {}}
      broken == {c \in PieceColor : \E h \in at[c] : IsFinalRowFor(h, c)}
      doubled == \E c \in PieceColor : \E g, h \in at[c] : g # h
  IN IF doubled \/ broken = PieceColor \/ found = {} THEN "invalid"
     ELSE IF found = PieceColor
       THEN IF broken = {} THEN "valid_non_final" ELSE "breakthrough"
       ELSE IF broken = {} THEN "fatum" ELSE "invalid"

IsValidStarting(p) == GetFinalityGroup(p) = "valid_non_final"
=============================================================================
