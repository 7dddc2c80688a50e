------------------------------- MODULE Coords -------------------------------
(***************************************************************************)
(* The board of rules/coords.py: 59 hexes in nine columns, the columns     *)
(* with an even number one hex longer and half a hex higher than the       *)
(* others, and the twelve directions of rules/piece_movement.py.           *)
(***************************************************************************)
EXTENDS Integers, Sequences

PieceColor == {"white", "black"}
Opposite(c) == IF c = "white" THEN "black" ELSE "white"
ColorSign(c) == IF c = "white" THEN 1 ELSE -1

BOARD_HEX_COUNT == 59
HexCoordinates == [i : Int, j : Int]
Hex(i, j) == [i |-> i, j |-> j]

IsValid(h) ==
  IF h.j = 6 THEN h.i % 2 = 0 /\ 0 <= h.i /\ h.i < 9
             ELSE 0 <= h.j /\ h.j < 6 /\ 0 <= h.i /\ h.i < 9

Hexes == {h \in [i : 0 .. 8, j : 0 .. 6] : IsValid(h)}

\* the number of a hex: rows from the top, in each the even columns first
Scalar(h) == 9 * h.j + h.i \div 2 + (IF h.i % 2 = 1 THEN 5 ELSE 0)
\* the hex of any number: in the nine columns, but it need not be on the board
Place == [i : 0 .. 8, j : Int]
FromScalar(s) ==
  LET i == (s % 9) * 2 IN Hex(IF i > 8 THEN i - 9 ELSE i, s \div 9)

IsFinalRowFor(h, side) ==
  IF side = "white" THEN Scalar(h) < 5 ELSE BOARD_HEX_COUNT - 5 <= Scalar(h)

\* asked of a departure, about a destination
IsLateralNeighbourFor(h, other) ==
  LET delta_i == h.i - other.i
      delta_j == h.j - other.j
      sideways == IF other.i % 2 = 0 THEN -1 ELSE 1
  IN IF delta_i = 0 THEN delta_j \in {-1, 1}
     ELSE delta_i \in {-1, 1} /\ delta_j \in {0, sideways}

ForwardLateral == {"FORWARD", "FORWARD_LEFT", "FORWARD_RIGHT"}
BackwardLateral == {"BACK", "BACK_LEFT", "BACK_RIGHT"}
Lateral == ForwardLateral \cup BackwardLateral
Radial == {"AGR_FORWARD_LEFT", "AGR_FORWARD_RIGHT", "AGR_BACK_LEFT",
           "AGR_BACK_RIGHT", "AGR_LEFT", "AGR_RIGHT"}
Direction == Lateral \cup Radial

(***************************************************************************)
(* Where step() lands, on the board or off it.  The floor division is      *)
(* taken of the signed number in the lateral directions, of the unsigned   *)
(* one in the radial directions, as in the source.                         *)
(***************************************************************************)
StepTarget(h, d, c, n) ==
  LET s == ColorSign(c)
      even == IF h.i % 2 = 0 THEN 1 ELSE 0
      odd == 1 - even
      left == h.i - n * s
      right == h.i + n * s
  IN CASE d = "FORWARD"           -> Hex(h.i, h.j - n * s)
       [] d = "FORWARD_LEFT"      -> Hex(left, h.j - (s * (n + even)) \div 2)
       [] d = "FORWARD_RIGHT"     -> Hex(right, h.j - (s * (n + even)) \div 2)
       [] d = "BACK"              -> Hex(h.i, h.j + n * s)
       [] d = "BACK_LEFT"         -> Hex(left, h.j + (s * (n + odd)) \div 2)
       [] d = "BACK_RIGHT"        -> Hex(right, h.j + (s * (n + odd)) \div 2)
       [] d = "AGR_LEFT"          -> Hex(h.i - 2 * s * n, h.j)
       [] d = "AGR_RIGHT"         -> Hex(h.i + 2 * s * n, h.j)
       [] d = "AGR_BACK_LEFT"     -> Hex(left, h.j + s * ((n + odd) \div 2 + n))
       [] d = "AGR_BACK_RIGHT"    -> Hex(right, h.j + s * ((n + odd) \div 2 + n))
       [] d = "AGR_FORWARD_LEFT"  -> Hex(left, h.j - s * ((n + even) \div 2 + n))
       [] d = "AGR_FORWARD_RIGHT" -> Hex(right, h.j - s * ((n + even) \div 2 + n))

\* The hexes met by steps of length one, in order, up to the edge of the board.
Ray(h, d, c) ==
  LET met[n \in 0 .. 8] ==
        IF n = 0 THEN <<>>
        ELSE LET before == met[n - 1]
                 last == IF before = <<>> THEN h ELSE before[Len(before)]
                 next == StepTarget(last, d, c, 1)
             IN IF Len(before) = n - 1 /\ IsValid(next) THEN Append(before, next) ELSE before
  IN met[8]
=============================================================================
