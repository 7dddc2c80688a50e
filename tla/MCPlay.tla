------------------------------- MODULE MCPlay -------------------------------
(***************************************************************************)
(* Small positions for Play: one piece of each kind next to its            *)
(* intellector, with pieces of the other side to take and of its own in    *)
(* the way, in a column of either parity, for either colour; and texts     *)
(* that name hexes off the board.                                          *)
(***************************************************************************)
EXTENDS PlayFollowsRules

\* the position seen from the other side of the board
Turned(h) == Hex(8 - h.i, 6 - h.j - (h.i % 2))

Placed(men, mover) ==
  [piece_arrangement |->
     [h \in Hexes |-> IF h \in DOMAIN men THEN Piece(men[h][1], men[h][2]) ELSE Empty],
   color_to_move |-> mover]

TurnedRound(men) ==
  [h \in {Turned(g) : g \in DOMAIN men} |-> <<men[Turned(h)][1], Opposite(men[Turned(h)][2])>>]

Men(S) == [h \in {Hex(m[1], m[2]) : m \in S} |->
             LET m == CHOOSE m \in S : Hex(m[1], m[2]) = h IN <<m[3], m[4]>>]

Middle(kind, i) ==
  Men({<<i, 3, kind, "white">>, <<i, 4, "intellector", "white">>, <<i + 1, 4, "defensor", "white">>,
       <<i, 1, "dominator", "black">>, <<i + 1, 2, "progressor", "black">>, <<i - 2, 3, "aggressor", "black">>,
       <<0, 2, "intellector", "black">>})

\* progressors that reach the final row, a defensor that swaps the intellector onto it
Edge ==
  Men({<<3, 0, "progressor", "white">>, <<4, 1, "progressor", "white">>, <<2, 0, "aggressor", "white">>,
       <<6, 1, "intellector", "white">>, <<6, 0, "defensor", "white">>, <<4, 0, "intellector", "black">>})

BothSides(men) == {Placed(men, "white"), Placed(TurnedRound(men), "black")}
Kinds == PieceKind \ {"intellector"}

Boards == {DefaultStarting} \cup BothSides(Edge) \cup UNION {BothSides(Middle(k, i)) : k \in Kinds, i \in {4, 5}}

-----------------------------------------------------------------------------
(* Texts that no writer wrote, as a custom start may be.  A pair is given  *)
(* by the number of its hex and the letter.                                *)

Text(version, mover, white, black) ==
  LET char(s) == IF version = 1 THEN s + 64 ELSE IF s < 26 THEN s + 65 ELSE IF s < 52 THEN s + 71 ELSE s - 4
      part(S) == {<<char(pair[1]), pair[2]>> : pair \in S}
  IN [version |-> version, mover |-> mover,
      parts |-> [c \in PieceColor |-> part(IF c = "white" THEN white ELSE black)]]

Mixed ==
  { \* "7" and "9" of version 2 are below the board; the intellector may swap with "9"
    Text(2, "w", {<<56, "n">>, <<61, "e">>, <<59, "o">>, <<26, "g">>, <<32, "g">>}, {<<2, "n">>, <<3, "r">>}),
    \* the intellector itself is off the board, and next to its final row
    Text(1, "b", {<<-4, "r">>, <<40, "n">>}, {<<60, "e">>, <<51, "n">>, <<70, "i">>}),
    \* numbers whose characters read as other hexes: 0 and 69, 1 and 96, 10 and -16
    Text(1, "w", {<<0, "r">>, <<69, "o">>, <<49, "n">>, <<-16, "i">>}, {<<1, "g">>, <<96, "e">>, <<9, "n">>, <<10, "r">>}),
    \* both parts name a hex, and Black's piece stays
    Text(2, "w", {<<40, "o">>, <<41, "n">>, <<38, "g">>, <<63, "n">>}, {<<40, "i">>, <<13, "n">>, <<63, "g">>}),
    \* an end that is started from: no intellector of Black's
    Text(2, "b", {<<40, "n">>, <<5, "r">>}, {<<31, "o">>, <<66, "g">>}) }

MCStart == {GetSip(p) : p \in Boards} \cup {GetV1Sip(p) : p \in BothSides(Edge)} \cup Mixed
=============================================================================
