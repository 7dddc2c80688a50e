-------------------------------- MODULE Sip ---------------------------------
(***************************************************************************)
(* The texts in which a position is stored and sent: get_sip, get_v1_sip   *)
(* and position_from_sip.  A text is its version, the letter of the colour *)
(* to move ("b" for any but "w", as it is read) and, for each colour, the  *)
(* set of its pairs of a character, given by its code, and a letter.  The  *)
(* order of the pairs is left out: the writers sort them by the number of  *)
(* the hex, and what is read does not depend on it but where two pairs of  *)
(* one colour name the same hex.  There the later is read last and stays,  *)
(* so the earlier is left out of the set, and of what is written too.      *)
(***************************************************************************)
EXTENDS Rules, FiniteSets

\* mutant: the digits are left out
LettersOnly(scalar) == (IF scalar < 26 THEN 65 ELSE 97) + (scalar % 26)
\* mutant: the small letters are taken to follow the capital ones
LettersInARow(scalar) == IF scalar < 52 THEN 65 + scalar ELSE 48 + (scalar % 26)

\* the code of the character written for a hex
CharV2(scalar) ==
  (CASE scalar \div 26 = 0 -> 65 [] scalar \div 26 = 1 -> 97 [] OTHER -> 48) + (scalar % 26)
CharV1(scalar) == 64 + scalar

\* the hex read back from a character
ScalarV2(char) ==
  IF char >= 97 THEN 26 + char - 97 ELSE IF char >= 65 THEN char - 65 ELSE 52 + char - 48
ScalarV1(char) == char - 64

PieceLetter(kind) ==
  CASE kind = "progressor" -> "r" [] kind = "aggressor" -> "g" [] kind = "defensor" -> "e"
    [] kind = "liberator" -> "i" [] kind = "dominator" -> "o" [] kind = "intellector" -> "n"
ColorLetter(color) == IF color = "white" THEN "w" ELSE "b"

GetPieceKind(letter) ==
  CASE letter = "r" -> "progressor" [] letter = "g" -> "aggressor" [] letter = "e" -> "defensor"
    [] letter = "i" -> "liberator" [] letter = "o" -> "dominator" [] letter = "n" -> "intellector"
GetPieceColor(letter) == IF letter = "w" THEN "white" ELSE "black"

Letter == {"r", "g", "e", "i", "o", "n"}

ReadHex(sip, char) == FromScalar(IF sip.version = 1 THEN ScalarV1(char) ELSE ScalarV2(char))

\* the texts that can be read: any others raise
Sips ==
  {sip \in [version : {1, 2}, mover : {"w", "b"}, parts : [PieceColor -> SUBSET (Nat \X Letter)]] :
     \A c \in PieceColor :
       /\ IsFiniteSet(sip.parts[c])
       /\ \A a, b \in sip.parts[c] : ReadHex(sip, a[1]) = ReadHex(sip, b[1]) => a = b}

Occupied(p, c) == {h \in Known(p) : p.piece_arrangement[h].color = c}

\* of the pieces of a colour that get the same character, the one written last
Lasting(p, c) ==
  {h \in Occupied(p, c) : \A g \in Occupied(p, c) :
     CharV2(Scalar(g)) = CharV2(Scalar(h)) => Scalar(g) <= Scalar(h)}

GetSip(p) ==
  [version |-> 2,
   mover |-> ColorLetter(p.color_to_move),
   parts |-> [c \in PieceColor |->
     {<<CharV2(Scalar(h)), PieceLetter(p.piece_arrangement[h].kind)>> : h \in Lasting(p, c)}]]

GetV1Sip(p) ==
  [version |-> 1,
   mover |-> ColorLetter(p.color_to_move),
   parts |-> [c \in PieceColor |->
     {<<CharV1(Scalar(h)), PieceLetter(p.piece_arrangement[h].kind)>> : h \in Occupied(p, c)}]]

\* mutant: the letter is taken for the colour that has just moved
ColorMovedFromSip(sip) == IF sip.mover = "w" THEN "black" ELSE "white"

ColorToMoveFromSip(sip) == GetPieceColor(sip.mover)

PlacesRead(sip) == {ReadHex(sip, pair[1]) : pair \in UNION {sip.parts[c] : c \in PieceColor}}

\* A character is read whether its hex is on the board or not.  The part of Black
\* is read after that of White and replaces what is there.
PositionFromSip(sip) ==
  [piece_arrangement |->
     [h \in Hexes \cup PlacesRead(sip) |->
        LET read(c) == {pair \in sip.parts[c] : ReadHex(sip, pair[1]) = h}
            put(c) == Piece(GetPieceKind((CHOOSE pair \in read(c) : TRUE)[2]), c)
        IN IF read("black") # {} THEN put("black")
           ELSE IF read("white") # {} THEN put("white") ELSE Empty],
   color_to_move |-> ColorToMoveFromSip(sip)]
=============================================================================
