---------------------------- MODULE RulesProofs -----------------------------
(***************************************************************************)
(* Proofs about Play, for any set of texts that games are started from and *)
(* games of any length.                                                    *)
(***************************************************************************)
EXTENDS PlayFollowsRules, FiniteSetTheorems, TLAPS

(* The hexes of the nine columns are numbered by the integers, and the      *)
(* number is read back.                                                     *)
LEMMA PlaceNumbers ==
  /\ \A h \in Place : Scalar(h) \in Int /\ FromScalar(Scalar(h)) = h
  /\ \A s \in Int : FromScalar(s) \in Place /\ Scalar(FromScalar(s)) = s
<1>1. ASSUME NEW h \in Place PROVE Scalar(h) \in Int /\ FromScalar(Scalar(h)) = h
  <2>1. h.i \in 0 .. 8 /\ h.j \in Int /\ h = [i |-> h.i, j |-> h.j]
    BY DEF Place
  <2>2. \/ h.i = 0 \/ h.i = 1 \/ h.i = 2 \/ h.i = 3 \/ h.i = 4
        \/ h.i = 5 \/ h.i = 6 \/ h.i = 7 \/ h.i = 8
    BY <2>1
  <2>3. FromScalar(Scalar(h)).i = h.i /\ FromScalar(Scalar(h)).j = h.j
    BY <2>1, <2>2 DEF Scalar, FromScalar, Hex
  <2> QED
    BY <2>1, <2>3 DEF Scalar, FromScalar, Hex
<1>2. ASSUME NEW s \in Int PROVE FromScalar(s) \in Place /\ Scalar(FromScalar(s)) = s
  <2>1. s % 9 \in 0 .. 8 /\ s \div 9 \in Int /\ s = 9 * (s \div 9) + (s % 9)
    OBVIOUS
  <2>2. \/ s % 9 = 0 \/ s % 9 = 1 \/ s % 9 = 2 \/ s % 9 = 3 \/ s % 9 = 4
        \/ s % 9 = 5 \/ s % 9 = 6 \/ s % 9 = 7 \/ s % 9 = 8
    BY <2>1
  <2>3. FromScalar(s) \in Place
    BY <2>1, <2>2 DEF FromScalar, Hex, Place
  <2> QED
    BY <2>1, <2>2, <2>3 DEF FromScalar, Hex, Scalar
<1> QED
  BY <1>1, <1>2

(* Those of the board come first. *)
LEMMA ScalarNumbers ==
  ASSUME NEW h \in Hexes
  PROVE  h \in Place /\ Scalar(h) \in 0 .. BOARD_HEX_COUNT - 1 /\ FromScalar(Scalar(h)) = h
<1>1. h.i \in 0 .. 8 /\ h.j \in 0 .. 6 /\ IsValid(h) /\ h = [i |-> h.i, j |-> h.j]
  BY DEF Hexes
<1>2. \/ h.i = 0 \/ h.i = 1 \/ h.i = 2 \/ h.i = 3 \/ h.i = 4
      \/ h.i = 5 \/ h.i = 6 \/ h.i = 7 \/ h.i = 8
  BY <1>1
<1>3. Scalar(h) \in 0 .. BOARD_HEX_COUNT - 1
  BY <1>1, <1>2 DEF Scalar, IsValid, BOARD_HEX_COUNT
<1>4. h \in Place
  BY <1>1 DEF Place
<1> QED
  BY <1>3, <1>4, PlaceNumbers

(* Version 1 reads the character of any number back as the number, version *)
(* 2 that of the first 69 numbers.                                         *)
LEMMA CharactersRead ==
  /\ \A s \in Int : ScalarV1(CharV1(s)) = s
  /\ \A s \in 0 .. 68 : ScalarV2(CharV2(s)) = s
<1>1. \A s \in Int : ScalarV1(CharV1(s)) = s
  BY DEF ScalarV1, CharV1
<1>2. ASSUME NEW s \in 0 .. 68 PROVE ScalarV2(CharV2(s)) = s
  <2>1. CASE s < 26
    BY <2>1 DEF ScalarV2, CharV2
  <2>2. CASE 26 <= s /\ s < 52
    BY <2>2 DEF ScalarV2, CharV2
  <2>3. CASE 52 <= s
    BY <2>3 DEF ScalarV2, CharV2
  <2> QED
    BY <2>1, <2>2, <2>3
<1> QED
  BY <1>1, <1>2

(* Version 2 writes two numbers with one character, or with characters that *)
(* are read as different numbers.                                           *)
LEMMA CharactersApart ==
  ASSUME NEW s \in Int, NEW t \in Int
  PROVE  /\ CharV2(s) \in Nat /\ ScalarV2(CharV2(s)) \in Int
         /\ ScalarV2(CharV2(s)) = ScalarV2(CharV2(t)) => CharV2(s) = CharV2(t)
<1> DEFINE Char == (65 .. 90) \cup (97 .. 122) \cup (48 .. 73)
<1>1. ASSUME NEW n \in Int PROVE CharV2(n) \in Char
  <2>1. n % 26 \in 0 .. 25 /\ n \div 26 \in Int
    OBVIOUS
  <2>2. CASE n \div 26 = 0
    BY <2>1, <2>2 DEF CharV2
  <2>3. CASE n \div 26 = 1
    BY <2>1, <2>3 DEF CharV2
  <2>4. CASE n \div 26 # 0 /\ n \div 26 # 1
    BY <2>1, <2>4 DEF CharV2
  <2> QED
    BY <2>2, <2>3, <2>4
<1>2. \A a, b \in Char : ScalarV2(a) \in Int /\ (ScalarV2(a) = ScalarV2(b) => a = b)
  BY DEF ScalarV2
<1>3. Char \subseteq Nat
  OBVIOUS
<1> HIDE DEF Char
<1>4. CharV2(s) \in Char /\ CharV2(t) \in Char
  BY <1>1
<1> QED
  BY <1>2, <1>3, <1>4

LEMMA LettersRead ==
  /\ \A kind \in PieceKind : PieceLetter(kind) \in Letter /\ GetPieceKind(PieceLetter(kind)) = kind
  /\ \A letter \in Letter : GetPieceKind(letter) \in PieceKind
  /\ \A c \in PieceColor : ColorLetter(c) \in {"w", "b"} /\ GetPieceColor(ColorLetter(c)) = c
BY DEF PieceKind, GetPieceKind, PieceLetter, PieceColor, GetPieceColor, ColorLetter, Letter

-----------------------------------------------------------------------------
(* What a position over some places is. *)
LEMMA PositionsTyped ==
  ASSUME NEW S, NEW p \in PositionOver(S)
  PROVE  /\ p.piece_arrangement \in [Hexes \cup S -> Pieces \cup {Empty}] /\ Known(p) = Hexes \cup S
         /\ p.color_to_move \in PieceColor
         /\ \A c \in PieceColor : \A h \in Occupied(p, c) :
              /\ h \in Hexes \cup S
              /\ p.piece_arrangement[h] = Piece(p.piece_arrangement[h].kind, c)
              /\ p.piece_arrangement[h].kind \in PieceKind
         /\ \A h \in Hexes \cup S :
              p.piece_arrangement[h] = Empty <=> h \notin Occupied(p, "white") \cup Occupied(p, "black")
<1>1. p.piece_arrangement \in [Hexes \cup S -> Pieces \cup {Empty}] /\ p.color_to_move \in PieceColor
  BY DEF PositionOver
<1>2. Known(p) = Hexes \cup S
  BY <1>1 DEF Known
<1>3. ASSUME NEW c \in PieceColor, NEW h \in Occupied(p, c)
      PROVE  /\ h \in Hexes \cup S
             /\ p.piece_arrangement[h] = Piece(p.piece_arrangement[h].kind, c)
             /\ p.piece_arrangement[h].kind \in PieceKind
  <2>1. h \in Hexes \cup S /\ p.piece_arrangement[h].color = c
    BY <1>2 DEF Occupied
  <2>2. p.piece_arrangement[h] \in Pieces
    BY <1>1, <2>1 DEF Empty, Piece, PieceColor
  <2> QED
    BY <2>1, <2>2 DEF Pieces, Piece
<1>4. ASSUME NEW h \in Hexes \cup S
      PROVE  p.piece_arrangement[h] = Empty <=> h \notin Occupied(p, "white") \cup Occupied(p, "black")
  BY <1>1, <1>2 DEF Occupied, Empty, Piece, Pieces, PieceColor
<1> QED
  BY <1>1, <1>2, <1>3, <1>4

LEMMA PositionIsOver ==
  ASSUME NEW S, S \subseteq Hexes
  PROVE  PositionOver(S) = Position
<1>1. Hexes \cup S = Hexes
  OBVIOUS
<1> QED
  BY <1>1 DEF PositionOver, Position, Arrangement

(* What is a function of the members of a finite set is finite. *)
LEMMA ImageIsFinite ==
  ASSUME NEW S, IsFiniteSet(S), NEW f, NEW T, T \subseteq {f[x] : x \in S}
  PROVE  IsFiniteSet(T) /\ Cardinality(T) <= Cardinality(S)
<1> DEFINE R == {f[x] : x \in S}
           g == [x \in S |-> f[x]]
<1>1. g \in Surjection(S, R)
  BY DEF Surjection
<1>2. IsFiniteSet(R) /\ Cardinality(R) <= Cardinality(S)
  BY <1>1, FS_Surjection
<1>3. IsFiniteSet(T) /\ Cardinality(T) <= Cardinality(R)
  BY <1>2, FS_Subset
<1> QED
  BY <1>2, <1>3, FS_CardinalityType

(* What is read from a text stands where one of its pairs says. *)
LEMMA ReadTyped ==
  ASSUME NEW t \in Sips
  PROVE  /\ PositionFromSip(t) \in PositionOver(PlacesRead(t))
         /\ PlacesRead(t) \subseteq Place
         /\ \A h \in PlacesRead(t) : -64 <= Scalar(h)
         /\ \A c \in PieceColor : \A h \in Occupied(PositionFromSip(t), c) :
              \E pair \in t.parts[c] : ReadHex(t, pair[1]) = h
         /\ \A c \in PieceColor : IsFiniteSet(Occupied(PositionFromSip(t), c))
<1> DEFINE read(h, c) == {pair \in t.parts[c] : ReadHex(t, pair[1]) = h}
           put(h, c) == Piece(GetPieceKind((CHOOSE pair \in read(h, c) : TRUE)[2]), c)
           there(h) == IF read(h, "black") # {} THEN put(h, "black")
                       ELSE IF read(h, "white") # {} THEN put(h, "white") ELSE Empty
           p == PositionFromSip(t)
<1>1. /\ t.version \in {1, 2} /\ t.mover \in {"w", "b"}
      /\ \A c \in PieceColor : t.parts[c] \subseteq Nat \X Letter /\ IsFiniteSet(t.parts[c])
  BY DEF Sips
<1>2. \A n \in Nat : ReadHex(t, n) \in Place /\ -64 <= Scalar(ReadHex(t, n))
  <2>1. \A n \in Nat : ScalarV1(n) \in Int /\ -64 <= ScalarV1(n) /\ ScalarV2(n) \in Int /\ -64 <= ScalarV2(n)
    BY DEF ScalarV1, ScalarV2
  <2> QED
    BY <2>1, PlaceNumbers DEF ReadHex
<1>3. \A h \in PlacesRead(t) : h \in Place /\ -64 <= Scalar(h)
  <2> SUFFICES ASSUME NEW h \in PlacesRead(t) PROVE h \in Place /\ -64 <= Scalar(h)
    OBVIOUS
  <2>1. PICK c \in PieceColor : \E pair \in t.parts[c] : h = ReadHex(t, pair[1])
    BY DEF PlacesRead
  <2>2. PICK pair \in t.parts[c] : h = ReadHex(t, pair[1])
    BY <2>1
  <2>3. pair[1] \in Nat
    BY <1>1
  <2> QED
    BY <1>2, <2>2, <2>3
<1>4. ASSUME NEW h, NEW c \in PieceColor, read(h, c) # {} PROVE put(h, c) \in Pieces /\ put(h, c).color = c
  <2>1. (CHOOSE pair \in read(h, c) : TRUE) \in read(h, c)
    BY <1>4
  <2>2. (CHOOSE pair \in read(h, c) : TRUE)[2] \in Letter
    BY <1>1, <2>1
  <2> QED
    BY <2>2, LettersRead DEF Piece, Pieces
<1>5. p = [piece_arrangement |-> [h \in Hexes \cup PlacesRead(t) |-> there(h)],
           color_to_move |-> ColorToMoveFromSip(t)]
  BY DEF PositionFromSip
<1>6. ColorToMoveFromSip(t) \in PieceColor
  BY DEF ColorToMoveFromSip, GetPieceColor, PieceColor
<1> HIDE DEF put, read
<1>7. \A h : there(h) \in Pieces \cup {Empty}
  BY <1>4 DEF PieceColor
<1>8. p \in PositionOver(PlacesRead(t))
  BY <1>5, <1>6, <1>7 DEF PositionOver
<1>9. ASSUME NEW c \in PieceColor, NEW h \in Occupied(p, c)
      PROVE  \E pair \in t.parts[c] : ReadHex(t, pair[1]) = h
  <2>1. there(h).color = c
    BY <1>5 DEF Occupied, Known
  <2>2. read(h, c) # {}
    BY <1>4, <2>1 DEF PieceColor, Empty, Piece
  <2> QED
    BY <2>2 DEF read
<1>10. ASSUME NEW c \in PieceColor PROVE IsFiniteSet(Occupied(p, c))
  <2> DEFINE f == [pair \in t.parts[c] |-> ReadHex(t, pair[1])]
  <2>1. Occupied(p, c) \subseteq {f[pair] : pair \in t.parts[c]}
    BY <1>9
  <2> HIDE DEF f, p
  <2> QED
    BY <1>1, <2>1, ImageIsFinite
<1> QED
  BY <1>3, <1>8, <1>9, <1>10

(* A text gives the position it was written for, if its characters are read *)
(* back as the hexes they were written for.                                 *)
LEMMA TextRead ==
  ASSUME NEW S, NEW p \in PositionOver(S), NEW t \in Sips, NEW char,
         t.mover = ColorLetter(p.color_to_move),
         \A c \in PieceColor :
           t.parts[c] = {<<char[g], PieceLetter(p.piece_arrangement[g].kind)>> : g \in Occupied(p, c)},
         \A c \in PieceColor : \A g \in Occupied(p, c) : ReadHex(t, char[g]) = g
  PROVE  Alike(PositionFromSip(t), p)
<1> DEFINE read(h, c) == {pair \in t.parts[c] : ReadHex(t, pair[1]) = h}
           put(h, c) == Piece(GetPieceKind((CHOOSE pair \in read(h, c) : TRUE)[2]), c)
           there(h) == IF read(h, "black") # {} THEN put(h, "black")
                       ELSE IF read(h, "white") # {} THEN put(h, "white") ELSE Empty
           q == PositionFromSip(t)
<1>1. /\ p.color_to_move \in PieceColor
      /\ \A c \in PieceColor : \A h \in Occupied(p, c) :
           /\ h \in Hexes \cup S
           /\ p.piece_arrangement[h] = Piece(p.piece_arrangement[h].kind, c)
           /\ p.piece_arrangement[h].kind \in PieceKind
  BY PositionsTyped, Zenon
<1>2. ASSUME NEW h, NEW c \in PieceColor, NEW pair \in read(h, c)
      PROVE  h \in Occupied(p, c) /\ pair[2] = PieceLetter(p.piece_arrangement[h].kind)
  <2>1. PICK g \in Occupied(p, c) : pair = <<char[g], PieceLetter(p.piece_arrangement[g].kind)>>
    BY <1>2
  <2>2. ReadHex(t, pair[1]) = h
    BY <1>2
  <2>3. g = h
    BY <2>1, <2>2
  <2> QED
    BY <2>1, <2>3
<1>3. ASSUME NEW c \in PieceColor, NEW h \in Occupied(p, c)
      PROVE  read(h, c) # {} /\ put(h, c) = p.piece_arrangement[h] /\ h \in PlacesRead(t)
  <2>1. <<char[h], PieceLetter(p.piece_arrangement[h].kind)>> \in read(h, c)
    BY <1>3
  <2>2. (CHOOSE pair \in read(h, c) : TRUE) \in read(h, c)
    BY <2>1
  <2>3. (CHOOSE pair \in read(h, c) : TRUE)[2] = PieceLetter(p.piece_arrangement[h].kind)
    BY <1>2, <2>2
  <2>4. put(h, c) = p.piece_arrangement[h]
    BY <1>1, <2>3, LettersRead
  <2>5. PICK pair \in t.parts[c] : ReadHex(t, pair[1]) = h
    BY <2>1
  <2>6. h \in PlacesRead(t)
    BY <2>5 DEF PlacesRead
  <2> QED
    BY <2>1, <2>4, <2>6
<1>4. ASSUME NEW c \in PieceColor, NEW h \in Occupied(p, c) PROVE there(h) = p.piece_arrangement[h]
  <2>1. CASE c = "black"
    BY <1>3, <2>1
  <2>2. CASE c = "white"
    <3>1. h \notin Occupied(p, "black")
      BY <2>2 DEF Occupied
    <3>2. read(h, "black") = {}
      BY <3>1, <1>2 DEF PieceColor
    <3> HIDE DEF read, put
    <3> QED
      BY <2>2, <3>2, <1>3
  <2> QED
    BY <2>1, <2>2 DEF PieceColor
<1>5. q = [piece_arrangement |-> [h \in Hexes \cup PlacesRead(t) |-> there(h)],
           color_to_move |-> ColorToMoveFromSip(t)]
  BY DEF PositionFromSip
<1>6. ColorToMoveFromSip(t) = p.color_to_move
  BY <1>1, LettersRead DEF ColorToMoveFromSip
<1>7. ASSUME NEW c \in PieceColor, NEW h \in Occupied(q, c) PROVE h \in Occupied(p, c)
  <2>1. there(h).color = c
    BY <1>5 DEF Occupied, Known
  <2>2. read(h, c) # {}
    <3> HIDE DEF read
    <3> QED
      BY <2>1 DEF PieceColor, Empty, Piece
  <2> QED
    BY <1>2, <2>2
<1> HIDE DEF put, read
<1>8. ASSUME NEW c \in PieceColor, NEW h \in Occupied(p, c)
      PROVE  h \in Occupied(q, c) /\ q.piece_arrangement[h] = p.piece_arrangement[h]
  <2>1. h \in Known(q) /\ q.piece_arrangement[h] = p.piece_arrangement[h]
    BY <1>3, <1>4, <1>5 DEF Known
  <2> QED
    BY <2>1, <1>8 DEF Occupied
<1>9. q.color_to_move = p.color_to_move
  BY <1>5, <1>6
<1> HIDE DEF there, q
<1>10. \A c \in PieceColor : Occupied(q, c) = Occupied(p, c)
  BY <1>7, <1>8
<1>11. Alike(q, p)
  BY <1>8, <1>9, <1>10 DEF Alike
<1> QED
  BY <1>11 DEF q

(* A position with finitely many pieces can be written: get_sip writes a   *)
(* text that can be read, which names a hex at most once for each colour.  *)
LEMMA WrittenTyped ==
  ASSUME NEW S, S \subseteq Place, NEW p \in PositionOver(S),
         \A c \in PieceColor : IsFiniteSet(Occupied(p, c))
  PROVE  GetSip(p) \in Sips
<1> DEFINE t == GetSip(p)
           letter(h) == PieceLetter(p.piece_arrangement[h].kind)
<1>1. \A c \in PieceColor : \A h \in Occupied(p, c) :
        h \in Place /\ Scalar(h) \in Int /\ CharV2(Scalar(h)) \in Nat /\ letter(h) \in Letter
  <2> SUFFICES ASSUME NEW c \in PieceColor, NEW h \in Occupied(p, c)
               PROVE  h \in Place /\ Scalar(h) \in Int /\ CharV2(Scalar(h)) \in Nat /\ letter(h) \in Letter
    OBVIOUS
  <2>1. h \in Hexes \cup S /\ p.piece_arrangement[h].kind \in PieceKind
    BY PositionsTyped
  <2>2. h \in Place /\ Scalar(h) \in Int
    BY <2>1, ScalarNumbers, PlaceNumbers
  <2> QED
    BY <2>1, <2>2, CharactersApart, LettersRead
<1>2. t.version = 2 /\ t.mover = ColorLetter(p.color_to_move)
      /\ t.parts = [c \in PieceColor |-> {<<CharV2(Scalar(h)), letter(h)>> : h \in Lasting(p, c)}]
      /\ t = [version |-> t.version, mover |-> t.mover, parts |-> t.parts]
  BY DEF GetSip
<1>3. \A c \in PieceColor : Lasting(p, c) \subseteq Occupied(p, c)
  BY DEF Lasting
<1>4. t.mover \in {"w", "b"}
  BY <1>2, LettersRead, PositionsTyped
<1> HIDE DEF t, letter
<1>5. t.parts \in [PieceColor -> SUBSET (Nat \X Letter)]
  BY <1>1, <1>2, <1>3
<1>6. ASSUME NEW c \in PieceColor PROVE IsFiniteSet(t.parts[c])
  <2> DEFINE f == [h \in Lasting(p, c) |-> <<CharV2(Scalar(h)), letter(h)>>]
  <2>1. t.parts[c] \subseteq {f[h] : h \in Lasting(p, c)}
    BY <1>2
  <2>2. IsFiniteSet(Lasting(p, c))
    BY <1>3, FS_Subset
  <2> HIDE DEF f
  <2> QED
    BY <2>1, <2>2, ImageIsFinite
<1>7. ASSUME NEW c \in PieceColor, NEW a \in t.parts[c], NEW b \in t.parts[c],
             ReadHex(t, a[1]) = ReadHex(t, b[1])
      PROVE  a = b
  <2>1. PICK g \in Lasting(p, c) : a = <<CharV2(Scalar(g)), letter(g)>>
    BY <1>2
  <2>2. PICK h \in Lasting(p, c) : b = <<CharV2(Scalar(h)), letter(h)>>
    BY <1>2
  <2>3. /\ g \in Occupied(p, c) /\ h \in Occupied(p, c) /\ g \in Place /\ h \in Place
        /\ Scalar(g) \in Int /\ Scalar(h) \in Int
    BY <1>1, <1>3
  <2>4. FromScalar(ScalarV2(CharV2(Scalar(g)))) = FromScalar(ScalarV2(CharV2(Scalar(h))))
    BY <1>2, <1>7, <2>1, <2>2 DEF ReadHex
  <2>5. ScalarV2(CharV2(Scalar(g))) = ScalarV2(CharV2(Scalar(h)))
    BY <2>3, <2>4, PlaceNumbers, CharactersApart
  <2>6. CharV2(Scalar(g)) = CharV2(Scalar(h))
    BY <2>3, <2>5, CharactersApart
  <2>7. Scalar(g) = Scalar(h)
    BY <2>3, <2>6 DEF Lasting
  <2> QED
    BY <2>1, <2>2, <2>3, <2>7, PlaceNumbers
<1>8. t \in Sips
  BY <1>2, <1>4, <1>5, <1>6, <1>7 DEF Sips
<1> QED
  BY <1>8 DEF t

(* Version 2 is read back as the position if the hexes with pieces have    *)
(* characters of their own.                                                *)
LEMMA SecondVersionRead ==
  ASSUME NEW S, S \subseteq Place, NEW p \in PositionOver(S),
         \A c \in PieceColor : IsFiniteSet(Occupied(p, c)),
         \A c \in PieceColor : \A h \in Occupied(p, c) : Scalar(h) \in 0 .. 68
  PROVE  Alike(PositionFromSip(GetSip(p)), p)
<1> DEFINE t == GetSip(p)
           char == [h \in Hexes \cup S |-> CharV2(Scalar(h))]
<1>1. ASSUME NEW c \in PieceColor, NEW h \in Occupied(p, c)
      PROVE  h \in Place /\ char[h] = CharV2(Scalar(h)) /\ ScalarV2(char[h]) = Scalar(h)
  <2>1. h \in Hexes \cup S
    BY PositionsTyped
  <2> QED
    BY <2>1, ScalarNumbers, CharactersRead
<1> HIDE DEF char
<1>2. ASSUME NEW c \in PieceColor, NEW h \in Occupied(p, c) PROVE h \in Lasting(p, c)
  <2>1. ASSUME NEW g \in Occupied(p, c), CharV2(Scalar(g)) = CharV2(Scalar(h)) PROVE Scalar(g) <= Scalar(h)
    <3>1. Scalar(g) = Scalar(h) /\ Scalar(h) \in Int
      BY <1>1, <2>1
    <3> QED
      BY <3>1
  <2> QED
    BY <2>1 DEF Lasting
<1>3. \A c \in PieceColor : Lasting(p, c) = Occupied(p, c)
  BY <1>2 DEF Lasting
<1>4. \A c \in PieceColor :
        t.parts[c] = {<<char[g], PieceLetter(p.piece_arrangement[g].kind)>> : g \in Occupied(p, c)}
  BY <1>1, <1>3 DEF GetSip
<1>5. t.mover = ColorLetter(p.color_to_move) /\ t.version = 2
  BY DEF GetSip
<1>6. \A c \in PieceColor : \A g \in Occupied(p, c) : ReadHex(t, char[g]) = g
  BY <1>1, <1>5, PlaceNumbers DEF ReadHex
<1>7. t \in Sips
  BY WrittenTyped
<1> HIDE DEF t
<1>8. Alike(PositionFromSip(t), p)
  BY <1>4, <1>5, <1>6, <1>7, TextRead
<1> QED
  BY <1>8 DEF t

(* Version 1 is, of any hexes it can name. *)
LEMMA FirstVersionRead ==
  ASSUME NEW S, S \subseteq Place, NEW p \in PositionOver(S),
         \A c \in PieceColor : IsFiniteSet(Occupied(p, c)),
         \A h \in S : -64 <= Scalar(h)
  PROVE  GetV1Sip(p) \in Sips /\ Alike(PositionFromSip(GetV1Sip(p)), p)
<1> DEFINE t == GetV1Sip(p)
           char == [h \in Hexes \cup S |-> CharV1(Scalar(h))]
           letter(h) == PieceLetter(p.piece_arrangement[h].kind)
<1>1. ASSUME NEW c \in PieceColor, NEW h \in Occupied(p, c)
      PROVE  /\ h \in Place /\ char[h] = CharV1(Scalar(h)) /\ ScalarV1(char[h]) = Scalar(h)
             /\ char[h] \in Nat /\ letter(h) \in Letter
  <2>1. h \in Hexes \cup S /\ p.piece_arrangement[h].kind \in PieceKind
    BY PositionsTyped
  <2>2. h \in Place /\ Scalar(h) \in Int /\ -64 <= Scalar(h)
    BY <2>1, ScalarNumbers, PlaceNumbers DEF BOARD_HEX_COUNT
  <2> QED
    BY <2>1, <2>2, CharactersRead, LettersRead DEF CharV1
<1> HIDE DEF char
<1>2. \A c \in PieceColor : t.parts[c] = {<<char[g], letter(g)>> : g \in Occupied(p, c)}
  BY <1>1 DEF GetV1Sip
<1>3. /\ t.mover = ColorLetter(p.color_to_move) /\ t.version = 1 /\ DOMAIN t.parts = PieceColor
      /\ t = [version |-> t.version, mover |-> t.mover, parts |-> t.parts]
      /\ t.parts = [c \in PieceColor |-> t.parts[c]]
  BY DEF GetV1Sip
<1>4. \A c \in PieceColor : \A g \in Occupied(p, c) : ReadHex(t, char[g]) = g
  BY <1>1, <1>3, PlaceNumbers DEF ReadHex
<1> HIDE DEF t, letter
<1>5. t.parts \in [PieceColor -> SUBSET (Nat \X Letter)] /\ t.mover \in {"w", "b"}
  <2>1. ASSUME NEW c \in PieceColor, NEW pair \in t.parts[c] PROVE pair \in Nat \X Letter
    <3>1. PICK g \in Occupied(p, c) : pair = <<char[g], letter(g)>>
      BY <1>2
    <3>2. char[g] \in Nat /\ letter(g) \in Letter
      BY <1>1
    <3> QED
      BY <3>1, <3>2
  <2>2. t.parts \in [PieceColor -> SUBSET (Nat \X Letter)]
    BY <1>3, <2>1
  <2>3. t.mover \in {"w", "b"}
    BY <1>3, LettersRead, PositionsTyped
  <2> QED
    BY <2>2, <2>3
<1>6. ASSUME NEW c \in PieceColor PROVE IsFiniteSet(t.parts[c])
  <2> DEFINE f == [h \in Occupied(p, c) |-> <<char[h], letter(h)>>]
  <2>1. t.parts[c] \subseteq {f[h] : h \in Occupied(p, c)}
    BY <1>2
  <2> HIDE DEF f
  <2> QED
    BY <2>1, ImageIsFinite
<1>7. ASSUME NEW c \in PieceColor, NEW a \in t.parts[c], NEW b \in t.parts[c],
             ReadHex(t, a[1]) = ReadHex(t, b[1])
      PROVE  a = b
  <2>1. PICK g \in Occupied(p, c) : a = <<char[g], letter(g)>>
    BY <1>2
  <2>2. PICK h \in Occupied(p, c) : b = <<char[h], letter(h)>>
    BY <1>2
  <2> QED
    BY <1>4, <1>7, <2>1, <2>2
<1>8. t \in Sips
  BY <1>3, <1>5, <1>6, <1>7 DEF Sips
<1>9. Alike(PositionFromSip(t), p)
  BY <1>2, <1>3, <1>4, <1>8, TextRead DEF letter
<1> QED
  BY <1>8, <1>9 DEF t

(* On the board there is nothing but the board to read. *)
LEMMA OnBoardRead ==
  ASSUME NEW q \in Position, \A c \in PieceColor : IsFiniteSet(Occupied(q, c))
  PROVE  PositionFromSip(GetSip(q)) = q
<1> DEFINE t == GetSip(q)
           r == PositionFromSip(t)
<1>1. q \in PositionOver({}) /\ {} \subseteq Place
  BY PositionIsOver
<1>2. \A c \in PieceColor : \A h \in Occupied(q, c) :
        h \in Hexes /\ Scalar(h) \in 0 .. 68 /\ ScalarV2(CharV2(Scalar(h))) = Scalar(h) /\ FromScalar(Scalar(h)) = h
  <2> SUFFICES ASSUME NEW c \in PieceColor, NEW h \in Occupied(q, c)
               PROVE  h \in Hexes /\ Scalar(h) \in 0 .. 68 /\ ScalarV2(CharV2(Scalar(h))) = Scalar(h)
                      /\ FromScalar(Scalar(h)) = h
    OBVIOUS
  <2>1. h \in Hexes \cup {}
    BY <1>1, PositionsTyped
  <2>2. h \in Hexes /\ Scalar(h) \in 0 .. 68 /\ FromScalar(Scalar(h)) = h
    BY <2>1, ScalarNumbers DEF BOARD_HEX_COUNT
  <2> QED
    BY <2>2, CharactersRead
<1>3. Alike(r, q) /\ t \in Sips
  BY <1>1, <1>2, SecondVersionRead, WrittenTyped
<1>4. PlacesRead(t) \subseteq Hexes
  <2> SUFFICES ASSUME NEW c \in PieceColor, NEW pair \in t.parts[c] PROVE ReadHex(t, pair[1]) \in Hexes
    BY DEF PlacesRead
  <2>1. PICK h \in Lasting(q, c) : pair[1] = CharV2(Scalar(h))
    BY DEF GetSip
  <2>2. ReadHex(t, pair[1]) = FromScalar(ScalarV2(pair[1]))
    BY DEF ReadHex, GetSip
  <2> QED
    BY <1>2, <2>1, <2>2 DEF Lasting
<1>5. r \in Position
  BY <1>3, <1>4, ReadTyped, PositionIsOver
<1> HIDE DEF t, r
<1>6. r \in PositionOver({})
  BY <1>5, PositionIsOver
<1>7. ASSUME NEW h \in Hexes PROVE r.piece_arrangement[h] = q.piece_arrangement[h]
  <2>1. CASE \E c \in PieceColor : h \in Occupied(q, c)
    BY <1>3, <2>1 DEF Alike
  <2>2. CASE \A c \in PieceColor : h \notin Occupied(q, c)
    <3>1. h \notin Occupied(q, "white") \cup Occupied(q, "black")
          /\ h \notin Occupied(r, "white") \cup Occupied(r, "black")
      BY <1>3, <2>2 DEF Alike, PieceColor
    <3>2. r.piece_arrangement[h] = Empty
      BY <1>6, <3>1, PositionsTyped
    <3>3. q.piece_arrangement[h] = Empty
      BY <1>1, <3>1, PositionsTyped
    <3> QED
      BY <3>2, <3>3
  <2> QED
    BY <2>1, <2>2
<1>8. r.piece_arrangement = q.piece_arrangement /\ r.color_to_move = q.color_to_move
  BY <1>3, <1>5, <1>7 DEF Alike, Position, Arrangement
<1>9. r = q
  BY <1>5, <1>8 DEF Position
<1> QED
  BY <1>9 DEF r, t

(* What is read back from version 2 are pieces that were written, whatever *)
(* hexes they are read on.                                                 *)
LEMMA NothingIsAdded ==
  ASSUME NEW S, S \subseteq Place, NEW q \in PositionOver(S),
         \A c \in PieceColor : IsFiniteSet(Occupied(q, c)), NEW c \in PieceColor
  PROVE  Cardinality(Occupied(PositionFromSip(GetSip(q)), c)) <= Cardinality(Occupied(q, c))
<1> DEFINE t == GetSip(q)
           f == [h \in Occupied(q, c) |-> ReadHex(t, CharV2(Scalar(h)))]
<1>1. t \in Sips
  BY WrittenTyped
<1>2. \A pair \in t.parts[c] : \E h \in Occupied(q, c) : pair[1] = CharV2(Scalar(h))
  BY DEF GetSip, Lasting
<1>3. \A h \in Occupied(PositionFromSip(t), c) : \E pair \in t.parts[c] : ReadHex(t, pair[1]) = h
  BY <1>1, ReadTyped
<1> HIDE DEF t
<1>4. Occupied(PositionFromSip(t), c) \subseteq {f[h] : h \in Occupied(q, c)}
  BY <1>2, <1>3
<1> HIDE DEF f
<1>5. Cardinality(Occupied(PositionFromSip(t), c)) <= Cardinality(Occupied(q, c))
  BY <1>4, ImageIsFinite
<1> QED
  BY <1>5 DEF t

-----------------------------------------------------------------------------
(* A ply is of one of the mover's pieces, to a hex of the board. *)
LEMMA PlyTyped ==
  ASSUME NEW p, NEW ply \in PlysOf(p)
  PROVE  /\ ply.departure \in Occupied(p, p.color_to_move) /\ ply.destination \in Hexes
         /\ ply.morph_into \in MorphInto
         /\ ply = Ply(ply.departure, ply.destination, ply.morph_into)
BY DEF PlysOf, Ply

(* It turns a position into a position and leaves no more of either colour. *)
LEMMA PerformTyped ==
  ASSUME NEW S, NEW p \in PositionOver(S), NEW ply \in PlysOf(p),
         \A c \in PieceColor : IsFiniteSet(Occupied(p, c))
  PROVE  /\ PerformPly(p, ply) \in PositionOver(S)
         /\ \A c \in PieceColor :
              /\ IsFiniteSet(Occupied(PerformPly(p, ply), c))
              /\ Cardinality(Occupied(PerformPly(p, ply), c)) <= Cardinality(Occupied(p, c))
<1> DEFINE g == ply.departure
           h == ply.destination
           m == p.color_to_move
           q == PerformPly(p, ply)
           put == IF DerivedKind(p, ply) = "swap" \/ ply.morph_into = "none" THEN Moving(p, ply)
                  ELSE Piece(ply.morph_into, Moving(p, ply).color)
           left == IF DerivedKind(p, ply) = "swap" THEN Target(p, ply) ELSE Empty
<1>1. /\ p.piece_arrangement \in [Hexes \cup S -> Pieces \cup {Empty}] /\ Known(p) = Hexes \cup S
      /\ m \in PieceColor
  BY PositionsTyped
<1>2. g \in Occupied(p, m) /\ g \in Hexes \cup S /\ h \in Hexes \cup S /\ ply.morph_into \in MorphInto
  BY <1>1, PlyTyped, PositionsTyped DEF Occupied
<1>3. /\ Moving(p, ply) \in Pieces /\ Moving(p, ply).color = m
      /\ Target(p, ply) \in Pieces \cup {Empty}
      /\ Moving(p, ply) = p.piece_arrangement[g] /\ Target(p, ply) = p.piece_arrangement[h]
  BY <1>1, <1>2 DEF Occupied, Moving, Target, Empty, Piece, PieceColor
<1>4. put \in Pieces /\ put.color = m
  BY <1>1, <1>2, <1>3 DEF MorphInto, Piece, Pieces
<1>5. left \in Pieces \cup {Empty}
  BY <1>3
<1>6. /\ DerivedKind(p, ply) = "swap" => left.color = m /\ Target(p, ply).color = m
      /\ DerivedKind(p, ply) # "swap" => left = Empty /\ Target(p, ply).color # m
  BY <1>1, <1>3 DEF DerivedKind, Empty, Piece, PieceColor
<1>7. q = [piece_arrangement |-> [p.piece_arrangement EXCEPT ![g] = left, ![h] = put],
           color_to_move |-> Opposite(m)]
  BY DEF PerformPly
<1>8. Opposite(m) \in PieceColor
  BY DEF Opposite, PieceColor
<1> HIDE DEF put, left
<1>9. q \in PositionOver(S)
  <2>1. [p.piece_arrangement EXCEPT ![g] = left, ![h] = put] \in [Hexes \cup S -> Pieces \cup {Empty}]
    BY <1>1, <1>2, <1>4, <1>5
  <2> QED
    BY <1>7, <1>8, <2>1 DEF PositionOver
<1>10. /\ Known(q) = Hexes \cup S /\ q.piece_arrangement[h] = put
       /\ g # h => q.piece_arrangement[g] = left
       /\ \A x \in Hexes \cup S : x # g /\ x # h => q.piece_arrangement[x] = p.piece_arrangement[x]
  BY <1>1, <1>2, <1>7 DEF Known
<1> HIDE DEF q
<1>11. ASSUME NEW c \in PieceColor
       PROVE  IsFiniteSet(Occupied(q, c)) /\ Cardinality(Occupied(q, c)) <= Cardinality(Occupied(p, c))
  <2>1. CASE DerivedKind(p, ply) = "swap" \/ c # m
    <3>1. Occupied(q, c) \subseteq Occupied(p, c)
      <4>1. ASSUME NEW x \in Occupied(q, c) PROVE x \in Occupied(p, c)
        <5>1. x \in Hexes \cup S /\ q.piece_arrangement[x].color = c
          BY <1>10 DEF Occupied
        <5>2. CASE x # g /\ x # h
          BY <1>1, <1>10, <5>1, <5>2 DEF Occupied
        <5>3. CASE x = h
          BY <1>1, <1>3, <1>4, <1>6, <1>10, <2>1, <5>1, <5>3 DEF Occupied
        <5>4. CASE x = g /\ g # h
          <6>1. left.color = c
            BY <1>10, <5>1, <5>4
          <6>2. c = m
            BY <1>6, <2>1, <6>1 DEF Empty, Piece, PieceColor
          <6> QED
            BY <1>2, <5>4, <6>2
        <5> QED
          BY <5>2, <5>3, <5>4
      <4> QED
        BY <4>1
    <3> QED
      BY <3>1, FS_Subset
  <2>2. CASE DerivedKind(p, ply) # "swap" /\ c = m
    <3>1. h \notin Occupied(p, c) /\ g # h
      BY <1>2, <1>3, <1>6, <2>2 DEF Occupied
    <3>2. Occupied(q, c) \subseteq (Occupied(p, c) \ {g}) \cup {h}
      <4>1. ASSUME NEW x \in Occupied(q, c), x # h PROVE x \in Occupied(p, c) /\ x # g
        <5>1. x \in Hexes \cup S /\ q.piece_arrangement[x].color = c
          BY <1>10 DEF Occupied
        <5>2. x # g
          BY <1>6, <1>10, <2>2, <3>1, <5>1 DEF Empty, Piece, PieceColor
        <5> QED
          BY <1>1, <1>10, <4>1, <5>1, <5>2 DEF Occupied
      <4> QED
        BY <4>1
    <3>3. /\ IsFiniteSet(Occupied(p, c)) /\ g \in Occupied(p, c)
          /\ Cardinality(Occupied(p, c)) \in Nat
      BY <1>2, <2>2, FS_CardinalityType
    <3>4. IsFiniteSet(Occupied(p, c) \ {g})
          /\ Cardinality(Occupied(p, c) \ {g}) = Cardinality(Occupied(p, c)) - 1
      BY <3>3, FS_RemoveElement
    <3>5. h \notin Occupied(p, c) \ {g}
      BY <3>1
    <3>6. /\ IsFiniteSet((Occupied(p, c) \ {g}) \cup {h})
          /\ Cardinality((Occupied(p, c) \ {g}) \cup {h}) = Cardinality(Occupied(p, c) \ {g}) + 1
      BY <3>4, <3>5, FS_AddElement
    <3>7. /\ IsFiniteSet(Occupied(q, c))
          /\ Cardinality(Occupied(q, c)) <= Cardinality((Occupied(p, c) \ {g}) \cup {h})
      BY <3>2, <3>6, FS_Subset
    <3> QED
      BY <3>3, <3>4, <3>6, <3>7
  <2> QED
    BY <2>1, <2>2
<1> QED
  BY <1>9, <1>11 DEF q

-----------------------------------------------------------------------------
(* What is read from the stored text, and what a step does. *)
LEMMA CurrentTyped ==
  ASSUME sip \in Sips
  PROVE  /\ CurrentPosition \in PositionOver(PlacesRead(sip)) /\ PlacesRead(sip) \subseteq Place
         /\ \A h \in PlacesRead(sip) : -64 <= Scalar(h)
         /\ \A c \in PieceColor : IsFiniteSet(Occupied(CurrentPosition, c))
BY ReadTyped DEF CurrentPosition

LEMMA StepIs ==
  ASSUME Next
  PROVE  \E ply \in PlysOf(CurrentPosition) :
           /\ ply_count < MaxPlys /\ ply_count' = ply_count + 1
           /\ IsPlyPossible(CurrentPosition, ply)
           /\ sip' = GetSip(PerformPly(CurrentPosition, ply))
BY DEF Next, AppendPly, CurrentPosition

LEMMA NextInv == TypeOK /\ [Next]_vars => TypeOK'
<1> SUFFICES ASSUME TypeOK, [Next]_vars PROVE TypeOK'
  OBVIOUS
<1>1. CASE Next
  <2>1. PICK ply \in PlysOf(CurrentPosition) :
          /\ ply_count < MaxPlys /\ ply_count' = ply_count + 1
          /\ sip' = GetSip(PerformPly(CurrentPosition, ply))
    BY <1>1, StepIs
  <2>2. /\ PerformPly(CurrentPosition, ply) \in PositionOver(PlacesRead(sip))
        /\ PlacesRead(sip) \subseteq Place
        /\ \A c \in PieceColor : IsFiniteSet(Occupied(PerformPly(CurrentPosition, ply), c))
    BY CurrentTyped, PerformTyped DEF TypeOK
  <2>3. sip' \in Sips
    BY <2>1, <2>2, WrittenTyped
  <2> QED
    BY <2>1, <2>3, StartAssumption DEF TypeOK
<1>2. CASE UNCHANGED vars
  BY <1>2 DEF vars, TypeOK
<1> QED
  BY <1>1, <1>2

(* append_ply_sink, from whatever texts games are started from: what it     *)
(* stores can be read, and names a hex at most once for each colour.        *)
THEOREM PlayTypeCorrect == Spec => []TypeOK
<1>1. Init => TypeOK
  BY StartAssumption DEF Init, TypeOK
<1> QED
  BY <1>1, NextInv, PTL DEF Spec

(* position_from_sip reads back what get_v1_sip writes for every position a *)
(* game reaches, and what get_sip writes for those within its characters.   *)
THEOREM TextAlwaysThePosition == Spec => []TextIsThePosition
<1>1. TypeOK => TextIsThePosition
  <2> SUFFICES ASSUME sip \in Sips PROVE TextIsThePosition
    BY DEF TypeOK
  <2> DEFINE p == CurrentPosition
  <2>1. /\ p \in PositionOver(PlacesRead(sip)) /\ PlacesRead(sip) \subseteq Place
        /\ \A h \in PlacesRead(sip) : -64 <= Scalar(h)
        /\ \A c \in PieceColor : IsFiniteSet(Occupied(p, c))
    BY CurrentTyped
  <2> HIDE DEF p
  <2>2. GetV1Sip(p) \in Sips /\ Alike(PositionFromSip(GetV1Sip(p)), p)
    BY <2>1, FirstVersionRead
  <2>3. GetSip(p) \in Sips
    BY <2>1, WrittenTyped
  <2>4. (\A c \in PieceColor : \A h \in Occupied(p, c) : Scalar(h) \in 0 .. 68) =>
          Alike(PositionFromSip(GetSip(p)), p)
    BY <2>1, SecondVersionRead
  <2> QED
    BY <2>2, <2>3, <2>4 DEF TextIsThePosition, p
<1> QED
  BY <1>1, PlayTypeCorrect, PTL

(* append_ply_sink with get_sip and position_from_sip: however many plys    *)
(* are played, from whatever text, a colour never has more pieces than it   *)
(* had.                                                                     *)
THEOREM NoPieceIsEverGained == Spec => NoPieceIsGained
<1>1. TypeOK /\ [Next]_vars => [\A c \in PieceColor : PieceCount(c)' <= PieceCount(c)]_vars
  <2> SUFFICES ASSUME TypeOK, Next, NEW c \in PieceColor PROVE PieceCount(c)' <= PieceCount(c)
    OBVIOUS
  <2>1. PICK ply \in PlysOf(CurrentPosition) : sip' = GetSip(PerformPly(CurrentPosition, ply))
    BY StepIs
  <2> DEFINE q == PerformPly(CurrentPosition, ply)
  <2>2. /\ q \in PositionOver(PlacesRead(sip)) /\ PlacesRead(sip) \subseteq Place
        /\ \A d \in PieceColor : IsFiniteSet(Occupied(q, d))
        /\ Cardinality(Occupied(q, c)) <= PieceCount(c)
    BY CurrentTyped, PerformTyped DEF TypeOK, PieceCount
  <2>3. CurrentPosition' = PositionFromSip(GetSip(q))
    BY <2>1 DEF CurrentPosition
  <2> HIDE DEF q
  <2>4. PieceCount(c)' <= Cardinality(Occupied(q, c))
    BY <2>2, <2>3, NothingIsAdded DEF PieceCount
  <2>5. IsFiniteSet(Occupied(CurrentPosition, c)) /\ IsFiniteSet(Occupied(CurrentPosition, c)')
    <3>1. TypeOK'
      BY NextInv
    <3> QED
      BY <3>1, ReadTyped DEF TypeOK, CurrentPosition
  <2>6. PieceCount(c) \in Nat /\ PieceCount(c)' \in Nat /\ Cardinality(Occupied(q, c)) \in Nat
    BY <2>2, <2>5, FS_CardinalityType DEF PieceCount
  <2> QED
    BY <2>2, <2>4, <2>6
<1> QED
  BY <1>1, PlayTypeCorrect, PTL DEF Spec, NoPieceIsGained

-----------------------------------------------------------------------------
(* What get_finality_group says of a position that is not final. *)
LEMMA NonFinal ==
  ASSUME NEW p, GetFinalityGroup(p) = "valid_non_final", NEW c \in PieceColor
  PROVE  \E k \in Known(p) : Intellectors(p, c) = {k} /\ ~IsFinalRowFor(k, c)
<1> DEFINE at == [d \in PieceColor |-> Intellectors(p, d)]
           found == {d \in PieceColor : at[d] # {}}
           broken == {d \in PieceColor : \E h \in at[d] : IsFinalRowFor(h, d)}
           doubled == \E d \in PieceColor : \E g, h \in at[d] : g # h
<1>1. ~doubled /\ found = PieceColor /\ broken = {}
  BY DEF GetFinalityGroup
<1>2. PICK k : k \in Intellectors(p, c)
  BY <1>1
<1>3. \A h \in Intellectors(p, c) : h = k
  BY <1>1, <1>2
<1>4. ~IsFinalRowFor(k, c)
  BY <1>1, <1>2
<1> QED
  BY <1>2, <1>3, <1>4 DEF Intellectors

(* What it says of one where one colour has one intellector, the other at  *)
(* most one, which is not on its final row.                                *)
LEMMA FinalityOf ==
  ASSUME NEW q, NEW c \in PieceColor, NEW a, NEW b,
         Intellectors(q, c) = {a}, Intellectors(q, Opposite(c)) \subseteq {b},
         ~IsFinalRowFor(b, Opposite(c)),
         Intellectors(q, Opposite(c)) = {} => ~IsFinalRowFor(a, c)
  PROVE  /\ GetFinalityGroup(q) # "invalid"
         /\ GetFinalityGroup(q) = "fatum" => Intellectors(q, Opposite(c)) = {}
         /\ GetFinalityGroup(q) = "breakthrough" => IsFinalRowFor(a, c)
<1> DEFINE at == [d \in PieceColor |-> Intellectors(q, d)]
           found == {d \in PieceColor : at[d] # {}}
           broken == {d \in PieceColor : \E h \in at[d] : IsFinalRowFor(h, d)}
           doubled == \E d \in PieceColor : \E g, h \in at[d] : g # h
<1>1. Opposite(c) \in PieceColor /\ Opposite(c) # c /\ PieceColor = {c, Opposite(c)}
  BY DEF PieceColor, Opposite
<1>2. at[c] = {a} /\ at[Opposite(c)] = Intellectors(q, Opposite(c))
  BY <1>1
<1>3. ~doubled /\ c \in found
  BY <1>1, <1>2
<1>4. broken = IF IsFinalRowFor(a, c) THEN {c} ELSE {}
  BY <1>1, <1>2
<1>5. found = PieceColor <=> Intellectors(q, Opposite(c)) # {}
  BY <1>1, <1>2
<1>6. GetFinalityGroup(q) =
        IF doubled \/ broken = PieceColor \/ found = {} THEN "invalid"
        ELSE IF found = PieceColor
          THEN IF broken = {} THEN "valid_non_final" ELSE "breakthrough"
          ELSE IF broken = {} THEN "fatum" ELSE "invalid"
  BY DEF GetFinalityGroup
<1> HIDE DEF at, found, broken, doubled
<1>7. broken # PieceColor /\ found # {}
  BY <1>1, <1>3, <1>4
<1> QED
  BY <1>3, <1>4, <1>5, <1>6, <1>7

(* No ply but the quiet morph of a liberator makes an intellector, unless  *)
(* it is a swap, where the kind asked for is not looked at.                *)
LEMMA MovingIsAPiece ==
  ASSUME NEW S, NEW p \in PositionOver(S), NEW ply \in PlysOf(p), IsPlyPossible(p, ply)
  PROVE  Moving(p, ply) \in Pieces /\ Moving(p, ply).color = p.color_to_move
<1>1. ply.departure \in Occupied(p, p.color_to_move) /\ p.color_to_move \in PieceColor
  BY PlyTyped, PositionsTyped
<1>2. \A c \in PieceColor : \A h \in Occupied(p, c) :
        /\ h \in Hexes \cup S
        /\ p.piece_arrangement[h] = Piece(p.piece_arrangement[h].kind, c)
        /\ p.piece_arrangement[h].kind \in PieceKind
  BY PositionsTyped
<1>3. Moving(p, ply) = Piece(Moving(p, ply).kind, p.color_to_move) /\ Moving(p, ply).kind \in PieceKind
  BY <1>1, <1>2 DEF Moving
<1> QED
  BY <1>1, <1>3 DEF Pieces, Piece

LEMMA NoNewIntellector ==
  ASSUME NEW S, NEW p \in PositionOver(S), NEW ply \in PlysOf(p), IsPlyPossible(p, ply), ~QuietMorph(p, ply),
         DerivedKind(p, ply) # "swap"
  PROVE  /\ ply.morph_into # "intellector"
         /\ Moving(p, ply).kind = "intellector" => ply.morph_into = "none" /\ Target(p, ply) = Empty
<1>1. Validate(p, ply, FALSE) /\ Moving(p, ply).kind \in PieceKind
  BY MovingIsAPiece DEF IsPlyPossible, Pieces
<1>2. ASSUME NEW aura \in BOOLEAN, CaptureOrNormal(p, ply, aura) PROVE ply.morph_into # "intellector"
  BY <1>2 DEF CaptureOrNormal
<1>3. CASE Moving(p, ply).kind = "progressor"
  BY <1>1, <1>2, <1>3 DEF Validate, ValidateProgressor, Promotion
<1>4. CASE Moving(p, ply).kind = "defensor"
  BY <1>1, <1>2, <1>4 DEF Validate, ValidateDefensor
<1>5. CASE Moving(p, ply).kind = "intellector"
  <2>1. ValidateIntellector(p, ply)
    BY <1>1, <1>5 DEF Validate
  <2>2. Target(p, ply) = Empty
    BY <2>1 DEF ValidateIntellector, DerivedKind, Piece
  <2> QED
    BY <2>1, <2>2 DEF ValidateIntellector
<1>6. CASE Moving(p, ply).kind = "liberator"
  <2>1. CASE IsJump(ply)
    BY <1>1, <1>2, <1>6, <2>1 DEF Validate, ValidateLiberator
  <2>2. CASE ~IsJump(ply)
    BY <1>6, <2>2 DEF QuietMorph
  <2> QED
    BY <1>6, <2>1, <2>2
<1>7. CASE Moving(p, ply).kind = "aggressor"
  BY <1>1, <1>2, <1>7 DEF Validate, ValidateAggressor
<1>8. CASE Moving(p, ply).kind = "dominator"
  BY <1>1, <1>2, <1>8 DEF Validate, ValidateDominator
<1> QED
  BY <1>1, <1>3, <1>4, <1>5, <1>6, <1>7, <1>8 DEF PieceKind

(* The intellectors after a ply that is not a swap: one of the mover's, and *)
(* the other's unless it was taken, which the mover's intellector never     *)
(* does.                                                                    *)
LEMMA IntellectorsAfterMove ==
  ASSUME NEW S, NEW p \in PositionOver(S), NEW ply \in PlysOf(p), IsPlyPossible(p, ply), ~QuietMorph(p, ply),
         DerivedKind(p, ply) # "swap", NEW c, c = p.color_to_move,
         NEW k \in Known(p), Intellectors(p, c) = {k},
         NEW b \in Known(p), Intellectors(p, Opposite(c)) = {b}
  PROVE  \E a \in Known(p) : /\ Intellectors(PerformPly(p, ply), c) = {a}
                             /\ Intellectors(PerformPly(p, ply), Opposite(c)) \subseteq {b}
                             /\ Intellectors(PerformPly(p, ply), Opposite(c)) = {} => a = k
<1> DEFINE q == PerformPly(p, ply)
           g == ply.departure
           h == ply.destination
           put == IF ply.morph_into = "none" THEN Moving(p, ply) ELSE Piece(ply.morph_into, c)
<1>1. /\ g \in Hexes \cup S /\ h \in Hexes \cup S /\ Known(p) = Hexes \cup S /\ Known(q) = Hexes \cup S
      /\ p.piece_arrangement \in [Hexes \cup S -> Pieces \cup {Empty}]
      /\ c \in PieceColor /\ Opposite(c) \in PieceColor /\ Opposite(c) # c
  BY PlyTyped, PositionsTyped DEF PieceColor, Opposite, Occupied, PerformPly, Known
<1>2. Moving(p, ply) \in Pieces /\ Moving(p, ply).color = c
  BY MovingIsAPiece
<1>3. Target(p, ply) \in Pieces \cup {Empty} /\ Target(p, ply).color # c
  BY <1>1, <1>2 DEF Target, DerivedKind, Empty, Piece, PieceColor
<1>4. g # h
  BY <1>2, <1>3 DEF Moving, Target
<1>5. /\ q.piece_arrangement[g] = Empty /\ q.piece_arrangement[h] = put
      /\ \A x \in (Hexes \cup S) \ {g, h} : q.piece_arrangement[x] = p.piece_arrangement[x]
  BY <1>1, <1>2, <1>4 DEF PerformPly
<1>6. ply.morph_into # "intellector"
      /\ (Moving(p, ply).kind = "intellector" => ply.morph_into = "none" /\ Target(p, ply) = Empty)
  BY NoNewIntellector
<1>7. put.color = c /\ (put = Piece("intellector", c) <=> Moving(p, ply) = Piece("intellector", c))
  BY <1>2, <1>6 DEF Piece, Pieces
<1>8. Empty # Piece("intellector", c) /\ Empty # Piece("intellector", Opposite(c))
      /\ put # Piece("intellector", Opposite(c))
  BY <1>1, <1>7 DEF Empty, Piece
<1> HIDE DEF q, put
<1>9. Intellectors(q, Opposite(c)) = {b} \ {h}
  <2>1. g # b
    BY <1>1, <1>2 DEF Intellectors, Moving, Piece
  <2>2. \A x \in Hexes \cup S : x \in Intellectors(q, Opposite(c)) <=> x = b /\ x # h
    BY <1>1, <1>4, <1>5, <1>8, <2>1 DEF Intellectors
  <2> QED
    BY <1>1, <2>2 DEF Intellectors
<1>10. CASE Moving(p, ply) = Piece("intellector", c)
  <2>1. g = k
    BY <1>1, <1>10 DEF Intellectors, Moving
  <2>2. \A x \in Hexes \cup S : x \in Intellectors(q, c) <=> x = h
    BY <1>1, <1>4, <1>5, <1>7, <1>8, <1>10, <2>1 DEF Intellectors
  <2>3. Intellectors(q, c) = {h}
    BY <1>1, <2>2 DEF Intellectors
  <2>4. h # b
    BY <1>1, <1>6, <1>8, <1>10 DEF Intellectors, Target, Piece
  <2> QED
    BY <1>1, <1>9, <2>3, <2>4 DEF q
<1>11. CASE Moving(p, ply) # Piece("intellector", c)
  <2>1. g # k /\ h # k
    BY <1>1, <1>3, <1>11 DEF Intellectors, Moving, Target, Piece
  <2>2. \A x \in Hexes \cup S : x \in Intellectors(q, c) <=> x = k
    BY <1>1, <1>4, <1>5, <1>7, <1>8, <1>11, <2>1 DEF Intellectors
  <2>3. Intellectors(q, c) = {k}
    BY <1>1, <2>2 DEF Intellectors
  <2> QED
    BY <1>9, <2>3 DEF q
<1> QED
  BY <1>10, <1>11

(* The intellectors after a swap: the mover's may have changed its hex. *)
LEMMA IntellectorsAfterSwap ==
  ASSUME NEW S, NEW p \in PositionOver(S), NEW ply \in PlysOf(p), IsPlyPossible(p, ply),
         DerivedKind(p, ply) = "swap", NEW c, c = p.color_to_move,
         NEW k \in Known(p), Intellectors(p, c) = {k},
         NEW b \in Known(p), Intellectors(p, Opposite(c)) = {b}
  PROVE  \E a \in Known(p) : /\ Intellectors(PerformPly(p, ply), c) = {a}
                             /\ Intellectors(PerformPly(p, ply), Opposite(c)) = {b}
<1> DEFINE q == PerformPly(p, ply)
           g == ply.departure
           h == ply.destination
<1>1. /\ g \in Hexes \cup S /\ h \in Hexes \cup S /\ Known(p) = Hexes \cup S /\ Known(q) = Hexes \cup S
      /\ p.piece_arrangement \in [Hexes \cup S -> Pieces \cup {Empty}]
      /\ c \in PieceColor /\ Opposite(c) \in PieceColor /\ Opposite(c) # c
  BY PlyTyped, PositionsTyped DEF PieceColor, Opposite, Occupied, PerformPly, Known
<1>2. Moving(p, ply).color = c /\ Target(p, ply).color = c
  BY MovingIsAPiece DEF DerivedKind
<1>3. /\ q.piece_arrangement[g] = p.piece_arrangement[h] /\ q.piece_arrangement[h] = p.piece_arrangement[g]
      /\ \A x \in (Hexes \cup S) \ {g, h} : q.piece_arrangement[x] = p.piece_arrangement[x]
  BY <1>1 DEF PerformPly, Moving, Target
<1> HIDE DEF q
<1>4. Intellectors(q, Opposite(c)) = {b}
  <2>1. g # b /\ h # b
    BY <1>1, <1>2 DEF Intellectors, Moving, Target, Piece
  <2>2. \A x \in Hexes \cup S : x \in Intellectors(q, Opposite(c)) <=> x = b
    BY <1>1, <1>2, <1>3, <2>1 DEF Intellectors, Moving, Target, Piece
  <2> QED
    BY <1>1, <2>2 DEF Intellectors
<1>5. \E a \in Known(p) : Intellectors(q, c) = {a}
  <2>1. CASE k = g
    <3>1. \A x \in Hexes \cup S : x \in Intellectors(q, c) <=> x = h
      BY <1>1, <1>3, <2>1 DEF Intellectors
    <3> QED
      BY <1>1, <3>1 DEF Intellectors
  <2>2. CASE k = h
    <3>1. \A x \in Hexes \cup S : x \in Intellectors(q, c) <=> x = g
      BY <1>1, <1>3, <2>2 DEF Intellectors
    <3>2. Intellectors(q, c) = {g}
      BY <1>1, <3>1 DEF Intellectors
    <3> QED
      BY <1>1, <3>2
  <2>3. CASE k # g /\ k # h
    <3>1. \A x \in Hexes \cup S : x \in Intellectors(q, c) <=> x = k
      BY <1>1, <1>3, <2>3 DEF Intellectors
    <3> QED
      BY <1>1, <3>1 DEF Intellectors
  <2> QED
    BY <2>1, <2>2, <2>3
<1> QED
  BY <1>4, <1>5 DEF q

(* What follows for the outcome, whatever the intellectors were before.    *)
LEMMA MoversOutcome ==
  ASSUME NEW q, NEW c \in PieceColor, NEW k, NEW b, NEW places,
         ~IsFinalRowFor(k, c), ~IsFinalRowFor(b, Opposite(c)),
         \E a \in places : /\ Intellectors(q, c) = {a}
                           /\ Intellectors(q, Opposite(c)) \subseteq {b}
                           /\ Intellectors(q, Opposite(c)) = {} => a = k
  PROVE  /\ GetFinalityGroup(q) # "invalid"
         /\ GetFinalityGroup(q) = "fatum" => Intellectors(q, Opposite(c)) = {}
         /\ GetFinalityGroup(q) = "breakthrough" =>
              \E h \in Intellectors(q, c) : IsFinalRowFor(h, c)
<1>1. PICK a \in places : /\ Intellectors(q, c) = {a}
                          /\ Intellectors(q, Opposite(c)) \subseteq {b}
                          /\ Intellectors(q, Opposite(c)) = {} => a = k
  OBVIOUS
<1>2. Intellectors(q, Opposite(c)) = {} => ~IsFinalRowFor(a, c)
  BY <1>1
<1>3. /\ GetFinalityGroup(q) # "invalid"
      /\ GetFinalityGroup(q) = "fatum" => Intellectors(q, Opposite(c)) = {}
      /\ GetFinalityGroup(q) = "breakthrough" => IsFinalRowFor(a, c)
  BY <1>1, <1>2, FinalityOf
<1>4. a \in Intellectors(q, c)
  BY <1>1
<1> QED
  BY <1>3, <1>4

(* _get_simple_outcome: from every position that is not final, a ply that   *)
(* is not the quiet morph of a liberator leads to no invalid position, and  *)
(* to a fatum or a breakthrough only of the mover.                          *)
LEMMA OutcomeOfPly ==
  ASSUME NEW S, NEW p \in PositionOver(S), GetFinalityGroup(p) = "valid_non_final",
         NEW ply \in PlysOf(p), IsPlyPossible(p, ply), ~QuietMorph(p, ply)
  PROVE  LET q == PerformPly(p, ply)
             mover == p.color_to_move
         IN /\ GetFinalityGroup(q) # "invalid"
            /\ GetFinalityGroup(q) = "fatum" => Intellectors(q, Opposite(mover)) = {}
            /\ GetFinalityGroup(q) = "breakthrough" =>
                 \E h \in Intellectors(q, mover) : IsFinalRowFor(h, mover)
<1> SUFFICES ASSUME NEW q, q = PerformPly(p, ply), NEW c, c = p.color_to_move
             PROVE  /\ GetFinalityGroup(q) # "invalid"
                    /\ GetFinalityGroup(q) = "fatum" => Intellectors(q, Opposite(c)) = {}
                    /\ GetFinalityGroup(q) = "breakthrough" =>
                         \E h \in Intellectors(q, c) : IsFinalRowFor(h, c)
  OBVIOUS
<1>1. c \in PieceColor /\ Opposite(c) \in PieceColor
  BY PositionsTyped DEF PieceColor, Opposite
<1>2. PICK k \in Known(p) : Intellectors(p, c) = {k} /\ ~IsFinalRowFor(k, c)
  BY <1>1, NonFinal
<1>3. PICK b \in Known(p) : Intellectors(p, Opposite(c)) = {b} /\ ~IsFinalRowFor(b, Opposite(c))
  BY <1>1, NonFinal
<1>4. \E a \in Known(p) : /\ Intellectors(q, c) = {a}
                          /\ Intellectors(q, Opposite(c)) \subseteq {b}
                          /\ Intellectors(q, Opposite(c)) = {} => a = k
  <2>1. CASE DerivedKind(p, ply) = "swap"
    BY <1>2, <1>3, <2>1, IntellectorsAfterSwap
  <2>2. CASE DerivedKind(p, ply) # "swap"
    BY <1>2, <1>3, <2>2, IntellectorsAfterMove
  <2> QED
    BY <2>1, <2>2
<1> QED
  BY <1>1, <1>2, <1>3, <1>4, MoversOutcome

(* _get_simple_outcome, for every game: the winner it names is the mover.  *)
THEOREM OutcomeAlwaysTheMovers == Spec => []OutcomeIsTheMovers
<1>1. TypeOK => OutcomeIsTheMovers
  <2> SUFFICES ASSUME sip \in Sips PROVE OutcomeIsTheMovers
    BY DEF TypeOK
  <2> DEFINE p == CurrentPosition
  <2>1. p \in PositionOver(PlacesRead(sip))
    BY CurrentTyped
  <2>2. \A ply \in PossiblePlys(p) : ply \in PlysOf(p) /\ IsPlyPossible(p, ply)
    BY DEF PossiblePlys
  <2> HIDE DEF p
  <2> QED
    BY <2>1, <2>2, OutcomeOfPly DEF OutcomeIsTheMovers, IsValidStarting, p
<1> QED
  BY <1>1, PlayTypeCorrect, PTL

-----------------------------------------------------------------------------
(* The geometry of the board.  A hex is known by its column and twice its   *)
(* height, and the hex some steps away by the vector to it.                 *)

(* The movement rules speak of the same board and pieces. *)
LEMMA SameBoard ==
  /\ M!Hexes = Hexes /\ M!Direction = Direction
  /\ \A h : M!IsValid(h) <=> IsValid(h)
  /\ \A c : M!ColorSign(c) = ColorSign(c) /\ M!Opposite(c) = Opposite(c)
  /\ \A i, j : M!Hex(i, j) = Hex(i, j)
  /\ M!Lateral = Lateral /\ M!Radial = Radial /\ M!ForwardLateral = ForwardLateral
  /\ \A h, c : M!IsFinalRowFor(h, c) <=> IsFinalRowFor(h, c)
BY DEF M!Hexes, Hexes, M!IsValid, IsValid, M!ColorSign, ColorSign, M!Opposite, Opposite, M!Hex, Hex,
       M!Lateral, Lateral, M!Radial, Radial, M!ForwardLateral, ForwardLateral, M!BackwardLateral,
       BackwardLateral, M!IsFinalRowFor, IsFinalRowFor, M!Scalar, Scalar, M!BOARD_HEX_COUNT,
       BOARD_HEX_COUNT, M!Direction, Direction

LEMMA SamePieces ==
  /\ M!Empty = Empty /\ M!PieceKind = PieceKind /\ M!Promotion = Promotion /\ M!PieceColor = PieceColor
  /\ \A kind, c : M!Piece(kind, c) = Piece(kind, c)
  /\ \A g, h, m : M!Ply(g, h, m) = Ply(g, h, m)
  /\ \A p, h : M!Free(p, h) <=> Free(p, h)
  /\ \A p, c : M!Intellectors(p, c) = Intellectors(p, c)
  /\ \A p, ply : M!Moving(p, ply) = Moving(p, ply) /\ M!Target(p, ply) = Target(p, ply)
  /\ \A ply : M!IsJump(ply) <=> IsJump(ply)
BY DEF M!Hexes, Hexes, M!IsValid, IsValid, M!Empty, Empty, M!PieceKind, PieceKind, M!Promotion,
       Promotion, M!PieceColor, PieceColor, M!Piece, Piece, M!Ply, Ply, M!Free, Free, M!Intellectors,
       Intellectors, M!Known, Known, M!Moving, Moving, M!Target, Target, M!IsJump, IsJump, M!DeltaI, DeltaI, M!DeltaJ, DeltaJ

LEMMA BoardKnown ==
  ASSUME NEW p \in Position
  PROVE  Known(p) = Hexes /\ \A h \in Hexes : Free(p, h) <=> p.piece_arrangement[h] = Empty
BY DEF Position, Arrangement, Known, Free

LEMMA HexTyped ==
  ASSUME NEW h \in Hexes
  PROVE  /\ h.i \in 0 .. 8 /\ h.j \in 0 .. 6 /\ h = Hex(h.i, h.j) /\ IsValid(h)
         /\ M!Height(h) = 2 * h.j + (h.i % 2) /\ M!Height(h) \in 0 .. 12
         /\ h \in HexCoordinates
BY DEF Hexes, IsValid, Hex, HexCoordinates, M!Height

LEMMA WithinBounds ==
  ASSUME NEW i \in Int, NEW j \in Int
  PROVE  /\ IsValid(Hex(i, j)) <=> 0 <= i /\ i <= 8 /\ 0 <= 2 * j + (i % 2) /\ 2 * j + (i % 2) <= 12
         /\ IsValid(Hex(i, j)) <=> Hex(i, j) \in Hexes
<1>1. i % 2 \in {0, 1} /\ Hex(i, j).i = i /\ Hex(i, j).j = j
  BY DEF Hex
<1>2. IsValid(Hex(i, j)) <=> 0 <= i /\ i <= 8 /\ 0 <= 2 * j + (i % 2) /\ 2 * j + (i % 2) <= 12
  BY <1>1 DEF IsValid
<1>3. IsValid(Hex(i, j)) <=> Hex(i, j) \in Hexes
  <2>1. IsValid(Hex(i, j)) => i \in 0 .. 8 /\ j \in 0 .. 6
    BY <1>1 DEF IsValid
  <2> QED
    BY <2>1 DEF Hexes, Hex
<1> QED
  BY <1>2, <1>3

LEMMA VectorIs ==
  /\ M!Vector["FORWARD"] = <<0, -2>> /\ M!Vector["BACK"] = <<0, 2>>
  /\ M!Vector["FORWARD_LEFT"] = <<-1, -1>> /\ M!Vector["FORWARD_RIGHT"] = <<1, -1>>
  /\ M!Vector["BACK_LEFT"] = <<-1, 1>> /\ M!Vector["BACK_RIGHT"] = <<1, 1>>
  /\ M!Vector["AGR_LEFT"] = <<-2, 0>> /\ M!Vector["AGR_RIGHT"] = <<2, 0>>
  /\ M!Vector["AGR_FORWARD_LEFT"] = <<-1, -3>> /\ M!Vector["AGR_FORWARD_RIGHT"] = <<1, -3>>
  /\ M!Vector["AGR_BACK_LEFT"] = <<-1, 3>> /\ M!Vector["AGR_BACK_RIGHT"] = <<1, 3>>
BY SameBoard DEF M!Vector, Direction, Lateral, ForwardLateral, BackwardLateral, Radial

(* h is a columns and b half heights away from g. *)
Away(g, h, a, b) == h.i = g.i + a /\ M!Height(h) = M!Height(g) + b

Across(d, c, n) == ColorSign(c) * n * M!Vector[d][1]
Down(d, c, n) == ColorSign(c) * n * M!Vector[d][2]

LEMMA Vectors ==
  ASSUME NEW d \in Direction, NEW c \in PieceColor, NEW n \in Int
  PROVE  Across(d, c, n) \in Int /\ Down(d, c, n) \in Int /\ (Down(d, c, n) - Across(d, c, n)) % 2 = 0
<1>1. CASE c = "white"
  BY <1>1, VectorIs DEF Across, Down, ColorSign, Direction, Lateral, ForwardLateral, BackwardLateral, Radial
<1>2. CASE c = "black"
  BY <1>2, VectorIs DEF Across, Down, ColorSign, Direction, Lateral, ForwardLateral, BackwardLateral, Radial
<1> QED
  BY <1>1, <1>2 DEF PieceColor

(* Along leads to the hex at the end of the vector, on the board if that is *)
(* within the bounds of the columns and of the heights.                     *)
LEMMA AlongIs ==
  ASSUME NEW g \in Hexes, NEW d \in Direction, NEW c \in PieceColor, NEW n \in Int
  PROVE  /\ Away(g, M!Along(g, d, c, n), Across(d, c, n), Down(d, c, n))
         /\ M!Along(g, d, c, n) \in HexCoordinates
         /\ IsValid(M!Along(g, d, c, n)) <=>
              /\ 0 <= g.i + Across(d, c, n) /\ g.i + Across(d, c, n) <= 8
              /\ 0 <= M!Height(g) + Down(d, c, n) /\ M!Height(g) + Down(d, c, n) <= 12
         /\ IsValid(M!Along(g, d, c, n)) <=> M!Along(g, d, c, n) \in Hexes
         /\ \A h \in HexCoordinates : h = M!Along(g, d, c, n) <=> Away(g, h, Across(d, c, n), Down(d, c, n))
<1> DEFINE i == g.i + Across(d, c, n)
           y == M!Height(g) + Down(d, c, n)
           j == (y - (i % 2)) \div 2
<1>1. M!Along(g, d, c, n) = Hex(i, j)
  BY SameBoard DEF M!Along, Across, Down
<1>2. i \in Int /\ y \in Int /\ (y - i) % 2 = 0
  <2> DEFINE a == Across(d, c, n)
             b == Down(d, c, n)
  <2>1. a \in Int /\ b \in Int /\ (b - a) % 2 = 0
    BY Vectors
  <2> HIDE DEF a, b
  <2>2. g.i \in Int /\ g.j \in Int /\ M!Height(g) = 2 * g.j + (g.i % 2)
    BY HexTyped
  <2>3. ((M!Height(g) + b) - (g.i + a)) % 2 = 0
    BY <2>1, <2>2
  <2> QED
    BY <2>1, <2>2, <2>3 DEF a, b
<1> HIDE DEF i, y
<1>3. j \in Int /\ 2 * j + (i % 2) = y
  BY <1>2
<1> HIDE DEF j
<1>4. Hex(i, j).i = i /\ Hex(i, j).j = j /\ M!Height(Hex(i, j)) = y
  BY <1>3 DEF Hex, M!Height
<1>5. ASSUME NEW h \in HexCoordinates, Away(g, h, Across(d, c, n), Down(d, c, n))
      PROVE  h = Hex(i, j)
  <2>1. h.i = i /\ 2 * h.j + (h.i % 2) = y /\ h.j \in Int
    BY <1>5 DEF Away, i, y, HexCoordinates, M!Height
  <2>2. 2 * h.j + (i % 2) = y
    BY <2>1
  <2>3. h.j = j
    <3> DEFINE r == i % 2
               x == h.j
    <3>1. r \in Int /\ x \in Int /\ 2 * x + r = y /\ 2 * j + r = y /\ j \in Int /\ y \in Int
      BY <2>1, <2>2, <1>2, <1>3
    <3> HIDE DEF r, x
    <3>2. x = j
      BY <3>1
    <3> QED
      BY <3>2 DEF x
  <2> QED
    BY <2>1, <2>3 DEF HexCoordinates, Hex
<1>6. Away(g, Hex(i, j), Across(d, c, n), Down(d, c, n))
  BY <1>4 DEF Away, i, y
<1>7. /\ IsValid(Hex(i, j)) <=> 0 <= i /\ i <= 8 /\ 0 <= y /\ y <= 12
      /\ IsValid(Hex(i, j)) <=> Hex(i, j) \in Hexes
  BY <1>2, <1>3, WithinBounds
<1>8. /\ IsValid(Hex(i, j)) <=> /\ 0 <= g.i + Across(d, c, n) /\ g.i + Across(d, c, n) <= 8
                                /\ 0 <= M!Height(g) + Down(d, c, n) /\ M!Height(g) + Down(d, c, n) <= 12
  BY <1>7 DEF i, y
<1>9. Hex(i, j) \in HexCoordinates
  BY <1>2, <1>3 DEF Hex, HexCoordinates
<1> QED
  BY <1>1, <1>5, <1>6, <1>7, <1>8, <1>9

(* A piece of Black moves as one of White does in the opposite direction. *)
Reversed(d) ==
  CASE d = "FORWARD" -> "BACK" [] d = "BACK" -> "FORWARD"
    [] d = "FORWARD_LEFT" -> "BACK_RIGHT" [] d = "BACK_RIGHT" -> "FORWARD_LEFT"
    [] d = "FORWARD_RIGHT" -> "BACK_LEFT" [] d = "BACK_LEFT" -> "FORWARD_RIGHT"
    [] d = "AGR_LEFT" -> "AGR_RIGHT" [] d = "AGR_RIGHT" -> "AGR_LEFT"
    [] d = "AGR_FORWARD_LEFT" -> "AGR_BACK_RIGHT" [] d = "AGR_BACK_RIGHT" -> "AGR_FORWARD_LEFT"
    [] d = "AGR_FORWARD_RIGHT" -> "AGR_BACK_LEFT" [] d = "AGR_BACK_LEFT" -> "AGR_FORWARD_RIGHT"

LEMMA BlackIsReversed ==
  ASSUME NEW d \in Direction
  PROVE  /\ Reversed(d) \in Direction /\ Reversed(Reversed(d)) = d
         /\ d \in Lateral => Reversed(d) \in Lateral
         /\ d \in Radial => Reversed(d) \in Radial
         /\ \A g : \A n \in Int : M!Along(g, d, "black", n) = M!Along(g, Reversed(d), "white", n)
<1>1. /\ Reversed(d) \in Direction /\ Reversed(Reversed(d)) = d
      /\ d \in Lateral => Reversed(d) \in Lateral
      /\ d \in Radial => Reversed(d) \in Radial
  <2>1. /\ Reversed("FORWARD") = "BACK" /\ Reversed("BACK") = "FORWARD"
        /\ Reversed("FORWARD_LEFT") = "BACK_RIGHT" /\ Reversed("BACK_RIGHT") = "FORWARD_LEFT"
        /\ Reversed("FORWARD_RIGHT") = "BACK_LEFT" /\ Reversed("BACK_LEFT") = "FORWARD_RIGHT"
    BY DEF Reversed
  <2>2. /\ Reversed("AGR_LEFT") = "AGR_RIGHT" /\ Reversed("AGR_RIGHT") = "AGR_LEFT"
        /\ Reversed("AGR_FORWARD_LEFT") = "AGR_BACK_RIGHT" /\ Reversed("AGR_BACK_RIGHT") = "AGR_FORWARD_LEFT"
        /\ Reversed("AGR_FORWARD_RIGHT") = "AGR_BACK_LEFT" /\ Reversed("AGR_BACK_LEFT") = "AGR_FORWARD_RIGHT"
    BY DEF Reversed
  <2> QED
    BY <2>1, <2>2 DEF Direction, Lateral, ForwardLateral, BackwardLateral, Radial
<1>2. ASSUME NEW n \in Int
      PROVE  /\ M!ColorSign("black") * n * M!Vector[d][1] = M!ColorSign("white") * n * M!Vector[Reversed(d)][1]
             /\ M!ColorSign("black") * n * M!Vector[d][2] = M!ColorSign("white") * n * M!Vector[Reversed(d)][2]
  BY VectorIs DEF Reversed, M!ColorSign, Direction, Lateral, ForwardLateral, BackwardLateral, Radial
<1>3. \A g : \A n \in Int : M!Along(g, d, "black", n) = M!Along(g, Reversed(d), "white", n)
  BY <1>2, Zenon DEF M!Along
<1> QED
  BY <1>1, <1>3

(* coords.py: the lateral neighbours are the hexes one lateral step away. *)
LEMMA NeighbourIs ==
  ASSUME NEW g \in Hexes, NEW h \in Hexes, NEW c \in PieceColor
  PROVE  IsLateralNeighbourFor(g, h) <=> \E d \in Lateral : h = M!Along(g, d, c, 1)
<1> DEFINE Near == \/ Away(g, h, 0, -2) \/ Away(g, h, 0, 2)
                   \/ Away(g, h, -1, -1) \/ Away(g, h, 1, -1)
                   \/ Away(g, h, -1, 1) \/ Away(g, h, 1, 1)
<1>1. IsLateralNeighbourFor(g, h) <=> Near
  BY HexTyped DEF IsLateralNeighbourFor, Away
<1>2. (\E d \in Lateral : h = M!Along(g, d, c, 1))
        <=> \E d \in Lateral : Away(g, h, Across(d, c, 1), Down(d, c, 1))
  BY AlongIs, HexTyped DEF Direction
<1>3. (\E d \in Lateral : Away(g, h, Across(d, c, 1), Down(d, c, 1))) <=> Near
  <2>1. CASE c = "white"
    BY <2>1, VectorIs DEF Across, Down, ColorSign, Lateral, ForwardLateral, BackwardLateral
  <2>2. CASE c = "black"
    BY <2>2, VectorIs DEF Across, Down, ColorSign, Lateral, ForwardLateral, BackwardLateral
  <2> QED
    BY <2>1, <2>2 DEF PieceColor
<1> QED
  BY <1>1, <1>2, <1>3

(* ply_validation.py: a jump is a lateral line of length two. *)
LEMMA JumpIs ==
  ASSUME NEW g \in Hexes, NEW h \in Hexes, NEW c \in PieceColor, NEW m
  PROVE  IsJump(Ply(g, h, m)) <=> \E d \in Lateral : h = M!Along(g, d, c, 2)
<1> DEFINE Far == \/ Away(g, h, 0, -4) \/ Away(g, h, 0, 4)
                  \/ Away(g, h, -2, -2) \/ Away(g, h, 2, -2)
                  \/ Away(g, h, -2, 2) \/ Away(g, h, 2, 2)
<1>1. IsJump(Ply(g, h, m)) <=> Far
  BY HexTyped DEF IsJump, DeltaI, DeltaJ, Ply, Away
<1>2. (\E d \in Lateral : h = M!Along(g, d, c, 2))
        <=> \E d \in Lateral : Away(g, h, Across(d, c, 2), Down(d, c, 2))
  BY AlongIs, HexTyped DEF Direction
<1>3. (\E d \in Lateral : Away(g, h, Across(d, c, 2), Down(d, c, 2))) <=> Far
  <2>1. CASE c = "white"
    BY <2>1, VectorIs DEF Across, Down, ColorSign, Lateral, ForwardLateral, BackwardLateral
  <2>2. CASE c = "black"
    BY <2>2, VectorIs DEF Across, Down, ColorSign, Lateral, ForwardLateral, BackwardLateral
  <2> QED
    BY <2>1, <2>2 DEF PieceColor
<1> QED
  BY <1>1, <1>2, <1>3

(* ply_validation.py: the step of a progressor. *)
Advances(g, h, c) ==
  /\ h.i - g.i \in -1 .. 1
  /\ h.j - g.j = IF h.i = g.i \/ (g.i % 2 = 0) = (c = "white")
                   THEN IF c = "white" THEN -1 ELSE 1 ELSE 0

LEMMA AdvanceIs ==
  ASSUME NEW g \in Hexes, NEW h \in Hexes, NEW c \in PieceColor
  PROVE  Advances(g, h, c) <=> \E d \in ForwardLateral : h = M!Along(g, d, c, 1)
<1>1. (\E d \in ForwardLateral : h = M!Along(g, d, c, 1))
        <=> \E d \in ForwardLateral : Away(g, h, Across(d, c, 1), Down(d, c, 1))
  BY AlongIs, HexTyped DEF Direction, Lateral
<1>2. CASE c = "white"
  <2>1. (\E d \in ForwardLateral : Away(g, h, Across(d, c, 1), Down(d, c, 1)))
          <=> Away(g, h, 0, -2) \/ Away(g, h, -1, -1) \/ Away(g, h, 1, -1)
    BY <1>2, VectorIs DEF Across, Down, ColorSign, ForwardLateral
  <2>2. Advances(g, h, c) <=> Away(g, h, 0, -2) \/ Away(g, h, -1, -1) \/ Away(g, h, 1, -1)
    BY <1>2, HexTyped DEF Advances, Away
  <2> QED
    BY <1>1, <2>1, <2>2
<1>3. CASE c = "black"
  <2>1. (\E d \in ForwardLateral : Away(g, h, Across(d, c, 1), Down(d, c, 1)))
          <=> Away(g, h, 0, 2) \/ Away(g, h, -1, 1) \/ Away(g, h, 1, 1)
    BY <1>3, VectorIs DEF Across, Down, ColorSign, ForwardLateral
  <2>2. Advances(g, h, c) <=> Away(g, h, 0, 2) \/ Away(g, h, -1, 1) \/ Away(g, h, 1, 1)
    BY <1>3, HexTyped DEF Advances, Away
  <2> QED
    BY <1>1, <2>1, <2>2
<1> QED
  BY <1>2, <1>3 DEF PieceColor

(* coords.py: one step of White leads where its vector does, on the board or off it. *)
LEMMA WhiteStepIs ==
  ASSUME NEW g \in Hexes, NEW d \in Direction
  PROVE  StepTarget(g, d, "white", 1) = M!Along(g, d, "white", 1)
<1>1. g.i \in Int /\ g.j \in Int /\ M!Height(g) = 2 * g.j + (g.i % 2)
  BY HexTyped
<1>2. /\ Across(d, "white", 1) = M!Vector[d][1] /\ M!Vector[d][1] \in Int
      /\ Down(d, "white", 1) = M!Vector[d][2] /\ M!Vector[d][2] \in Int
  BY VectorIs DEF Across, Down, ColorSign, Direction, Lateral, ForwardLateral, BackwardLateral, Radial
<1> DEFINE there == StepTarget(g, d, "white", 1)
           Lands == /\ there \in HexCoordinates /\ there.i = g.i + M!Vector[d][1]
                    /\ 2 * there.j + (there.i % 2) = 2 * g.j + (g.i % 2) + M!Vector[d][2]
<1>3. ASSUME Lands PROVE there = M!Along(g, d, "white", 1)
  <2>1. Away(g, there, Across(d, "white", 1), Down(d, "white", 1))
    BY <1>1, <1>2, <1>3 DEF Away, M!Height
  <2> QED
    BY <2>1, <1>3, AlongIs DEF PieceColor
<1>4. ASSUME g.i % 2 = 0 PROVE Lands
  <2>1. /\ StepTarget(g, "FORWARD", "white", 1) = Hex(g.i, g.j - 1)
        /\ StepTarget(g, "BACK", "white", 1) = Hex(g.i, g.j + 1)
        /\ StepTarget(g, "FORWARD_LEFT", "white", 1) = Hex(g.i - 1, g.j - 1)
        /\ StepTarget(g, "FORWARD_RIGHT", "white", 1) = Hex(g.i + 1, g.j - 1)
        /\ StepTarget(g, "BACK_LEFT", "white", 1) = Hex(g.i - 1, g.j)
        /\ StepTarget(g, "BACK_RIGHT", "white", 1) = Hex(g.i + 1, g.j)
        /\ StepTarget(g, "AGR_LEFT", "white", 1) = Hex(g.i - 2, g.j)
        /\ StepTarget(g, "AGR_RIGHT", "white", 1) = Hex(g.i + 2, g.j)
        /\ StepTarget(g, "AGR_FORWARD_LEFT", "white", 1) = Hex(g.i - 1, g.j - 2)
        /\ StepTarget(g, "AGR_FORWARD_RIGHT", "white", 1) = Hex(g.i + 1, g.j - 2)
        /\ StepTarget(g, "AGR_BACK_LEFT", "white", 1) = Hex(g.i - 1, g.j + 1)
        /\ StepTarget(g, "AGR_BACK_RIGHT", "white", 1) = Hex(g.i + 1, g.j + 1)
    BY <1>1, <1>4 DEF StepTarget, ColorSign
  <2>2. /\ (g.i - 1) % 2 = 1 /\ (g.i + 1) % 2 = 1
        /\ (g.i - 2) % 2 = 0 /\ (g.i + 2) % 2 = 0
    BY <1>1, <1>4
  <2>3. CASE d \in {"FORWARD", "BACK", "AGR_LEFT", "AGR_RIGHT"}
    BY <2>1, <2>2, <2>3, <1>1, <1>4, VectorIs DEF HexCoordinates, Hex
  <2>4. CASE d \in {"FORWARD_LEFT", "FORWARD_RIGHT", "BACK_LEFT", "BACK_RIGHT"}
    BY <2>1, <2>2, <2>4, <1>1, <1>4, VectorIs DEF HexCoordinates, Hex
  <2>5. CASE d \in {"AGR_FORWARD_LEFT", "AGR_FORWARD_RIGHT", "AGR_BACK_LEFT", "AGR_BACK_RIGHT"}
    BY <2>1, <2>2, <2>5, <1>1, <1>4, VectorIs DEF HexCoordinates, Hex
  <2> QED
    BY <2>3, <2>4, <2>5 DEF Direction, Lateral, ForwardLateral, BackwardLateral, Radial
<1>5. ASSUME g.i % 2 = 1 PROVE Lands
  <2>1. /\ StepTarget(g, "FORWARD", "white", 1) = Hex(g.i, g.j - 1)
        /\ StepTarget(g, "BACK", "white", 1) = Hex(g.i, g.j + 1)
        /\ StepTarget(g, "FORWARD_LEFT", "white", 1) = Hex(g.i - 1, g.j)
        /\ StepTarget(g, "FORWARD_RIGHT", "white", 1) = Hex(g.i + 1, g.j)
        /\ StepTarget(g, "BACK_LEFT", "white", 1) = Hex(g.i - 1, g.j + 1)
        /\ StepTarget(g, "BACK_RIGHT", "white", 1) = Hex(g.i + 1, g.j + 1)
        /\ StepTarget(g, "AGR_LEFT", "white", 1) = Hex(g.i - 2, g.j)
        /\ StepTarget(g, "AGR_RIGHT", "white", 1) = Hex(g.i + 2, g.j)
        /\ StepTarget(g, "AGR_FORWARD_LEFT", "white", 1) = Hex(g.i - 1, g.j - 1)
        /\ StepTarget(g, "AGR_FORWARD_RIGHT", "white", 1) = Hex(g.i + 1, g.j - 1)
        /\ StepTarget(g, "AGR_BACK_LEFT", "white", 1) = Hex(g.i - 1, g.j + 2)
        /\ StepTarget(g, "AGR_BACK_RIGHT", "white", 1) = Hex(g.i + 1, g.j + 2)
    BY <1>1, <1>5 DEF StepTarget, ColorSign
  <2>2. /\ (g.i - 1) % 2 = 0 /\ (g.i + 1) % 2 = 0
        /\ (g.i - 2) % 2 = 1 /\ (g.i + 2) % 2 = 1
    BY <1>1, <1>5
  <2>3. CASE d \in {"FORWARD", "BACK", "AGR_LEFT", "AGR_RIGHT"}
    BY <2>1, <2>2, <2>3, <1>1, <1>5, VectorIs DEF HexCoordinates, Hex
  <2>4. CASE d \in {"FORWARD_LEFT", "FORWARD_RIGHT", "BACK_LEFT", "BACK_RIGHT"}
    BY <2>1, <2>2, <2>4, <1>1, <1>5, VectorIs DEF HexCoordinates, Hex
  <2>5. CASE d \in {"AGR_FORWARD_LEFT", "AGR_FORWARD_RIGHT", "AGR_BACK_LEFT", "AGR_BACK_RIGHT"}
    BY <2>1, <2>2, <2>5, <1>1, <1>5, VectorIs DEF HexCoordinates, Hex
  <2> QED
    BY <2>3, <2>4, <2>5 DEF Direction, Lateral, ForwardLateral, BackwardLateral, Radial
<1> QED
  BY <1>1, <1>3, <1>4, <1>5

(* position.py: the aura reaches the hexes next to the intellector. *)
LEMMA AuraIs ==
  ASSUME NEW p \in Position, NEW h \in Hexes, NEW side
  PROVE  IsHexUnderAura(p, h, side) <=> M!UnderAura(p, h, side)
<1>1. \A d \in Lateral : StepTarget(h, d, "white", 1) = M!Along(h, d, "white", 1)
  BY WhiteStepIs DEF Direction
<1>2. \A near \in Intellectors(p, side) : IsValid(near)
  BY BoardKnown DEF Intellectors, Hexes
<1> QED
  BY <1>1, <1>2, SameBoard, SamePieces DEF IsHexUnderAura, M!UnderAura

-----------------------------------------------------------------------------
(* Lines of steps. *)

(* A line that is on the board at its end is on it all the way. *)
LEMMA LinesStay ==
  ASSUME NEW g \in Hexes, NEW d \in Direction, NEW c \in PieceColor, NEW n \in 1 .. 8, NEW m \in 1 .. n,
         IsValid(M!Along(g, d, c, n))
  PROVE  IsValid(M!Along(g, d, c, m))
<1> DEFINE a(k) == g.i + Across(d, c, k)
           b(k) == M!Height(g) + Down(d, c, k)
<1>1. g.i \in 0 .. 8 /\ M!Height(g) \in 0 .. 12
  BY HexTyped
<1>2. 0 <= a(n) /\ a(n) <= 8 /\ 0 <= b(n) /\ b(n) <= 12
  BY AlongIs
<1>3. CASE c = "white"
  <2>1. 0 <= a(m) /\ a(m) <= 8 /\ 0 <= b(m) /\ b(m) <= 12
    BY <1>1, <1>2, <1>3, VectorIs
       DEF Across, Down, ColorSign, Direction, Lateral, ForwardLateral, BackwardLateral, Radial
  <2> QED
    BY <2>1, AlongIs
<1>4. CASE c = "black"
  <2>1. 0 <= a(m) /\ a(m) <= 8 /\ 0 <= b(m) /\ b(m) <= 12
    BY <1>1, <1>2, <1>4, VectorIs
       DEF Across, Down, ColorSign, Direction, Lateral, ForwardLateral, BackwardLateral, Radial
  <2> QED
    BY <2>1, AlongIs
<1> QED
  BY <1>3, <1>4 DEF PieceColor

(* A step from the end of a line makes it one longer. *)
LEMMA LinesGrow ==
  ASSUME NEW g \in Hexes, NEW d \in Direction, NEW n \in 1 .. 8, M!Along(g, d, "white", n) \in Hexes
  PROVE  StepTarget(M!Along(g, d, "white", n), d, "white", 1) = M!Along(g, d, "white", n + 1)
<1> DEFINE h == M!Along(g, d, "white", n)
           next == M!Along(h, d, "white", 1)
<1>1. StepTarget(h, d, "white", 1) = next
  BY WhiteStepIs
<1>2. next \in HexCoordinates
  BY AlongIs DEF PieceColor
<1>3. Away(g, h, Across(d, "white", n), Down(d, "white", n))
  BY AlongIs DEF PieceColor
<1>4. Away(h, next, Across(d, "white", 1), Down(d, "white", 1))
  BY AlongIs DEF PieceColor
<1>5. /\ Across(d, "white", n + 1) = Across(d, "white", n) + Across(d, "white", 1)
      /\ Down(d, "white", n + 1) = Down(d, "white", n) + Down(d, "white", 1)
      /\ Across(d, "white", n) \in Int /\ Across(d, "white", 1) \in Int
      /\ Down(d, "white", n) \in Int /\ Down(d, "white", 1) \in Int
  <2>1. n \in Int /\ n + 1 \in Int /\ 1 \in Int
    OBVIOUS
  <2>2. \A k \in Int : /\ Across(d, "white", k) = k * M!Vector[d][1]
                       /\ Down(d, "white", k) = k * M!Vector[d][2]
    BY VectorIs DEF Across, Down, ColorSign, Direction, Lateral, ForwardLateral, BackwardLateral, Radial
  <2>3. M!Vector[d][1] \in Int /\ M!Vector[d][2] \in Int
    BY VectorIs DEF Direction, Lateral, ForwardLateral, BackwardLateral, Radial
  <2> DEFINE v == M!Vector[d][1]
             w == M!Vector[d][2]
  <2> HIDE DEF v, w
  <2>4. v \in Int /\ w \in Int
    BY <2>3 DEF v, w
  <2>5. (n + 1) * v = n * v + 1 * v /\ n * v \in Int /\ 1 * v \in Int
    BY <2>1, <2>4
  <2>6. (n + 1) * w = n * w + 1 * w /\ n * w \in Int /\ 1 * w \in Int
    BY <2>1, <2>4
  <2>7. /\ Across(d, "white", n + 1) = (n + 1) * v /\ Down(d, "white", n + 1) = (n + 1) * w
        /\ Across(d, "white", n) = n * v /\ Down(d, "white", n) = n * w
        /\ Across(d, "white", 1) = 1 * v /\ Down(d, "white", 1) = 1 * w
    BY <2>1, <2>2, Zenon DEF v, w
  <2> QED
    BY <2>5, <2>6, <2>7
<1>6. g.i \in Int /\ M!Height(g) \in Int
  BY HexTyped
<1>7. Away(g, next, Across(d, "white", n + 1), Down(d, "white", n + 1))
  BY <1>3, <1>4, <1>5, <1>6 DEF Away
<1> QED
  BY <1>1, <1>2, <1>7, AlongIs DEF PieceColor

(* coords.py: a ray is the part of the line that is on the board. *)
LEMMA RayIs ==
  ASSUME NEW g \in Hexes, NEW d \in Direction
  PROVE  \E length \in 0 .. 8 :
           /\ Ray(g, d, "white") = [m \in 1 .. length |-> M!Along(g, d, "white", m)]
           /\ \A n \in 1 .. 8 : n <= length <=> IsValid(M!Along(g, d, "white", n))
<1> DEFINE On(n) == IsValid(M!Along(g, d, "white", n))
<1>1. \A n \in 1 .. 8, m \in 1 .. 8 : On(n) /\ m <= n => On(m)
  BY LinesStay DEF PieceColor
<1>2. PICK length \in 0 .. 8 : \A n \in 1 .. 8 : n <= length <=> On(n)
  <2> HIDE DEF On
  <2>1. CASE ~On(1)
    BY <2>1, <1>1
  <2>2. CASE On(8)
    BY <2>2, <1>1
  <2>3. CASE \E k \in 1 .. 7 : On(k) /\ ~On(k + 1)
    <3>1. PICK k \in 1 .. 7 : On(k) /\ ~On(k + 1)
      BY <2>3
    <3>2. \A n \in 1 .. 8 : n <= k <=> On(n)
      BY <3>1, <1>1
    <3> QED
      BY <3>2
  <2>4. On(1) /\ (\A k \in 1 .. 7 : On(k) => On(k + 1)) => On(8)
    <3>1. ASSUME On(1), \A k \in 1 .. 7 : On(k) => On(k + 1)
          PROVE  On(8)
      <4>1. On(2) /\ On(3)
        BY <3>1
      <4>2. On(4) /\ On(5)
        BY <3>1, <4>1
      <4>3. On(6) /\ On(7)
        BY <3>1, <4>2
      <4> QED
        BY <3>1, <4>3
    <3> QED
      BY <3>1
  <2> QED
    BY <2>1, <2>2, <2>3, <2>4
<1> DEFINE line(k) == [m \in 1 .. k |-> M!Along(g, d, "white", m)]
           upto(n) == IF n < length THEN n ELSE length
           step(f, n) == IF n = 0 THEN <<>>
             ELSE LET before == f[n - 1]
                      last == IF before = <<>> THEN g ELSE before[Len(before)]
                      next == StepTarget(last, d, "white", 1)
                  IN IF Len(before) = n - 1 /\ IsValid(next) THEN Append(before, next) ELSE before
           met == CHOOSE met : met = [n \in 0 .. 8 |-> step(met, n)]
           walk == [n \in 0 .. 8 |-> line(upto(n))]
<1>3. Ray(g, d, "white") = met[8]
  BY Zenon DEF Ray
<1>4. ASSUME NEW f, NEW n \in 1 .. 8, f[n - 1] = line(upto(n - 1))
      PROVE  step(f, n) = line(upto(n))
  <2> DEFINE u == upto(n - 1)
             before == f[n - 1]
             last == IF before = <<>> THEN g ELSE before[Len(before)]
             next == StepTarget(last, d, "white", 1)
  <2>1. u \in 0 .. 8 /\ u <= n - 1 /\ u <= length /\ (u = n - 1 \/ u = length)
    OBVIOUS
  <2>2. before = line(u) /\ Len(before) = u
    BY <1>4, <2>1
  <2>3. CASE u = n - 1
    <3>1. next = M!Along(g, d, "white", n)
      <4>1. CASE n = 1
        <5>1. last = g
          BY <2>2, <2>3, <4>1
        <5> QED
          BY <4>1, <5>1, WhiteStepIs
      <4>2. CASE n # 1
        <5>1. before # <<>> /\ last = M!Along(g, d, "white", n - 1)
          <6>1. before[u] = M!Along(g, d, "white", u) /\ Len(before) # 0
            BY <2>1, <2>2, <2>3, <4>2
          <6>2. Len(<<>>) = 0
            OBVIOUS
          <6> QED
            BY <6>1, <6>2, <2>2, <2>3
        <5>2. n - 1 \in 1 .. 8 /\ n - 1 <= length
          BY <2>1, <2>3, <4>2
        <5>3. M!Along(g, d, "white", n - 1) \in Hexes
          BY <5>2, <1>2, AlongIs DEF PieceColor
        <5>4. StepTarget(M!Along(g, d, "white", n - 1), d, "white", 1) = M!Along(g, d, "white", n - 1 + 1)
          BY <5>2, <5>3, LinesGrow
        <5>5. n - 1 + 1 = n
          OBVIOUS
        <5> QED
          BY <5>1, <5>4, <5>5
      <4> QED
        BY <4>1, <4>2
    <3>2. step(f, n) = IF Len(before) = n - 1 /\ IsValid(next) THEN Append(before, next) ELSE before
      OBVIOUS
    <3>3. IsValid(next) <=> n <= length
      BY <3>1, <1>2
    <3> HIDE DEF next, last, before, step
    <3>4. CASE n <= length
      <4>1. step(f, n) = Append(line(n - 1), M!Along(g, d, "white", n))
        BY <2>2, <2>3, <3>1, <3>2, <3>3, <3>4
      <4>2. Append(line(n - 1), M!Along(g, d, "white", n)) = line(n)
        OBVIOUS
      <4>3. upto(n) = n
        BY <3>4
      <4> QED
        BY <4>1, <4>2, <4>3
    <3>5. CASE ~ (n <= length)
      <4>1. step(f, n) = line(u)
        BY <2>2, <3>2, <3>3, <3>5
      <4>2. upto(n) = u
        BY <2>1, <2>3, <3>5
      <4> HIDE DEF u, upto
      <4> QED
        BY <4>1, <4>2
    <3> QED
      BY <3>4, <3>5
  <2>4. CASE u # n - 1
    <3>1. upto(n) = u
      BY <2>1, <2>4
    <3>2. step(f, n) = before
      BY <2>2, <2>4
    <3> HIDE DEF u, upto, step, before, line
    <3> QED
      BY <2>2, <3>1, <3>2
  <2> QED
    BY <2>3, <2>4
<1>5. ASSUME NEW f, f = [n \in 0 .. 8 |-> step(f, n)]
      PROVE  f[8] = line(length)
  <2>1. f[0] = line(upto(0))
    <3>1. step(f, 0) = <<>> /\ line(upto(0)) = <<>>
      OBVIOUS
    <3> HIDE DEF step, line
    <3>2. f[0] = step(f, 0)
      BY <1>5
    <3> QED
      BY <3>1, <3>2
  <2>2. ASSUME NEW n \in 1 .. 8, f[n - 1] = line(upto(n - 1))
        PROVE  f[n] = line(upto(n))
    <3>1. step(f, n) = line(upto(n))
      BY <1>4, <2>2
    <3> HIDE DEF step, line
    <3>2. f[n] = step(f, n)
      BY <1>5
    <3> QED
      BY <3>1, <3>2
  <2> HIDE DEF line, upto
  <2>3. f[1] = line(upto(1)) /\ f[2] = line(upto(2)) /\ f[3] = line(upto(3)) /\ f[4] = line(upto(4))
    BY <2>1, <2>2
  <2>4. f[5] = line(upto(5)) /\ f[6] = line(upto(6)) /\ f[7] = line(upto(7)) /\ f[8] = line(upto(8))
    BY <2>3, <2>2
  <2>5. upto(8) = length
    BY DEF upto
  <2> QED
    BY <2>4, <2>5
<1>6. \E f : f = [n \in 0 .. 8 |-> step(f, n)]
  <2>1. ASSUME NEW n \in 0 .. 8
        PROVE  line(upto(n)) = step(walk, n)
    <3>1. CASE n = 0
      <4>1. step(walk, n) = <<>> /\ line(upto(n)) = <<>>
        BY <3>1
      <4> QED
        BY <4>1
    <3>2. CASE n # 0
      <4>1. n \in 1 .. 8 /\ n - 1 \in 0 .. 8
        BY <3>2
      <4> HIDE DEF step, line, upto
      <4>2. walk[n - 1] = line(upto(n - 1))
        BY <4>1
      <4> HIDE DEF walk
      <4> QED
        BY <1>4, <4>1, <4>2
    <3> QED
      BY <3>1, <3>2
  <2> HIDE DEF step, line, upto
  <2>2. walk = [n \in 0 .. 8 |-> step(walk, n)]
    BY <2>1
  <2> HIDE DEF walk
  <2> QED
    BY <2>2
<1>7. met = [n \in 0 .. 8 |-> step(met, n)]
  <2> HIDE DEF step
  <2> QED
    BY <1>6
<1>8. met[8] = line(length)
  <2> HIDE DEF step, met
  <2> QED
    BY <1>5, <1>7
<1> HIDE DEF met
<1> QED
  BY <1>2, <1>3, <1>8

(* A piece slides from g to h in one of the directions if nothing is in the way. *)
Slides(p, g, h, directions, c) ==
  \E d \in directions, n \in 1 .. 8 :
    h = M!Along(g, d, c, n) /\ \A m \in 1 .. n - 1 : Free(p, M!Along(g, d, c, m))

LEMMA SlidesAsWhite ==
  ASSUME NEW p, NEW g \in Hexes, NEW h \in Hexes, NEW c \in PieceColor, NEW D \in {Lateral, Radial}
  PROVE  Slides(p, g, h, D, c) <=> Slides(p, g, h, D, "white")
<1>1. CASE c = "white"
  BY <1>1
<1>2. CASE c = "black"
  <2>1. \A d \in D : /\ Reversed(d) \in D /\ Reversed(Reversed(d)) = d
                     /\ \A n \in Int : M!Along(g, d, "black", n) = M!Along(g, Reversed(d), "white", n)
    BY BlackIsReversed DEF Direction
  <2>2. \A n \in 1 .. 8 : n \in Int /\ \A m \in 1 .. n - 1 : m \in Int
    OBVIOUS
  <2>3. ASSUME NEW d \in D, NEW n \in 1 .. 8,
               h = M!Along(g, d, "black", n), \A m \in 1 .. n - 1 : Free(p, M!Along(g, d, "black", m))
        PROVE  Slides(p, g, h, D, "white")
    <3>1. h = M!Along(g, Reversed(d), "white", n)
          /\ \A m \in 1 .. n - 1 : Free(p, M!Along(g, Reversed(d), "white", m))
      BY <2>1, <2>2, <2>3
    <3> QED
      BY <2>1, <3>1 DEF Slides
  <2>4. ASSUME NEW d \in D, NEW n \in 1 .. 8,
               h = M!Along(g, d, "white", n), \A m \in 1 .. n - 1 : Free(p, M!Along(g, d, "white", m))
        PROVE  Slides(p, g, h, D, "black")
    <3>1. \A k \in Int : M!Along(g, Reversed(d), "black", k) = M!Along(g, d, "white", k)
      BY <2>1
    <3>2. h = M!Along(g, Reversed(d), "black", n)
          /\ \A m \in 1 .. n - 1 : Free(p, M!Along(g, Reversed(d), "black", m))
      BY <2>2, <2>4, <3>1
    <3> QED
      BY <2>1, <3>2 DEF Slides
  <2> QED
    BY <1>2, <2>3, <2>4 DEF Slides
<1> QED
  BY <1>1, <1>2 DEF PieceColor

Slanted == Direction \ {"FORWARD", "BACK", "AGR_LEFT", "AGR_RIGHT"}

(* ply_validation.py: a ray cast in a slanted direction reaches what lies   *)
(* in that direction with nothing in the way.                               *)
LEMMA RaycastIs ==
  ASSUME NEW p, NEW g \in Hexes, NEW h \in Hexes, NEW morph, NEW d \in Slanted, NEW n \in 1 .. 8,
         h.i - g.i = n * M!Vector[d][1]
  PROVE  RaycastReaches(p, Ply(g, h, morph), d)
           <=> h = M!Along(g, d, "white", n) /\ \A m \in 1 .. n - 1 : Free(p, M!Along(g, d, "white", m))
<1> DEFINE along(m) == M!Along(g, d, "white", m)
           ray == Ray(g, d, "white")
<1>1. d \in Direction /\ M!Vector[d][1] \in {-1, 1}
  BY VectorIs DEF Slanted, Direction, Lateral, ForwardLateral, BackwardLateral, Radial
<1>2. Size(h.i - g.i) = n
  BY <1>1, HexTyped DEF Size
<1>3. PICK length \in 0 .. 8 : /\ ray = [m \in 1 .. length |-> along(m)]
                               /\ \A k \in 1 .. 8 : k <= length <=> IsValid(along(k))
  BY <1>1, RayIs
<1>4. RaycastReaches(p, Ply(g, h, morph), d)
        <=> n <= Len(ray) /\ (\A m \in 1 .. n - 1 : Free(p, ray[m])) /\ ray[n].j = h.j
  BY <1>2, Zenon DEF RaycastReaches, DeltaI, Ply
<1> HIDE DEF ray, along
<1>5. Len(ray) = length /\ \A m \in 1 .. length : ray[m] = along(m)
  BY <1>3
<1>6. n <= length /\ along(n).j = h.j => h = along(n)
  <2>1. along(n) \in HexCoordinates /\ along(n).i = g.i + Across(d, "white", n)
    BY <1>1, AlongIs DEF along, PieceColor, Away
  <2>2. Across(d, "white", n) = n * M!Vector[d][1]
    BY <1>1 DEF Across, ColorSign
  <2>3. g.i \in Int /\ h.i \in Int /\ h \in HexCoordinates
    BY HexTyped
  <2>4. along(n).i = h.i
    BY <1>1, <2>1, <2>2, <2>3
  <2> QED
    BY <2>1, <2>3, <2>4 DEF HexCoordinates
<1>7. h = along(n) => n <= length
  BY <1>3, HexTyped
<1>8. n <= length =>
        /\ (\A m \in 1 .. n - 1 : Free(p, ray[m])) <=> \A m \in 1 .. n - 1 : Free(p, along(m))
        /\ ray[n] = along(n)
  BY <1>5
<1>9. (n <= length /\ (\A m \in 1 .. n - 1 : Free(p, ray[m])) /\ ray[n].j = h.j)
        <=> h = along(n) /\ \A m \in 1 .. n - 1 : Free(p, along(m))
  BY <1>6, <1>7, <1>8
<1> QED
  BY <1>4, <1>5, <1>9 DEF along

LEMMA StraightLines ==
  ASSUME NEW g \in Hexes, NEW n \in 0 .. 8
  PROVE  /\ M!Along(g, "FORWARD", "white", n) = Hex(g.i, g.j - n)
         /\ M!Along(g, "BACK", "white", n) = Hex(g.i, g.j + n)
         /\ M!Along(g, "AGR_LEFT", "white", n) = Hex(g.i - 2 * n, g.j)
         /\ M!Along(g, "AGR_RIGHT", "white", n) = Hex(g.i + 2 * n, g.j)
<1>1. g.i \in Int /\ g.j \in Int /\ M!Height(g) = 2 * g.j + (g.i % 2)
  BY HexTyped
<1>2. ASSUME NEW i \in Int, NEW j \in Int, NEW d \in Direction,
             i = g.i + Across(d, "white", n), 2 * j + (i % 2) = 2 * g.j + (g.i % 2) + Down(d, "white", n)
      PROVE  M!Along(g, d, "white", n) = Hex(i, j)
  <2>1. Hex(i, j) \in HexCoordinates /\ Away(g, Hex(i, j), Across(d, "white", n), Down(d, "white", n))
    BY <1>1, <1>2 DEF HexCoordinates, Hex, Away, M!Height
  <2> QED
    BY <2>1, AlongIs DEF PieceColor
<1>3. /\ Across("FORWARD", "white", n) = 0 /\ Down("FORWARD", "white", n) = -2 * n
      /\ Across("BACK", "white", n) = 0 /\ Down("BACK", "white", n) = 2 * n
      /\ Across("AGR_LEFT", "white", n) = -2 * n /\ Down("AGR_LEFT", "white", n) = 0
      /\ Across("AGR_RIGHT", "white", n) = 2 * n /\ Down("AGR_RIGHT", "white", n) = 0
  BY VectorIs DEF Across, Down, ColorSign
<1>4. /\ "FORWARD" \in Direction /\ "BACK" \in Direction
      /\ "AGR_LEFT" \in Direction /\ "AGR_RIGHT" \in Direction
  BY DEF Direction, Lateral, ForwardLateral, BackwardLateral, Radial
<1>5. g.i - 2 * n \in Int /\ (g.i - 2 * n) % 2 = g.i % 2 /\ g.i + 2 * n \in Int /\ (g.i + 2 * n) % 2 = g.i % 2
  BY <1>1
<1>6. M!Along(g, "FORWARD", "white", n) = Hex(g.i, g.j - n)
  BY <1>1, <1>2, <1>3, <1>4
<1>7. M!Along(g, "BACK", "white", n) = Hex(g.i, g.j + n)
  BY <1>1, <1>2, <1>3, <1>4
<1>8. M!Along(g, "AGR_LEFT", "white", n) = Hex(g.i - 2 * n, g.j)
  BY <1>1, <1>2, <1>3, <1>4, <1>5
<1>9. M!Along(g, "AGR_RIGHT", "white", n) = Hex(g.i + 2 * n, g.j)
  BY <1>1, <1>2, <1>3, <1>4, <1>5
<1> QED
  BY <1>6, <1>7, <1>8, <1>9

(* The vectors of the slanted directions, from White's side. *)
LEMMA SlantedVectors ==
  ASSUME NEW n \in 1 .. 8
  PROVE  /\ Across("FORWARD_LEFT", "white", n) = -n /\ Down("FORWARD_LEFT", "white", n) = -n
         /\ Across("FORWARD_RIGHT", "white", n) = n /\ Down("FORWARD_RIGHT", "white", n) = -n
         /\ Across("BACK_LEFT", "white", n) = -n /\ Down("BACK_LEFT", "white", n) = n
         /\ Across("BACK_RIGHT", "white", n) = n /\ Down("BACK_RIGHT", "white", n) = n
         /\ Across("AGR_FORWARD_LEFT", "white", n) = -n /\ Down("AGR_FORWARD_LEFT", "white", n) = -3 * n
         /\ Across("AGR_FORWARD_RIGHT", "white", n) = n /\ Down("AGR_FORWARD_RIGHT", "white", n) = -3 * n
         /\ Across("AGR_BACK_LEFT", "white", n) = -n /\ Down("AGR_BACK_LEFT", "white", n) = 3 * n
         /\ Across("AGR_BACK_RIGHT", "white", n) = n /\ Down("AGR_BACK_RIGHT", "white", n) = 3 * n
BY VectorIs DEF Across, Down, ColorSign

LEMMA SlantedEnds ==
  ASSUME NEW g \in Hexes, NEW h \in Hexes, NEW n \in 1 .. 8, NEW d \in Slanted, h = M!Along(g, d, "white", n)
  PROVE  /\ g.i \in Int /\ h.i \in Int /\ h.j - g.j \in Int /\ g.i % 2 \in {0, 1} /\ h.i % 2 \in {0, 1}
         /\ h.i = g.i + Across(d, "white", n)
         /\ 2 * (h.j - g.j) = Down(d, "white", n) + (g.i % 2) - (h.i % 2)
<1>1. /\ g.i \in Int /\ g.j \in Int /\ M!Height(g) = 2 * g.j + (g.i % 2)
      /\ h.i \in Int /\ h.j \in Int /\ M!Height(h) = 2 * h.j + (h.i % 2)
  BY HexTyped
<1>2. d \in Direction
  BY DEF Slanted
<1>3. Across(d, "white", n) \in Int /\ Down(d, "white", n) \in Int
  BY <1>2, Vectors DEF PieceColor
<1>4. h.i = g.i + Across(d, "white", n) /\ M!Height(h) = M!Height(g) + Down(d, "white", n)
  BY <1>2, AlongIs DEF Away, PieceColor
<1>5. g.i % 2 \in {0, 1} /\ h.i % 2 \in {0, 1}
  BY <1>1
<1>6. 2 * h.j + (h.i % 2) = (2 * g.j + (g.i % 2)) + Down(d, "white", n)
  BY <1>1, <1>4, Zenon
<1>7. g.i % 2 \in Int /\ h.i % 2 \in Int
  BY <1>5
<1>8. 2 * (h.j - g.j) = Down(d, "white", n) + (g.i % 2) - (h.i % 2) /\ h.j - g.j \in Int
  <2> DEFINE x == g.j
             y == h.j
             r == g.i % 2
             q == h.i % 2
             b == Down(d, "white", n)
  <2>1. x \in Int /\ y \in Int /\ r \in Int /\ q \in Int /\ b \in Int /\ 2 * y + q = (2 * x + r) + b
    BY <1>1, <1>3, <1>6, <1>7, Zenon
  <2> HIDE DEF x, y, r, q, b
  <2>2. 2 * (y - x) = b + r - q /\ y - x \in Int
    BY <2>1
  <2> QED
    BY <2>2 DEF x, y, r, q, b
<1> QED
  BY <1>1, <1>4, <1>5, <1>8, Zenon

(* Half a height down is back, or sideways if the column is the higher one. *)
LEMMA BackIs ==
  ASSUME NEW x \in Int, NEW r \in {0, 1}, NEW q \in {0, 1}, NEW n \in 1 .. 8
  PROVE  /\ 2 * x = n + r - q => x > 0 \/ (x = 0 /\ r = 0)
         /\ 2 * x = -n + r - q => ~(x > 0 \/ (x = 0 /\ r = 0))
OBVIOUS

(* ply_validation.py: where a dominator can go is where it can slide. *)
DominatorReaches(p, ply) ==
  LET back == DeltaJ(ply) > 0 \/ (DeltaJ(ply) = 0 /\ ply.departure.i % 2 = 0)
  IN IF DeltaI(ply) = 0
       THEN /\ DeltaJ(ply) # 0
            /\ \A j \in Between(ply.departure.j, ply.destination.j) : Free(p, Hex(ply.departure.i, j))
       ELSE RaycastReaches(p, ply,
              IF DeltaI(ply) < 0 THEN IF back THEN "BACK_LEFT" ELSE "FORWARD_LEFT"
                                 ELSE IF back THEN "BACK_RIGHT" ELSE "FORWARD_RIGHT")

LEMMA DominatorIs ==
  ASSUME NEW p, NEW g \in Hexes, NEW h \in Hexes, NEW morph
  PROVE  DominatorReaches(p, Ply(g, h, morph)) <=> Slides(p, g, h, Lateral, "white")
<1> DEFINE ply == Ply(g, h, morph)
<1>1. /\ g.i \in 0 .. 8 /\ g.j \in 0 .. 6 /\ M!Height(g) = 2 * g.j + (g.i % 2) /\ g = Hex(g.i, g.j)
      /\ h.i \in 0 .. 8 /\ h.j \in 0 .. 6 /\ M!Height(h) = 2 * h.j + (h.i % 2) /\ h = Hex(h.i, h.j)
      /\ h \in HexCoordinates
  BY HexTyped
<1> DEFINE x == g.j
           y == h.j
<1>2. g.i \in 0 .. 8 /\ h.i \in 0 .. 8 /\ x \in 0 .. 6 /\ y \in 0 .. 6
  BY <1>1
<1>3. DeltaI(ply) = h.i - g.i /\ DeltaJ(ply) = h.j - g.j /\ ply.departure = g /\ ply.destination = h
  BY DEF DeltaI, DeltaJ, Ply
<1>4. CASE h.i = g.i
  <2>1. DominatorReaches(p, ply) <=> h.j # g.j /\ \A j \in Between(g.j, h.j) : Free(p, Hex(g.i, j))
    <3>1. (h.i - g.i = 0) /\ (h.j - g.j # 0 <=> h.j # g.j)
      BY <1>1, <1>4
    <3> QED
      BY <1>3, <3>1, Zenon DEF DominatorReaches
  <2>2. ASSUME h.j < g.j, \A j \in Between(g.j, h.j) : Free(p, Hex(g.i, j))
        PROVE  Slides(p, g, h, Lateral, "white")
    <3> DEFINE n == g.j - h.j
    <3>1. n \in 1 .. 8 /\ h = Hex(g.i, g.j - n)
      BY <1>1, <1>4, <2>2
    <3>2. \A m \in 1 .. n - 1 : m \in 0 .. 8 /\ Free(p, Hex(g.i, g.j - m))
      BY <1>1, <2>2 DEF Between
    <3> HIDE DEF n
    <3>3. h = M!Along(g, "FORWARD", "white", n)
          /\ \A m \in 1 .. n - 1 : Free(p, M!Along(g, "FORWARD", "white", m))
      BY <3>1, <3>2, StraightLines
    <3> QED
      BY <3>1, <3>3 DEF Slides, Lateral, ForwardLateral
  <2>3. ASSUME g.j < h.j, \A j \in Between(g.j, h.j) : Free(p, Hex(g.i, j))
        PROVE  Slides(p, g, h, Lateral, "white")
    <3> DEFINE n == h.j - g.j
    <3>1. n \in 1 .. 8 /\ h = Hex(g.i, g.j + n)
      BY <1>1, <1>4, <2>3
    <3>2. \A m \in 1 .. n - 1 : m \in 0 .. 8 /\ Free(p, Hex(g.i, g.j + m))
      BY <1>1, <2>3 DEF Between
    <3> HIDE DEF n
    <3>3. h = M!Along(g, "BACK", "white", n)
          /\ \A m \in 1 .. n - 1 : Free(p, M!Along(g, "BACK", "white", m))
      BY <3>1, <3>2, StraightLines
    <3> QED
      BY <3>1, <3>3 DEF Slides, Lateral, BackwardLateral
  <2>4. ASSUME NEW d \in Lateral, NEW n \in 1 .. 8,
               h = M!Along(g, d, "white", n), \A m \in 1 .. n - 1 : Free(p, M!Along(g, d, "white", m))
        PROVE  h.j # g.j /\ \A j \in Between(g.j, h.j) : Free(p, Hex(g.i, j))
    <3>1. Across(d, "white", n) = 0
      <4>1. h.i = g.i + Across(d, "white", n)
        BY <2>4, AlongIs DEF Away, Direction, PieceColor
      <4>2. Across(d, "white", n) \in Int
        BY Vectors DEF Direction, PieceColor
      <4> QED
        BY <1>1, <1>4, <4>1, <4>2
    <3>2. d \in {"FORWARD", "BACK"}
      BY <3>1, SlantedVectors DEF Lateral, ForwardLateral, BackwardLateral
    <3>3. CASE d = "FORWARD"
      <4>1. y = x - n
        BY <2>4, <3>3, StraightLines, <1>1 DEF Hex
      <4>2. \A m \in 1 .. n - 1 : Free(p, Hex(g.i, g.j - m))
        BY <2>4, <3>3, StraightLines
      <4>3. ASSUME NEW j \in Between(g.j, h.j) PROVE Free(p, Hex(g.i, j))
        <5>1. j \in y + 1 .. x - 1
          <6> HIDE DEF x, y
          <6>1. ~(x < y) /\ j \in Between(x, y)
            BY <1>2, <4>1, <4>3 DEF x, y
          <6> QED
            BY <6>1 DEF Between
        <5>2. j \in Int /\ x - j \in 1 .. n - 1 /\ x - (x - j) = j
          <6> HIDE DEF x, y
          <6> QED
            BY <1>2, <4>1, <5>1
        <5> QED
          BY <4>2, <5>2
      <4>4. y # x
        <5> HIDE DEF x, y
        <5> QED
          BY <1>2, <4>1
      <4> QED
        BY <4>3, <4>4
    <3>4. CASE d = "BACK"
      <4>1. y = x + n
        BY <2>4, <3>4, StraightLines, <1>1 DEF Hex
      <4>2. \A m \in 1 .. n - 1 : Free(p, Hex(g.i, g.j + m))
        BY <2>4, <3>4, StraightLines
      <4>3. ASSUME NEW j \in Between(g.j, h.j) PROVE Free(p, Hex(g.i, j))
        <5>1. j \in x + 1 .. y - 1
          <6> HIDE DEF x, y
          <6>1. x < y /\ j \in Between(x, y)
            BY <1>2, <4>1, <4>3 DEF x, y
          <6> QED
            BY <6>1 DEF Between
        <5>2. j \in Int /\ j - x \in 1 .. n - 1 /\ x + (j - x) = j
          <6> HIDE DEF x, y
          <6> QED
            BY <1>2, <4>1, <5>1
        <5> QED
          BY <4>2, <5>2
      <4>4. y # x
        <5> HIDE DEF x, y
        <5> QED
          BY <1>2, <4>1
      <4> QED
        BY <4>3, <4>4
    <3> QED
      BY <3>2, <3>3, <3>4
  <2>5. h.j # g.j => h.j < g.j \/ g.j < h.j
    BY <1>1
  <2> QED
    BY <2>1, <2>2, <2>3, <2>4, <2>5 DEF Slides
<1>5. CASE h.i # g.i
  <2> DEFINE n == IF h.i < g.i THEN g.i - h.i ELSE h.i - g.i
             back == h.j - g.j > 0 \/ (h.j - g.j = 0 /\ g.i % 2 = 0)
             dir == IF h.i - g.i < 0 THEN IF back THEN "BACK_LEFT" ELSE "FORWARD_LEFT"
                                     ELSE IF back THEN "BACK_RIGHT" ELSE "FORWARD_RIGHT"
  <2>1. DominatorReaches(p, ply) <=> RaycastReaches(p, ply, dir)
    <3>1. h.i - g.i # 0
      BY <1>1, <1>5
    <3> QED
      BY <1>3, <3>1, Zenon DEF DominatorReaches
  <2>2. n \in 1 .. 8 /\ dir \in Slanted /\ dir \in Lateral
    BY <1>1, <1>5 DEF Slanted, Direction, Lateral, ForwardLateral, BackwardLateral
  <2>3. h.i - g.i = n * M!Vector[dir][1]
    BY <1>1, <1>5, VectorIs
  <2>4. RaycastReaches(p, ply, dir)
          <=> h = M!Along(g, dir, "white", n) /\ \A m \in 1 .. n - 1 : Free(p, M!Along(g, dir, "white", m))
    <3> HIDE DEF dir, n
    <3> QED
      BY <2>2, <2>3, RaycastIs
  <2>5. ASSUME NEW d \in Lateral, NEW k \in 1 .. 8, h = M!Along(g, d, "white", k)
        PROVE  d = dir /\ k = n
    <3>1. d \notin {"FORWARD", "BACK"}
      BY <2>5, <1>5, StraightLines DEF Hex
    <3>2. /\ h.i = g.i + Across(d, "white", k)
          /\ 2 * (h.j - g.j) = Down(d, "white", k) + (g.i % 2) - (h.i % 2)
          /\ g.i \in Int /\ h.i \in Int /\ h.j - g.j \in Int /\ g.i % 2 \in {0, 1} /\ h.i % 2 \in {0, 1}
      BY <2>5, <3>1, SlantedEnds DEF Slanted, Direction, Lateral, ForwardLateral, BackwardLateral, Radial
    <3>3. CASE d = "FORWARD_LEFT"
      <4>1. 2 * (h.j - g.j) = -k + (g.i % 2) - (h.i % 2)
        BY <3>2, <3>3, SlantedVectors
      <4>2. h.i = g.i - k
        BY <3>2, <3>3, SlantedVectors, Zenon
      <4>3. ~back
        BY <3>2, <4>1, BackIs
      <4>4. (h.i - g.i < 0) /\ h.i < g.i /\ k = g.i - h.i
        <5> DEFINE a == g.i
                   b == h.i
        <5>1. a \in Int /\ b \in Int /\ b = a - k
          BY <1>2, <4>2
        <5> HIDE DEF a, b
        <5>2. (b - a < 0) /\ b < a /\ k = a - b
          BY <5>1
        <5> QED
          BY <5>2 DEF a, b
      <4> QED
        BY <3>3, <4>3, <4>4, Zenon
    <3>4. CASE d = "FORWARD_RIGHT"
      <4>1. 2 * (h.j - g.j) = -k + (g.i % 2) - (h.i % 2)
        BY <3>2, <3>4, SlantedVectors
      <4>2. h.i = g.i + k
        BY <3>2, <3>4, SlantedVectors, Zenon
      <4>3. ~back
        BY <3>2, <4>1, BackIs
      <4>4. ~(h.i - g.i < 0) /\ ~(h.i < g.i) /\ k = h.i - g.i
        <5> DEFINE a == g.i
                   b == h.i
        <5>1. a \in Int /\ b \in Int /\ b = a + k
          BY <1>2, <4>2
        <5> HIDE DEF a, b
        <5>2. ~(b - a < 0) /\ ~(b < a) /\ k = b - a
          BY <5>1
        <5> QED
          BY <5>2 DEF a, b
      <4> QED
        BY <3>4, <4>3, <4>4, Zenon
    <3>5. CASE d = "BACK_LEFT"
      <4>1. 2 * (h.j - g.j) = k + (g.i % 2) - (h.i % 2)
        BY <3>2, <3>5, SlantedVectors
      <4>2. h.i = g.i - k
        BY <3>2, <3>5, SlantedVectors, Zenon
      <4>3. back
        BY <3>2, <4>1, BackIs
      <4>4. (h.i - g.i < 0) /\ h.i < g.i /\ k = g.i - h.i
        <5> DEFINE a == g.i
                   b == h.i
        <5>1. a \in Int /\ b \in Int /\ b = a - k
          BY <1>2, <4>2
        <5> HIDE DEF a, b
        <5>2. (b - a < 0) /\ b < a /\ k = a - b
          BY <5>1
        <5> QED
          BY <5>2 DEF a, b
      <4> QED
        BY <3>5, <4>3, <4>4, Zenon
    <3>6. CASE d = "BACK_RIGHT"
      <4>1. 2 * (h.j - g.j) = k + (g.i % 2) - (h.i % 2)
        BY <3>2, <3>6, SlantedVectors
      <4>2. h.i = g.i + k
        BY <3>2, <3>6, SlantedVectors, Zenon
      <4>3. back
        BY <3>2, <4>1, BackIs
      <4>4. ~(h.i - g.i < 0) /\ ~(h.i < g.i) /\ k = h.i - g.i
        <5> DEFINE a == g.i
                   b == h.i
        <5>1. a \in Int /\ b \in Int /\ b = a + k
          BY <1>2, <4>2
        <5> HIDE DEF a, b
        <5>2. ~(b - a < 0) /\ ~(b < a) /\ k = b - a
          BY <5>1
        <5> QED
          BY <5>2 DEF a, b
      <4> QED
        BY <3>6, <4>3, <4>4, Zenon
    <3> QED
      BY <3>1, <3>3, <3>4, <3>5, <3>6 DEF Lateral, ForwardLateral, BackwardLateral
  <2> HIDE DEF dir, n
  <2> QED
    BY <2>1, <2>2, <2>4, <2>5 DEF Slides
<1> QED
  BY <1>4, <1>5

(* ply_validation.py: where an aggressor can go is where it can slide. *)
AggressorReaches(p, ply) ==
  /\ DeltaI(ply) # 0
  /\ IF DeltaJ(ply) = 0
       THEN /\ DeltaI(ply) % 2 = 0
            /\ \A i \in Between(ply.departure.i, ply.destination.i) :
                 (i - ply.departure.i) % 2 = 0 => Free(p, Hex(i, ply.departure.j))
       ELSE RaycastReaches(p, ply,
              IF DeltaI(ply) < 0
                THEN IF DeltaJ(ply) < 0 THEN "AGR_FORWARD_LEFT" ELSE "AGR_BACK_LEFT"
                ELSE IF DeltaJ(ply) < 0 THEN "AGR_FORWARD_RIGHT" ELSE "AGR_BACK_RIGHT")

(* Three half heights are at least a row. *)
LEMMA RowsApart ==
  ASSUME NEW x \in Int, NEW r \in {0, 1}, NEW q \in {0, 1}, NEW n \in 1 .. 8
  PROVE  /\ 2 * x = 3 * n + r - q => ~(x < 0) /\ x # 0
         /\ 2 * x = -3 * n + r - q => x < 0 /\ x # 0
OBVIOUS

LEMMA AggressorIs ==
  ASSUME NEW p, NEW g \in Hexes, NEW h \in Hexes, NEW morph
  PROVE  AggressorReaches(p, Ply(g, h, morph)) <=> Slides(p, g, h, Radial, "white")
<1> DEFINE ply == Ply(g, h, morph)
           x == g.i
           y == h.i
<1>1. /\ x \in 0 .. 8 /\ y \in 0 .. 8 /\ g.j \in 0 .. 6 /\ h.j \in 0 .. 6 /\ h \in HexCoordinates
      /\ g = Hex(x, g.j) /\ h = Hex(y, h.j)
  BY HexTyped
<1>2. DeltaI(ply) = y - x /\ DeltaJ(ply) = h.j - g.j /\ ply.departure = g /\ ply.destination = h
  BY DEF DeltaI, DeltaJ, Ply
<1>3. x \in 0 .. 8 /\ y \in 0 .. 8 /\ (y - x # 0 <=> y # x) /\ (h.j - g.j = 0 <=> h.j = g.j)
  BY <1>1
<1>4. ASSUME NEW d \in Radial, NEW n \in 1 .. 8, h = M!Along(g, d, "white", n),
             d \notin {"AGR_LEFT", "AGR_RIGHT"}
      PROVE  /\ d \in Slanted /\ h.j # g.j
             /\ d \in {"AGR_FORWARD_LEFT", "AGR_FORWARD_RIGHT"} => h.j - g.j < 0
             /\ d \in {"AGR_BACK_LEFT", "AGR_BACK_RIGHT"} => ~(h.j - g.j < 0)
             /\ d \in {"AGR_FORWARD_LEFT", "AGR_BACK_LEFT"} => y = x - n
             /\ d \in {"AGR_FORWARD_RIGHT", "AGR_BACK_RIGHT"} => y = x + n
  <2>1. d \in Slanted
    BY <1>4 DEF Slanted, Direction, Lateral, ForwardLateral, BackwardLateral, Radial
  <2>2. h.j - g.j \in Int /\ g.i % 2 \in {0, 1} /\ h.i % 2 \in {0, 1}
    BY <1>4, <2>1, SlantedEnds
  <2>3. 2 * (h.j - g.j) = Down(d, "white", n) + (g.i % 2) - (h.i % 2)
    BY <1>4, <2>1, SlantedEnds
  <2>4. y = x + Across(d, "white", n)
    BY <1>4, <2>1, SlantedEnds
  <2>5. ASSUME d \in {"AGR_FORWARD_LEFT", "AGR_FORWARD_RIGHT"} PROVE h.j - g.j < 0 /\ h.j - g.j # 0
    <3>1. 2 * (h.j - g.j) = -3 * n + (g.i % 2) - (h.i % 2)
      BY <2>3, <2>5, SlantedVectors
    <3> QED
      BY <2>2, <3>1, RowsApart
  <2>6. ASSUME d \in {"AGR_BACK_LEFT", "AGR_BACK_RIGHT"} PROVE ~(h.j - g.j < 0) /\ h.j - g.j # 0
    <3>1. 2 * (h.j - g.j) = 3 * n + (g.i % 2) - (h.i % 2)
      BY <2>3, <2>6, SlantedVectors
    <3> QED
      BY <2>2, <3>1, RowsApart
  <2>7. d \in {"AGR_FORWARD_LEFT", "AGR_BACK_LEFT"} => Across(d, "white", n) = -n
    BY SlantedVectors
  <2>8. d \in {"AGR_FORWARD_RIGHT", "AGR_BACK_RIGHT"} => Across(d, "white", n) = n
    BY SlantedVectors
  <2> HIDE DEF x, y
  <2>9. /\ d \in {"AGR_FORWARD_LEFT", "AGR_BACK_LEFT"} => y = x - n
        /\ d \in {"AGR_FORWARD_RIGHT", "AGR_BACK_RIGHT"} => y = x + n
    BY <1>3, <2>4, <2>7, <2>8
  <2>10. h.j # g.j
    BY <1>3, <1>4, <2>5, <2>6 DEF Radial
  <2> QED
    BY <2>1, <2>5, <2>6, <2>9, <2>10
<1>5. CASE h.j = g.j
  <2> DEFINE clear == \A i \in Between(x, y) : (i - x) % 2 = 0 => Free(p, Hex(i, g.j))
  <2>1. AggressorReaches(p, ply) <=> y # x /\ (y - x) % 2 = 0 /\ clear
    BY <1>3, <1>2, <1>5, Zenon DEF AggressorReaches
  <2>2. ASSUME y < x, (y - x) % 2 = 0, clear
        PROVE  Slides(p, g, h, Radial, "white")
    <3> DEFINE n == (x - y) \div 2
    <3> HIDE DEF x, y
    <3>1. n \in 1 .. 8 /\ y = x - 2 * n
      BY <1>3, <2>2
    <3> HIDE DEF n
    <3>2. \A m \in 1 .. n - 1 : m \in 0 .. 8 /\ Free(p, Hex(x - 2 * m, g.j))
      <4>1. \A m \in 1 .. n - 1 : m \in 0 .. 8 /\ x - 2 * m \in Between(x, y) /\ ((x - 2 * m) - x) % 2 = 0
        BY <1>3, <2>2, <3>1 DEF Between
      <4> QED
        BY <2>2, <4>1
    <3>3. h = M!Along(g, "AGR_LEFT", "white", n)
          /\ \A m \in 1 .. n - 1 : Free(p, M!Along(g, "AGR_LEFT", "white", m))
      <4>1. h = Hex(x - 2 * n, g.j)
        BY <1>1, <1>5, <3>1
      <4>2. n \in 0 .. 8
        BY <3>1
      <4> QED
        BY <3>2, <4>1, <4>2, StraightLines DEF x
    <3> QED
      BY <3>1, <3>3 DEF Slides, Radial
  <2>3. ASSUME x < y, (y - x) % 2 = 0, clear
        PROVE  Slides(p, g, h, Radial, "white")
    <3> DEFINE n == (y - x) \div 2
    <3> HIDE DEF x, y
    <3>1. n \in 1 .. 8 /\ y = x + 2 * n
      BY <1>3, <2>3
    <3> HIDE DEF n
    <3>2. \A m \in 1 .. n - 1 : m \in 0 .. 8 /\ Free(p, Hex(x + 2 * m, g.j))
      <4>1. \A m \in 1 .. n - 1 : m \in 0 .. 8 /\ x + 2 * m \in Between(x, y) /\ ((x + 2 * m) - x) % 2 = 0
        BY <1>3, <2>3, <3>1 DEF Between
      <4> QED
        BY <2>3, <4>1
    <3>3. h = M!Along(g, "AGR_RIGHT", "white", n)
          /\ \A m \in 1 .. n - 1 : Free(p, M!Along(g, "AGR_RIGHT", "white", m))
      <4>1. h = Hex(x + 2 * n, g.j)
        BY <1>1, <1>5, <3>1
      <4>2. n \in 0 .. 8
        BY <3>1
      <4> QED
        BY <3>2, <4>1, <4>2, StraightLines DEF x
    <3> QED
      BY <3>1, <3>3 DEF Slides, Radial
  <2>4. ASSUME NEW d \in Radial, NEW n \in 1 .. 8,
               h = M!Along(g, d, "white", n), \A m \in 1 .. n - 1 : Free(p, M!Along(g, d, "white", m))
        PROVE  y # x /\ (y - x) % 2 = 0 /\ clear
    <3>1. d \in {"AGR_LEFT", "AGR_RIGHT"}
      BY <1>4, <1>5, <2>4
    <3>2. CASE d = "AGR_LEFT"
      <4>1. y = x - 2 * n
        BY <2>4, <3>2, StraightLines DEF Hex
      <4>2. \A m \in 1 .. n - 1 : Free(p, Hex(x - 2 * m, g.j))
        BY <2>4, <3>2, StraightLines
      <4> HIDE DEF x, y
      <4>3. y # x /\ (y - x) % 2 = 0 /\ Between(x, y) = y + 1 .. x - 1
        BY <1>3, <4>1 DEF Between
      <4>4. ASSUME NEW i \in Between(x, y), (i - x) % 2 = 0 PROVE Free(p, Hex(i, g.j))
        <5> DEFINE m == (x - i) \div 2
        <5>1. i \in y + 1 .. x - 1
          BY <4>3, <4>4
        <5>2. m \in 1 .. n - 1 /\ x - 2 * m = i
          BY <1>3, <4>1, <4>4, <5>1
        <5> HIDE DEF m
        <5> QED
          BY <4>2, <5>2
      <4> QED
        BY <4>3, <4>4
    <3>3. CASE d = "AGR_RIGHT"
      <4>1. y = x + 2 * n
        BY <2>4, <3>3, StraightLines DEF Hex
      <4>2. \A m \in 1 .. n - 1 : Free(p, Hex(x + 2 * m, g.j))
        BY <2>4, <3>3, StraightLines
      <4> HIDE DEF x, y
      <4>3. y # x /\ (y - x) % 2 = 0 /\ Between(x, y) = x + 1 .. y - 1
        BY <1>3, <4>1 DEF Between
      <4>4. ASSUME NEW i \in Between(x, y), (i - x) % 2 = 0 PROVE Free(p, Hex(i, g.j))
        <5> DEFINE m == (i - x) \div 2
        <5>1. i \in x + 1 .. y - 1
          BY <4>3, <4>4
        <5>2. m \in 1 .. n - 1 /\ x + 2 * m = i
          BY <1>3, <4>1, <4>4, <5>1
        <5> HIDE DEF m
        <5> QED
          BY <4>2, <5>2
      <4> QED
        BY <4>3, <4>4
    <3> QED
      BY <3>1, <3>2, <3>3
  <2>5. y # x => y < x \/ x < y
    BY <1>3
  <2> HIDE DEF clear
  <2> QED
    BY <2>1, <2>2, <2>3, <2>4, <2>5 DEF Slides
<1>6. CASE h.j # g.j
  <2> DEFINE n == IF y < x THEN x - y ELSE y - x
             dir == IF y - x < 0
                      THEN IF h.j - g.j < 0 THEN "AGR_FORWARD_LEFT" ELSE "AGR_BACK_LEFT"
                      ELSE IF h.j - g.j < 0 THEN "AGR_FORWARD_RIGHT" ELSE "AGR_BACK_RIGHT"
  <2>1. AggressorReaches(p, ply) <=> y # x /\ RaycastReaches(p, ply, dir)
    BY <1>3, <1>2, <1>6, Zenon DEF AggressorReaches
  <2>2. dir \in Slanted /\ dir \in Radial
    BY DEF Slanted, Direction, Lateral, ForwardLateral, BackwardLateral, Radial
  <2>3. ASSUME y # x
        PROVE  n \in 1 .. 8 /\ y - x = n * M!Vector[dir][1]
    <3>1. dir \in {"AGR_FORWARD_LEFT", "AGR_BACK_LEFT"} <=> y - x < 0
      OBVIOUS
    <3>2. M!Vector[dir][1] = IF y - x < 0 THEN -1 ELSE 1
      BY VectorIs
    <3> HIDE DEF x, y, dir
    <3> QED
      BY <1>3, <2>3, <3>2
  <2>4. ASSUME y # x
        PROVE  RaycastReaches(p, ply, dir)
                 <=> h = M!Along(g, dir, "white", n) /\ \A m \in 1 .. n - 1 : Free(p, M!Along(g, dir, "white", m))
    <3>1. n \in 1 .. 8 /\ h.i - g.i = n * M!Vector[dir][1]
      BY <2>3, <2>4
    <3> HIDE DEF dir, n
    <3> QED
      BY <2>2, <3>1, RaycastIs
  <2>5. ASSUME NEW d \in Radial, NEW k \in 1 .. 8, h = M!Along(g, d, "white", k)
        PROVE  d = dir /\ k = n /\ y # x
    <3>1. d \notin {"AGR_LEFT", "AGR_RIGHT"}
      BY <2>5, <1>6, StraightLines DEF Hex
    <3>2. /\ d \in {"AGR_FORWARD_LEFT", "AGR_FORWARD_RIGHT"} => h.j - g.j < 0
          /\ d \in {"AGR_BACK_LEFT", "AGR_BACK_RIGHT"} => ~(h.j - g.j < 0)
      BY <1>4, <2>5, <3>1
    <3>3. CASE d \in {"AGR_FORWARD_LEFT", "AGR_BACK_LEFT"}
      <4>1. y = x - k
        BY <1>4, <2>5, <3>1, <3>3
      <4>2. (y - x < 0) /\ y < x /\ k = x - y
        <5> HIDE DEF x, y
        <5> QED
          BY <1>3, <4>1
      <4>3. y # x
        <5> HIDE DEF x, y
        <5> QED
          BY <1>3, <4>1
      <4> QED
        BY <3>2, <3>3, <4>2, <4>3, Zenon
    <3>4. CASE d \in {"AGR_FORWARD_RIGHT", "AGR_BACK_RIGHT"}
      <4>1. y = x + k
        BY <1>4, <2>5, <3>1, <3>4
      <4>2. ~(y - x < 0) /\ ~(y < x) /\ k = y - x
        <5> HIDE DEF x, y
        <5> QED
          BY <1>3, <4>1
      <4>3. y # x
        <5> HIDE DEF x, y
        <5> QED
          BY <1>3, <4>1
      <4> QED
        BY <3>2, <3>4, <4>2, <4>3, Zenon
    <3> QED
      BY <3>1, <3>3, <3>4 DEF Radial
  <2> HIDE DEF dir, n, x, y
  <2> QED
    BY <2>1, <2>2, <2>3, <2>4, <2>5 DEF Slides
<1> QED
  BY <1>5, <1>6

-----------------------------------------------------------------------------
(* What the movement rules allow a piece of each kind. *)

LEMMA Men ==
  ASSUME NEW p \in Position, NEW h \in Hexes
  PROVE  \/ p.piece_arrangement[h] = Empty
         \/ /\ p.piece_arrangement[h].kind \in PieceKind
            /\ p.piece_arrangement[h].color \in PieceColor
            /\ p.piece_arrangement[h] = Piece(p.piece_arrangement[h].kind, p.piece_arrangement[h].color)
<1>1. p.piece_arrangement[h] \in Pieces \cup {Empty}
  BY DEF Position, Arrangement
<1> QED
  BY <1>1 DEF Pieces, Piece

LEMMA NoColor ==
  /\ Empty.color = "none" /\ Empty.kind = "none" /\ "none" \notin PieceColor /\ "none" \notin PieceKind
  /\ "none" \notin Promotion /\ Promotion \subseteq PieceKind
  /\ \A c \in PieceColor : Opposite(c) \in PieceColor /\ Opposite(c) # c
  /\ \A kind, c : Piece(kind, c).kind = kind /\ Piece(kind, c).color = c
BY DEF Empty, Piece, PieceColor, PieceKind, Promotion, Opposite

(* A piece that stops on a hex without changing places. *)
OpenTo(p, h, c) == p.piece_arrangement[h] = Empty \/ p.piece_arrangement[h].color = Opposite(c)

RuleOf(rule, directions, distances, capture, jump, swappable) ==
  /\ rule.directions = directions /\ rule.distances = distances
  /\ rule.can_capture <=> capture
  /\ rule.can_jump <=> jump
  /\ rule.swappable_with = swappable

LEMMA RulesAre ==
  /\ \E rule : M!GetMovementRules["progressor"] = {rule} /\ RuleOf(rule, ForwardLateral, {1}, TRUE, FALSE, {})
  /\ \E rule : M!GetMovementRules["aggressor"] = {rule} /\ RuleOf(rule, Radial, 1 .. 8, TRUE, FALSE, {})
  /\ \E rule : M!GetMovementRules["dominator"] = {rule} /\ RuleOf(rule, Lateral, 1 .. 8, TRUE, FALSE, {})
  /\ \E rule : M!GetMovementRules["defensor"] = {rule} /\ RuleOf(rule, Lateral, {1}, TRUE, FALSE, {"intellector"})
  /\ \E rule : M!GetMovementRules["intellector"] = {rule} /\ RuleOf(rule, Lateral, {1}, TRUE, FALSE, {"defensor"})
  /\ \E step, jump : /\ M!GetMovementRules["liberator"] = {step, jump}
                     /\ RuleOf(step, Lateral, {1}, FALSE, FALSE, {})
                     /\ RuleOf(jump, Lateral, {2}, TRUE, TRUE, {})
<1>1. \A kind \in PieceKind : kind \in M!PieceKind
  BY SamePieces
<1>2. M!Lateral = Lateral /\ M!Radial = Radial /\ M!ForwardLateral = ForwardLateral /\ M!Unlimited = 1 .. 8
  BY SameBoard DEF M!Unlimited
<1>3. \A directions, distances : RuleOf(M!Rule(directions, distances), directions, distances, TRUE, FALSE, {})
  BY DEF RuleOf, M!Rule
<1>4. /\ M!GetMovementRules["progressor"] = {M!Rule(M!ForwardLateral, {1})}
      /\ M!GetMovementRules["aggressor"] = {M!Rule(M!Radial, M!Unlimited)}
      /\ M!GetMovementRules["dominator"] = {M!Rule(M!Lateral, M!Unlimited)}
  BY <1>1 DEF M!GetMovementRules, PieceKind
<1>5. \E rule : M!GetMovementRules["defensor"] = {rule} /\ RuleOf(rule, Lateral, {1}, TRUE, FALSE, {"intellector"})
  <2> DEFINE rule == [M!Rule(M!Lateral, {1}) EXCEPT !.swappable_with = {"intellector"}]
  <2>1. M!GetMovementRules["defensor"] = {rule}
    BY <1>1 DEF M!GetMovementRules, PieceKind
  <2>2. RuleOf(rule, Lateral, {1}, TRUE, FALSE, {"intellector"})
    BY <1>2 DEF RuleOf, M!Rule
  <2> HIDE DEF rule
  <2> QED
    BY <2>1, <2>2
<1>6. \E rule : M!GetMovementRules["intellector"] = {rule} /\ RuleOf(rule, Lateral, {1}, TRUE, FALSE, {"defensor"})
  <2> DEFINE rule == [M!Rule(M!Lateral, {1}) EXCEPT !.swappable_with = {"defensor"}]
  <2>1. M!GetMovementRules["intellector"] = {rule}
    BY <1>1 DEF M!GetMovementRules, PieceKind
  <2>2. RuleOf(rule, Lateral, {1}, TRUE, FALSE, {"defensor"})
    BY <1>2 DEF RuleOf, M!Rule
  <2> HIDE DEF rule
  <2> QED
    BY <2>1, <2>2
<1>7. \E step, jump : /\ M!GetMovementRules["liberator"] = {step, jump}
                      /\ RuleOf(step, Lateral, {1}, FALSE, FALSE, {})
                      /\ RuleOf(jump, Lateral, {2}, TRUE, TRUE, {})
  <2> DEFINE step == [M!Rule(M!Lateral, {1}) EXCEPT !.can_capture = FALSE]
             jump == [M!Rule(M!Lateral, {2}) EXCEPT !.can_jump = TRUE]
  <2>1. M!GetMovementRules["liberator"] = {step, jump}
    BY <1>1 DEF M!GetMovementRules, PieceKind
  <2>2. RuleOf(step, Lateral, {1}, FALSE, FALSE, {}) /\ RuleOf(jump, Lateral, {2}, TRUE, TRUE, {})
    BY <1>2 DEF RuleOf, M!Rule
  <2> HIDE DEF step, jump
  <2> QED
    BY <2>1, <2>2
<1>8. /\ \E rule : M!GetMovementRules["progressor"] = {rule} /\ RuleOf(rule, ForwardLateral, {1}, TRUE, FALSE, {})
      /\ \E rule : M!GetMovementRules["aggressor"] = {rule} /\ RuleOf(rule, Radial, 1 .. 8, TRUE, FALSE, {})
      /\ \E rule : M!GetMovementRules["dominator"] = {rule} /\ RuleOf(rule, Lateral, 1 .. 8, TRUE, FALSE, {})
  BY <1>2, <1>3, <1>4
<1> QED
  BY <1>5, <1>6, <1>7, <1>8

(* A piece ends where a line of one of its rules ends. *)
Ends(p, g, h, rule) ==
  LET mover == p.piece_arrangement[g]
  IN \E d \in rule.directions, n \in rule.distances :
       /\ h = M!Along(g, d, mover.color, n)
       /\ rule.can_jump \/ \A m \in 1 .. n - 1 : Free(p, M!Along(g, d, mover.color, m))
       /\ M!MayEnd(p, mover, h, rule)

LEMMA DestinationsAre ==
  ASSUME NEW p \in Position, NEW g \in Hexes, NEW h
  PROVE  h \in M!Destinations(p, g)
           <=> /\ IsValid(h)
               /\ \E rule \in M!GetMovementRules[p.piece_arrangement[g].kind] : Ends(p, g, h, rule)
<1> DEFINE mover == p.piece_arrangement[g]
           hex(d, n) == M!Along(g, d, mover.color, n)
           open(d, n) == \A m \in 1 .. n - 1 : M!Free(p, hex(d, m))
           allowed(rule) == {dn \in rule.directions \X rule.distances :
                          LET x == hex(dn[1], dn[2])
                          IN /\ M!IsValid(x)
                             /\ rule.can_jump \/ open(dn[1], dn[2])
                             /\ M!MayEnd(p, mover, x, rule)}
<1>1. M!Destinations(p, g) =
        UNION {{hex(dn[1], dn[2]) : dn \in allowed(rule)} : rule \in M!GetMovementRules[mover.kind]}
  BY Zenon DEF M!Destinations
<1>2. ASSUME NEW rule
      PROVE  h \in {hex(dn[1], dn[2]) : dn \in allowed(rule)} <=> IsValid(h) /\ Ends(p, g, h, rule)
  <2>1. ASSUME NEW dn \in allowed(rule), h = hex(dn[1], dn[2])
        PROVE  IsValid(h) /\ Ends(p, g, h, rule)
    <3>1. dn[1] \in rule.directions /\ dn[2] \in rule.distances
      BY <2>1
    <3>2. /\ M!IsValid(h)
          /\ rule.can_jump \/ open(dn[1], dn[2])
          /\ M!MayEnd(p, mover, h, rule)
      BY <2>1
    <3>3. open(dn[1], dn[2]) => \A m \in 1 .. dn[2] - 1 : Free(p, hex(dn[1], m))
      BY SamePieces
    <3> QED
      BY <2>1, <3>1, <3>2, <3>3, SameBoard DEF Ends
  <2>2. ASSUME NEW d \in rule.directions, NEW n \in rule.distances, IsValid(h),
               h = hex(d, n), rule.can_jump \/ \A m \in 1 .. n - 1 : Free(p, hex(d, m)),
               M!MayEnd(p, mover, h, rule)
        PROVE  h \in {hex(dn[1], dn[2]) : dn \in allowed(rule)}
    <3> DEFINE dn == <<d, n>>
    <3>1. dn \in rule.directions \X rule.distances /\ dn[1] = d /\ dn[2] = n
      OBVIOUS
    <3>2. M!IsValid(h) /\ (rule.can_jump \/ open(d, n))
      BY <2>2, SameBoard, SamePieces
    <3>3. dn \in allowed(rule)
      BY <2>2, <3>1, <3>2
    <3> HIDE DEF dn, allowed, hex
    <3> QED
      BY <2>2, <3>1, <3>3
  <2> QED
    BY <2>1, <2>2 DEF Ends
<1> HIDE DEF allowed, hex, open
<1> QED
  BY <1>1, <1>2

Stops(p, g, h, capture, swappable) ==
  LET mover == p.piece_arrangement[g]
      there == p.piece_arrangement[h]
  IN \/ there = Empty
     \/ there.color = mover.color /\ there.kind \in swappable
     \/ there.color = Opposite(mover.color) /\ capture /\ mover.kind # "intellector"

(* What lies on a line of one of the lengths, with nothing in the way. *)
Lines(p, g, h, directions, lengths) ==
  LET c == p.piece_arrangement[g].color
  IN \E d \in directions, n \in lengths :
       h = M!Along(g, d, c, n) /\ \A m \in 1 .. n - 1 : Free(p, M!Along(g, d, c, m))

LEMMA EndsAre ==
  ASSUME NEW p \in Position, NEW g \in Hexes, NEW h, NEW rule,
         NEW D, NEW N, NEW capture, NEW S, RuleOf(rule, D, N, capture, FALSE, S)
  PROVE  Ends(p, g, h, rule) <=> Lines(p, g, h, D, N) /\ Stops(p, g, h, capture, S)
<1>1. M!MayEnd(p, p.piece_arrangement[g], h, rule) <=> Stops(p, g, h, capture, S)
  BY SameBoard, SamePieces DEF M!MayEnd, Stops, RuleOf
<1>2. rule.directions = D /\ rule.distances = N /\ ~rule.can_jump
  BY DEF RuleOf
<1> QED
  BY <1>1, <1>2 DEF Ends, Lines

LEMMA JumpsEnd ==
  ASSUME NEW p \in Position, NEW g \in Hexes, NEW h, NEW rule,
         NEW D, NEW N, NEW S, RuleOf(rule, D, N, TRUE, TRUE, S)
  PROVE  Ends(p, g, h, rule)
           <=> (\E d \in D, n \in N : h = M!Along(g, d, p.piece_arrangement[g].color, n)) /\ Stops(p, g, h, TRUE, S)
<1>1. M!MayEnd(p, p.piece_arrangement[g], h, rule) <=> Stops(p, g, h, TRUE, S)
  BY SameBoard, SamePieces DEF M!MayEnd, Stops, RuleOf
<1>2. rule.directions = D /\ rule.distances = N /\ rule.can_jump
  BY DEF RuleOf
<1> QED
  BY <1>1, <1>2 DEF Ends

(* Nothing is in the way of a single step. *)
LEMMA StepsAreLines ==
  ASSUME NEW p, NEW g, NEW h, NEW D
  PROVE  Lines(p, g, h, D, {1}) <=> \E d \in D : h = M!Along(g, d, p.piece_arrangement[g].color, 1)
BY DEF Lines

(* Where a piece of each kind can go. *)
Goes(p, g, h) ==
  LET kind == p.piece_arrangement[g].kind
      c == p.piece_arrangement[g].color
      there == p.piece_arrangement[h]
  IN \/ kind = "progressor" /\ Advances(g, h, c) /\ OpenTo(p, h, c)
     \/ kind = "aggressor" /\ Slides(p, g, h, Radial, "white") /\ OpenTo(p, h, c)
     \/ kind = "dominator" /\ Slides(p, g, h, Lateral, "white") /\ OpenTo(p, h, c)
     \/ /\ kind = "defensor" /\ IsLateralNeighbourFor(g, h)
        /\ OpenTo(p, h, c) \/ there = Piece("intellector", c)
     \/ /\ kind = "intellector" /\ IsLateralNeighbourFor(g, h)
        /\ there = Empty \/ there = Piece("defensor", c)
     \/ /\ kind = "liberator"
        /\ \/ IsLateralNeighbourFor(g, h) /\ there = Empty
           \/ IsJump(Ply(g, h, "none")) /\ OpenTo(p, h, c)

LEMMA DestinationsGo ==
  ASSUME NEW p \in Position, NEW g \in Hexes, NEW h \in Hexes, p.piece_arrangement[g] # Empty
  PROVE  h \in M!Destinations(p, g) <=> Goes(p, g, h)
<1> DEFINE kind == p.piece_arrangement[g].kind
           c == p.piece_arrangement[g].color
           there == p.piece_arrangement[h]
<1>1. kind \in PieceKind /\ c \in PieceColor
  BY Men
<1>2. h \in M!Destinations(p, g) <=> \E rule \in M!GetMovementRules[kind] : Ends(p, g, h, rule)
  BY DestinationsAre, HexTyped
<1>3. /\ Stops(p, g, h, TRUE, {}) /\ kind # "intellector" <=> OpenTo(p, h, c) /\ kind # "intellector"
      /\ Stops(p, g, h, FALSE, {}) <=> there = Empty
      /\ kind = "defensor" =>
           (Stops(p, g, h, TRUE, {"intellector"}) <=> OpenTo(p, h, c) \/ there = Piece("intellector", c))
      /\ kind = "intellector" =>
           (Stops(p, g, h, TRUE, {"defensor"}) <=> there = Empty \/ there = Piece("defensor", c))
  BY <1>1, Men, NoColor DEF Stops, OpenTo
<1>4. \A D : Lines(p, g, h, D, 1 .. 8) <=> Slides(p, g, h, D, c)
  BY DEF Lines, Slides
<1>5. Lines(p, g, h, Lateral, {1}) <=> IsLateralNeighbourFor(g, h)
  <2>1. Lines(p, g, h, Lateral, {1}) <=> \E d \in Lateral : h = M!Along(g, d, c, 1)
    BY StepsAreLines, Zenon
  <2> QED
    BY <1>1, <2>1, NeighbourIs, Zenon
<1>6. Lines(p, g, h, ForwardLateral, {1}) <=> Advances(g, h, c)
  <2>1. Lines(p, g, h, ForwardLateral, {1}) <=> \E d \in ForwardLateral : h = M!Along(g, d, c, 1)
    BY StepsAreLines, Zenon
  <2> QED
    BY <1>1, <2>1, AdvanceIs, Zenon
<1>7. CASE kind = "progressor"
  <2>1. PICK rule : M!GetMovementRules[kind] = {rule} /\ RuleOf(rule, ForwardLateral, {1}, TRUE, FALSE, {})
    BY <1>7, RulesAre
  <2>2. Ends(p, g, h, rule) <=> Lines(p, g, h, ForwardLateral, {1}) /\ Stops(p, g, h, TRUE, {})
    BY <2>1, EndsAre, Zenon
  <2>3. Ends(p, g, h, rule) <=> Advances(g, h, c) /\ Stops(p, g, h, TRUE, {})
    BY <1>6, <2>2
  <2> QED
    BY <1>2, <1>3, <1>7, <2>1, <2>3 DEF Goes
<1>8. CASE kind = "aggressor"
  <2>1. PICK rule : M!GetMovementRules[kind] = {rule} /\ RuleOf(rule, Radial, 1 .. 8, TRUE, FALSE, {})
    BY <1>8, RulesAre
  <2>2. Ends(p, g, h, rule) <=> Lines(p, g, h, Radial, 1 .. 8) /\ Stops(p, g, h, TRUE, {})
    BY <2>1, EndsAre, Zenon
  <2>3. Slides(p, g, h, Radial, c) <=> Slides(p, g, h, Radial, "white")
    BY <1>1, SlidesAsWhite
  <2> QED
    BY <1>2, <1>3, <1>4, <1>8, <2>1, <2>2, <2>3 DEF Goes
<1>9. CASE kind = "dominator"
  <2>1. PICK rule : M!GetMovementRules[kind] = {rule} /\ RuleOf(rule, Lateral, 1 .. 8, TRUE, FALSE, {})
    BY <1>9, RulesAre
  <2>2. Ends(p, g, h, rule) <=> Lines(p, g, h, Lateral, 1 .. 8) /\ Stops(p, g, h, TRUE, {})
    BY <2>1, EndsAre, Zenon
  <2>3. Slides(p, g, h, Lateral, c) <=> Slides(p, g, h, Lateral, "white")
    BY <1>1, SlidesAsWhite
  <2> QED
    BY <1>2, <1>3, <1>4, <1>9, <2>1, <2>2, <2>3 DEF Goes
<1>10. CASE kind = "defensor"
  <2>1. PICK rule : M!GetMovementRules[kind] = {rule} /\ RuleOf(rule, Lateral, {1}, TRUE, FALSE, {"intellector"})
    BY <1>10, RulesAre
  <2>2. Ends(p, g, h, rule) <=> Lines(p, g, h, Lateral, {1}) /\ Stops(p, g, h, TRUE, {"intellector"})
    BY <2>1, EndsAre, Zenon
  <2>3. Ends(p, g, h, rule) <=> IsLateralNeighbourFor(g, h) /\ Stops(p, g, h, TRUE, {"intellector"})
    BY <1>5, <2>2
  <2> QED
    BY <1>2, <1>3, <1>10, <2>1, <2>3 DEF Goes
<1>11. CASE kind = "intellector"
  <2>1. PICK rule : M!GetMovementRules[kind] = {rule} /\ RuleOf(rule, Lateral, {1}, TRUE, FALSE, {"defensor"})
    BY <1>11, RulesAre
  <2>2. Ends(p, g, h, rule) <=> Lines(p, g, h, Lateral, {1}) /\ Stops(p, g, h, TRUE, {"defensor"})
    BY <2>1, EndsAre, Zenon
  <2>3. Ends(p, g, h, rule) <=> IsLateralNeighbourFor(g, h) /\ Stops(p, g, h, TRUE, {"defensor"})
    BY <1>5, <2>2
  <2> QED
    BY <1>2, <1>3, <1>11, <2>1, <2>3 DEF Goes
<1>12. CASE kind = "liberator"
  <2>1. PICK step, jump : /\ M!GetMovementRules[kind] = {step, jump}
                          /\ RuleOf(step, Lateral, {1}, FALSE, FALSE, {})
                          /\ RuleOf(jump, Lateral, {2}, TRUE, TRUE, {})
    BY <1>12, RulesAre
  <2>2. Ends(p, g, h, step) <=> Lines(p, g, h, Lateral, {1}) /\ Stops(p, g, h, FALSE, {})
    BY <2>1, EndsAre, Zenon
  <2>3. Ends(p, g, h, step) <=> IsLateralNeighbourFor(g, h) /\ Stops(p, g, h, FALSE, {})
    BY <1>5, <2>2
  <2>4. Ends(p, g, h, jump) <=> (\E d \in Lateral, n \in {2} : h = M!Along(g, d, c, n)) /\ Stops(p, g, h, TRUE, {})
    BY <2>1, JumpsEnd, Zenon
  <2>5. Ends(p, g, h, jump) <=> IsJump(Ply(g, h, "none")) /\ Stops(p, g, h, TRUE, {})
    BY <1>1, <2>4, JumpIs
  <2> QED
    BY <1>2, <1>3, <1>12, <2>1, <2>3, <2>5 DEF Goes
<1> QED
  BY <1>1, <1>7, <1>8, <1>9, <1>10, <1>11, <1>12 DEF PieceKind

LEMMA DestinationsOnBoard ==
  ASSUME NEW p \in Position, NEW g \in Hexes, NEW h, p.piece_arrangement[g] # Empty, h \in M!Destinations(p, g)
  PROVE  h \in Hexes
<1> DEFINE kind == p.piece_arrangement[g].kind
           c == p.piece_arrangement[g].color
<1>1. kind \in PieceKind /\ c \in PieceColor
  BY Men
<1>2. PICK rule \in M!GetMovementRules[kind] : IsValid(h) /\ Ends(p, g, h, rule)
  BY DestinationsAre
<1>3. rule.directions \subseteq Direction /\ rule.distances \subseteq Int
  BY <1>1, <1>2, RulesAre DEF RuleOf, PieceKind, Direction, Lateral
<1>4. PICK d \in Direction, n \in Int : h = M!Along(g, d, c, n)
  BY <1>2, <1>3 DEF Ends
<1> QED
  BY <1>1, <1>2, <1>4, AlongIs

LEMMA PlysDiffer ==
  ASSUME NEW g, NEW h, NEW m
  PROVE  /\ Ply(g, h, m).departure = g /\ Ply(g, h, m).destination = h /\ Ply(g, h, m).morph_into = m
         /\ \A x, y, z : Ply(x, y, z) = Ply(g, h, m) => x = g /\ y = h /\ z = m
         /\ \A p : Moving(p, Ply(g, h, m)) = p.piece_arrangement[g] /\ Target(p, Ply(g, h, m)) = p.piece_arrangement[h]
<1>1. Ply(g, h, m).departure = g /\ Ply(g, h, m).destination = h /\ Ply(g, h, m).morph_into = m
  BY DEF Ply
<1>2. ASSUME NEW x, NEW y, NEW z, Ply(x, y, z) = Ply(g, h, m) PROVE x = g /\ y = h /\ z = m
  <2>1. Ply(x, y, z).departure = x /\ Ply(x, y, z).destination = y /\ Ply(x, y, z).morph_into = z
    BY DEF Ply
  <2> QED
    BY <1>1, <1>2, <2>1
<1> QED
  BY <1>1, <1>2 DEF Moving, Target

(* The kinds a piece may end up as, and "none" if it may stay what it is. *)
Becomes(p, g, h, m) ==
  LET kind == p.piece_arrangement[g].kind
      c == p.piece_arrangement[g].color
      taken == p.piece_arrangement[h]
  IN IF kind = "progressor" /\ IsFinalRowFor(h, c)
       THEN m \in Promotion \/ (taken.kind = "intellector" /\ m = "none")
     ELSE \/ m = "none"
          \/ /\ taken.color = Opposite(c) /\ kind \in M!AffectedByAura
             /\ taken.kind \notin {kind, "intellector"} /\ IsHexUnderAura(p, g, c)
             /\ m = taken.kind

LEMMA MorphsAre ==
  ASSUME NEW p \in Position, NEW g \in Hexes, NEW h \in Hexes, NEW m
  PROVE  m \in M!Morphs(p, g, h) <=> Becomes(p, g, h, m)
<1>1. M!UnderAura(p, g, p.piece_arrangement[g].color) <=> IsHexUnderAura(p, g, p.piece_arrangement[g].color)
  BY AuraIs
<1> QED
  BY <1>1, SameBoard, SamePieces DEF M!Morphs, Becomes

LEMMA LegalPly ==
  ASSUME NEW p \in Position, NEW ply
  PROVE  ply \in M!LegalPlys(p)
           <=> \E g \in Hexes, h \in Hexes, m \in MorphInto :
                 /\ ply = Ply(g, h, m) /\ p.piece_arrangement[g].color = p.color_to_move
                 /\ Goes(p, g, h) /\ Becomes(p, g, h, m)
<1>1. p.color_to_move \in PieceColor
  BY DEF Position
<1>2. \A g \in Hexes : p.piece_arrangement[g].color = p.color_to_move => p.piece_arrangement[g] # Empty
  BY <1>1, NoColor
<1>3. ply \in M!LegalPlys(p)
        <=> \E g \in Hexes : /\ p.piece_arrangement[g].color = p.color_to_move
                             /\ \E h \in M!Destinations(p, g) : \E m \in M!Morphs(p, g, h) : ply = Ply(g, h, m)
  BY SameBoard, SamePieces DEF M!LegalPlys
<1>4. ASSUME NEW g \in Hexes, NEW h \in Hexes, NEW m, p.piece_arrangement[g].color = p.color_to_move,
             Becomes(p, g, h, m)
      PROVE  m \in MorphInto
  <2>1. p.piece_arrangement[h] = Empty \/ p.piece_arrangement[h].kind \in PieceKind
    BY Men
  <2>2. p.piece_arrangement[h].color = Opposite(p.color_to_move) => p.piece_arrangement[h] # Empty
    BY <1>1, NoColor
  <2> QED
    BY <1>4, <2>1, <2>2, NoColor DEF Becomes, MorphInto
<1> QED
  BY <1>2, <1>3, <1>4, DestinationsGo, DestinationsOnBoard, MorphsAre

LEMMA Lenient ==
  ASSUME NEW p \in Position, NEW ply
  PROVE  /\ ply \in M!QuietMorphs(p)
              <=> \E g \in Hexes, h \in Hexes, m \in PieceKind :
                    /\ ply = Ply(g, h, m) /\ p.piece_arrangement[g] = Piece("liberator", p.color_to_move)
                    /\ Goes(p, g, h) /\ ~IsJump(ply) /\ p.piece_arrangement[h] = Empty
         /\ ply \in M!OwnPromotions(p)
              <=> \E g \in Hexes, h \in Hexes, m \in Promotion \cup {"none"} :
                    /\ ply = Ply(g, h, m) /\ p.piece_arrangement[g] = Piece("progressor", p.color_to_move)
                    /\ Advances(g, h, p.color_to_move) /\ IsFinalRowFor(h, p.color_to_move)
                    /\ p.piece_arrangement[h].color = p.color_to_move
                    /\ m = "none" => p.piece_arrangement[h].kind = "intellector"
         /\ ply \in M!SwapMorphs(p)
              <=> \E g \in Hexes, h \in Hexes, m \in PieceKind, n \in MorphInto :
                    /\ ply = Ply(g, h, m) /\ Ply(g, h, n) \in M!LegalPlys(p)
                    /\ p.piece_arrangement[g].kind = "defensor" /\ p.piece_arrangement[h].color = p.color_to_move
<1>1. p.color_to_move \in PieceColor
  BY DEF Position
<1>2. ply \in M!QuietMorphs(p)
        <=> \E g \in Hexes, h \in Hexes, m \in PieceKind :
              /\ ply = Ply(g, h, m) /\ p.piece_arrangement[g] = Piece("liberator", p.color_to_move)
              /\ Goes(p, g, h) /\ ~IsJump(ply) /\ p.piece_arrangement[h] = Empty
  <2>1. \A g \in Hexes : p.piece_arrangement[g] = Piece("liberator", p.color_to_move) => p.piece_arrangement[g] # Empty
    BY <1>1, NoColor
  <2>2. ply \in M!QuietMorphs(p)
          <=> /\ \E g \in Hexes : /\ p.piece_arrangement[g] = Piece("liberator", p.color_to_move)
                                  /\ \E h \in M!Destinations(p, g), m \in PieceKind : ply = Ply(g, h, m)
              /\ ~IsJump(ply) /\ Free(p, ply.destination)
    BY SameBoard, SamePieces DEF M!QuietMorphs
  <2> QED
    BY <2>1, <2>2, DestinationsGo, DestinationsOnBoard, PlysDiffer, BoardKnown
<1>3. ply \in M!OwnPromotions(p)
        <=> \E g \in Hexes, h \in Hexes, m \in Promotion \cup {"none"} :
              /\ ply = Ply(g, h, m) /\ p.piece_arrangement[g] = Piece("progressor", p.color_to_move)
              /\ Advances(g, h, p.color_to_move) /\ IsFinalRowFor(h, p.color_to_move)
              /\ p.piece_arrangement[h].color = p.color_to_move
              /\ m = "none" => p.piece_arrangement[h].kind = "intellector"
  <2>1. ply \in M!OwnPromotions(p)
          <=> /\ \E g \in Hexes, d \in ForwardLateral, m \in Promotion \cup {"none"} :
                   /\ p.piece_arrangement[g] = Piece("progressor", p.color_to_move)
                   /\ ply = Ply(g, M!Along(g, d, p.color_to_move, 1), m)
              /\ IsValid(ply.destination) /\ IsFinalRowFor(ply.destination, p.color_to_move)
              /\ Target(p, ply).color = p.color_to_move
              /\ ply.morph_into = "none" => Target(p, ply).kind = "intellector"
    BY SameBoard, SamePieces DEF M!OwnPromotions
  <2>2. \A g \in Hexes, d \in ForwardLateral :
          IsValid(M!Along(g, d, p.color_to_move, 1)) <=> M!Along(g, d, p.color_to_move, 1) \in Hexes
    BY <1>1, AlongIs DEF Direction, Lateral
  <2>3. \A g \in Hexes, h \in Hexes :
          Advances(g, h, p.color_to_move) <=> \E d \in ForwardLateral : h = M!Along(g, d, p.color_to_move, 1)
    BY <1>1, AdvanceIs
  <2> QED
    BY <2>1, <2>2, <2>3, PlysDiffer
<1>4. ply \in M!SwapMorphs(p)
        <=> \E g \in Hexes, h \in Hexes, m \in PieceKind, n \in MorphInto :
              /\ ply = Ply(g, h, m) /\ Ply(g, h, n) \in M!LegalPlys(p)
              /\ p.piece_arrangement[g].kind = "defensor" /\ p.piece_arrangement[h].color = p.color_to_move
  <2>1. ply \in M!SwapMorphs(p)
          <=> \E m \in PieceKind, legal \in M!LegalPlys(p) :
                /\ Moving(p, legal).kind = "defensor" /\ Target(p, legal).color = p.color_to_move
                /\ ply = Ply(legal.departure, legal.destination, m)
    BY SamePieces DEF M!SwapMorphs
  <2> QED
    BY <2>1, LegalPly, PlysDiffer
<1> QED
  BY <1>2, <1>3, <1>4

-----------------------------------------------------------------------------
(* What the validators accept of a piece of each kind. *)

(* ply_validation.py: a piece that captures or moves, under the aura or away from it. *)
LEMMA CaptureIs ==
  ASSUME NEW p \in Position, NEW g \in Hexes, NEW h \in Hexes, NEW m \in MorphInto,
         p.piece_arrangement[g].color \in PieceColor
  PROVE  LET c == p.piece_arrangement[g].color IN
         /\ DerivedKind(p, Ply(g, h, m)) # "swap" <=> OpenTo(p, h, c)
         /\ DerivedKind(p, Ply(g, h, m)) = "normal" <=> p.piece_arrangement[h] = Empty
         /\ CaptureOrNormal(p, Ply(g, h, m), FALSE) <=> OpenTo(p, h, c) /\ m = "none"
         /\ p.piece_arrangement[g].kind \in M!AffectedByAura =>
              (CaptureOrNormal(p, Ply(g, h, m), TRUE) <=> OpenTo(p, h, c) /\ Becomes(p, g, h, m))
<1> DEFINE ply == Ply(g, h, m)
           kind == p.piece_arrangement[g].kind
           c == p.piece_arrangement[g].color
           taken == p.piece_arrangement[h]
<1>1. /\ Moving(p, ply) = p.piece_arrangement[g] /\ Target(p, ply) = taken
      /\ ply.departure = g /\ ply.morph_into = m
  BY PlysDiffer
<1>2. taken # Empty => taken.color \in PieceColor /\ taken.kind \in PieceKind /\ taken = Piece(taken.kind, taken.color)
  BY Men
<1>3. taken.color \in PieceColor => (taken.color # c <=> taken.color = Opposite(c))
  BY DEF PieceColor, Opposite
<1>4. DerivedKind(p, ply) # "swap" <=> OpenTo(p, h, c)
  <2>1. taken = Empty => taken.color # c
    BY NoColor
  <2>2. taken # Empty => (taken.color # c <=> taken.color = Opposite(c))
    BY <1>2, <1>3
  <2> QED
    BY <1>1, <2>1, <2>2 DEF DerivedKind, OpenTo
<1>5. DerivedKind(p, ply) = "normal" <=> taken = Empty
  BY <1>1 DEF DerivedKind
<1>6. CaptureOrNormal(p, ply, FALSE) <=> OpenTo(p, h, c) /\ m = "none"
  BY <1>1, <1>4 DEF CaptureOrNormal
<1>7. ASSUME m # "none" PROVE taken = Piece(m, Opposite(c)) <=> taken.color = Opposite(c) /\ taken.kind = m
  <2>1. taken.color = Opposite(c) => taken # Empty
    BY NoColor
  <2> QED
    BY <1>2, <2>1, NoColor
<1>8. ASSUME kind \in M!AffectedByAura
      PROVE  CaptureOrNormal(p, ply, TRUE) <=> OpenTo(p, h, c) /\ Becomes(p, g, h, m)
  <2>1. kind # "progressor"
    BY <1>8 DEF M!AffectedByAura
  <2>2. Becomes(p, g, h, m)
          <=> \/ m = "none"
              \/ /\ taken.color = Opposite(c) /\ taken.kind \notin {kind, "intellector"}
                 /\ IsHexUnderAura(p, g, c) /\ m = taken.kind
    BY <1>8, <2>1 DEF Becomes
  <2>3. CaptureOrNormal(p, ply, TRUE)
          <=> /\ OpenTo(p, h, c)
              /\ m # "none" => /\ taken = Piece(m, Opposite(c))
                               /\ m \notin {kind, "intellector"} /\ IsHexUnderAura(p, g, c)
    BY <1>1, <1>4 DEF CaptureOrNormal
  <2> QED
    BY <1>7, <2>2, <2>3
<1> QED
  BY <1>4, <1>5, <1>6, <1>8

(* A ply that is legal, or one of the leniencies. *)
Accepted(p, g, h, m) ==
  LET kind == p.piece_arrangement[g].kind
      c == p.piece_arrangement[g].color
      met == p.piece_arrangement[h]
  IN \/ Goes(p, g, h) /\ Becomes(p, g, h, m)
     \/ kind = "liberator" /\ Goes(p, g, h) /\ ~IsJump(Ply(g, h, m)) /\ met = Empty /\ m \in PieceKind
     \/ /\ kind = "progressor" /\ Advances(g, h, c) /\ IsFinalRowFor(h, c)
        /\ met.color = c /\ m \in Promotion \cup {"none"}
        /\ m = "none" => met.kind = "intellector"
     \/ kind = "defensor" /\ Goes(p, g, h) /\ met.color = c /\ m \in PieceKind

LEMMA PossibleIs ==
  ASSUME NEW p \in Position, NEW g \in Hexes, NEW h \in Hexes, NEW m \in MorphInto,
         p.piece_arrangement[g].color = p.color_to_move
  PROVE  IsPlyPossible(p, Ply(g, h, m)) <=> Accepted(p, g, h, m)
<1> DEFINE ply == Ply(g, h, m)
           kind == p.piece_arrangement[g].kind
           c == p.piece_arrangement[g].color
           met == p.piece_arrangement[h]
<1>1. c \in PieceColor /\ kind \in PieceKind
  <2>1. c \in PieceColor
    BY DEF Position
  <2> QED
    BY <2>1, Men, NoColor
<1>2. /\ Moving(p, ply) = p.piece_arrangement[g] /\ Target(p, ply) = met
      /\ ply.departure = g /\ ply.destination = h /\ ply.morph_into = m
  BY PlysDiffer
<1>3. /\ DerivedKind(p, ply) # "swap" <=> OpenTo(p, h, c)
      /\ DerivedKind(p, ply) = "normal" <=> met = Empty
      /\ CaptureOrNormal(p, ply, FALSE) <=> OpenTo(p, h, c) /\ m = "none"
      /\ kind \in M!AffectedByAura =>
           (CaptureOrNormal(p, ply, TRUE) <=> OpenTo(p, h, c) /\ Becomes(p, g, h, m))
  BY <1>1, CaptureIs
<1>4. OpenTo(p, h, c) <=> met.color # c
  <2>1. met = Empty \/ met.color \in PieceColor
    BY Men
  <2>2. Empty.color # c
    BY <1>1, NoColor
  <2>3. met.color \in PieceColor => (met.color # c <=> met.color = Opposite(c))
    BY <1>1 DEF PieceColor, Opposite
  <2>4. met.color \in PieceColor => met # Empty
    BY NoColor
  <2> QED
    BY <2>1, <2>2, <2>3, <2>4 DEF OpenTo
<1>5. m = "none" \/ m \in PieceKind
  BY DEF MorphInto
<1>6. Moving(p, ply).color = p.color_to_move
  BY <1>2
<1> HIDE DEF ply
<1>7. CASE kind = "progressor"
  <2>1. IsPlyPossible(p, ply) <=> ValidateProgressor(p, ply, FALSE)
    BY <1>2, <1>6, <1>7 DEF IsPlyPossible, Validate
  <2>2. ValidateProgressor(p, ply, FALSE)
          <=> /\ Advances(g, h, c)
              /\ IF IsFinalRowFor(h, c) THEN m \notin Promotion => met.kind = "intellector" /\ m = "none"
                                        ELSE CaptureOrNormal(p, ply, FALSE)
    <3>1. ValidateProgressor(p, ply, FALSE)
            <=> /\ h.i - g.i \in -1 .. 1
                /\ h.j - g.j = IF h.i = g.i \/ ((g.i % 2 = 0) = (c = "white"))
                                 THEN IF c = "white" THEN -1 ELSE 1 ELSE 0
                /\ IF IsFinalRowFor(h, c) THEN m \notin Promotion => met.kind = "intellector" /\ m = "none"
                                          ELSE CaptureOrNormal(p, ply, FALSE)
      BY <1>2, Zenon DEF ValidateProgressor, DeltaI, DeltaJ
    <3> QED
      BY <3>1, Zenon DEF Advances
  <2>3. Goes(p, g, h) <=> Advances(g, h, c) /\ OpenTo(p, h, c)
    BY <1>7 DEF Goes
  <2>4. Becomes(p, g, h, m) <=> IF IsFinalRowFor(h, c) THEN m \in Promotion \/ (met.kind = "intellector" /\ m = "none")
                                                       ELSE m = "none"
    BY <1>7 DEF Becomes, M!AffectedByAura
  <2>5. "none" \notin Promotion
    BY NoColor
  <2>6. Accepted(p, g, h, m)
          <=> \/ Goes(p, g, h) /\ Becomes(p, g, h, m)
              \/ /\ Advances(g, h, c) /\ IsFinalRowFor(h, c)
                 /\ met.color = c /\ m \in Promotion \cup {"none"}
                 /\ m = "none" => met.kind = "intellector"
    BY <1>7 DEF Accepted
  <2> HIDE DEF kind, c, met
  <2> QED
    BY <1>3, <1>4, <2>1, <2>2, <2>3, <2>4, <2>5, <2>6 DEF ply, kind, c, met
<1>8. CASE kind \in {"aggressor", "dominator"}
  <2>1. IsPlyPossible(p, ply)
          <=> \/ kind = "aggressor" /\ ValidateAggressor(p, ply)
              \/ kind = "dominator" /\ ValidateDominator(p, ply)
    BY <1>2, <1>6, <1>8 DEF IsPlyPossible, Validate
  <2>2. /\ ValidateAggressor(p, ply) <=> AggressorReaches(p, ply) /\ CaptureOrNormal(p, ply, TRUE)
        /\ ValidateDominator(p, ply) <=> DominatorReaches(p, ply) /\ CaptureOrNormal(p, ply, TRUE)
    BY Zenon DEF ValidateAggressor, AggressorReaches, ValidateDominator, DominatorReaches
  <2>3. /\ AggressorReaches(p, ply) <=> Slides(p, g, h, Radial, "white")
        /\ DominatorReaches(p, ply) <=> Slides(p, g, h, Lateral, "white")
    BY AggressorIs, DominatorIs, Zenon DEF ply
  <2>4. kind \in M!AffectedByAura
    BY <1>8 DEF M!AffectedByAura
  <2>5. Accepted(p, g, h, m) <=> Goes(p, g, h) /\ Becomes(p, g, h, m)
    BY <1>8 DEF Accepted
  <2>6. Goes(p, g, h) <=> \/ kind = "aggressor" /\ Slides(p, g, h, Radial, "white") /\ OpenTo(p, h, c)
                          \/ kind = "dominator" /\ Slides(p, g, h, Lateral, "white") /\ OpenTo(p, h, c)
    BY <1>8 DEF Goes
  <2> QED
    BY <1>3, <2>1, <2>2, <2>3, <2>4, <2>5, <2>6 DEF ply
<1>9. CASE kind = "defensor"
  <2>1. IsPlyPossible(p, ply) <=> ValidateDefensor(p, ply)
    BY <1>2, <1>6, <1>9 DEF IsPlyPossible, Validate
  <2>2. ValidateDefensor(p, ply)
          <=> /\ IsLateralNeighbourFor(g, h)
              /\ IF OpenTo(p, h, c) THEN Becomes(p, g, h, m) ELSE met.kind = "intellector"
    <3>1. kind \in M!AffectedByAura
      BY <1>9 DEF M!AffectedByAura
    <3> QED
      BY <1>2, <1>3, <3>1 DEF ValidateDefensor
  <2>3. ~OpenTo(p, h, c) => (met.kind = "intellector" <=> met = Piece("intellector", c))
    BY <1>1, <1>4, Men, NoColor
  <2>4. Goes(p, g, h) <=> /\ IsLateralNeighbourFor(g, h)
                          /\ OpenTo(p, h, c) \/ met = Piece("intellector", c)
    BY <1>9 DEF Goes
  <2>5. ~OpenTo(p, h, c) => (Becomes(p, g, h, m) <=> m = "none")
    BY <1>1, <1>4, <1>9, NoColor DEF Becomes
  <2>6. Accepted(p, g, h, m)
          <=> \/ Goes(p, g, h) /\ Becomes(p, g, h, m)
              \/ Goes(p, g, h) /\ met.color = c /\ m \in PieceKind
    BY <1>9 DEF Accepted
  <2> QED
    BY <1>4, <1>5, <2>1, <2>2, <2>3, <2>4, <2>5, <2>6 DEF ply
<1>10. CASE kind = "intellector"
  <2>1. IsPlyPossible(p, ply) <=> ValidateIntellector(p, ply)
    BY <1>2, <1>6, <1>10 DEF IsPlyPossible, Validate
  <2>2. ValidateIntellector(p, ply)
          <=> /\ met = Empty \/ met = Piece("defensor", c)
              /\ m = "none" /\ IsLateralNeighbourFor(g, h)
    BY <1>2, <1>3 DEF ValidateIntellector
  <2>3. Becomes(p, g, h, m) <=> m = "none"
    BY <1>10 DEF Becomes, M!AffectedByAura
  <2>4. Goes(p, g, h) <=> /\ IsLateralNeighbourFor(g, h)
                          /\ met = Empty \/ met = Piece("defensor", c)
    BY <1>10 DEF Goes
  <2>5. Accepted(p, g, h, m) <=> Goes(p, g, h) /\ Becomes(p, g, h, m)
    BY <1>10 DEF Accepted
  <2> QED
    BY <2>1, <2>2, <2>3, <2>4, <2>5 DEF ply
<1>11. CASE kind = "liberator"
  <2>1. IsPlyPossible(p, ply) <=> ValidateLiberator(p, ply)
    BY <1>2, <1>6, <1>11 DEF IsPlyPossible, Validate
  <2>2. ValidateLiberator(p, ply)
          <=> IF IsJump(ply) THEN OpenTo(p, h, c) /\ Becomes(p, g, h, m)
                             ELSE met = Empty /\ IsLateralNeighbourFor(g, h)
    <3>1. kind \in M!AffectedByAura
      BY <1>11 DEF M!AffectedByAura
    <3> QED
      BY <1>2, <1>3, <3>1 DEF ValidateLiberator
  <2>3. IsJump(Ply(g, h, "none")) <=> IsJump(ply)
    BY <1>1, JumpIs DEF ply
  <2>4. Goes(p, g, h) <=> \/ IsLateralNeighbourFor(g, h) /\ met = Empty
                          \/ IsJump(ply) /\ OpenTo(p, h, c)
    BY <1>11, <2>3 DEF Goes
  <2>5. met = Empty => OpenTo(p, h, c) /\ (Becomes(p, g, h, m) <=> m = "none")
    BY <1>1, <1>11, NoColor DEF OpenTo, Becomes
  <2>6. Accepted(p, g, h, m)
          <=> \/ Goes(p, g, h) /\ Becomes(p, g, h, m)
              \/ Goes(p, g, h) /\ ~IsJump(ply) /\ met = Empty /\ m \in PieceKind
    BY <1>11 DEF Accepted, ply
  <2> QED
    BY <1>5, <2>1, <2>2, <2>4, <2>5, <2>6 DEF ply
<1> QED
  BY <1>1, <1>7, <1>8, <1>9, <1>10, <1>11 DEF PieceKind

LEMMA PossibleAre ==
  ASSUME NEW p \in Position, NEW ply
  PROVE  ply \in PossiblePlys(p)
           <=> ply \in M!LegalPlys(p) \cup M!QuietMorphs(p) \cup M!OwnPromotions(p) \cup M!SwapMorphs(p)
<1> DEFINE Is(g, h, m) == ply = Ply(g, h, m) /\ p.piece_arrangement[g].color = p.color_to_move
           moves(g) == p.piece_arrangement[g].color = p.color_to_move
<1>1. ply \in PossiblePlys(p)
        <=> \E g \in Hexes, h \in Hexes, m \in MorphInto : Is(g, h, m) /\ Accepted(p, g, h, m)
  <2>1. ply \in PossiblePlys(p)
          <=> \E g \in Hexes, h \in Hexes, m \in MorphInto : Is(g, h, m) /\ IsPlyPossible(p, Ply(g, h, m))
    BY BoardKnown DEF PossiblePlys, PlysOf, Occupied
  <2> QED
    BY <2>1, PossibleIs
<1>2. p.color_to_move \in PieceColor /\ PieceKind \subseteq MorphInto /\ "none" \in MorphInto
      /\ Promotion \cup {"none"} \subseteq MorphInto
  BY NoColor DEF Position, MorphInto
<1>3. \A g \in Hexes : moves(g) =>
        \A kind \in PieceKind : p.piece_arrangement[g] = Piece(kind, p.color_to_move)
                                  <=> p.piece_arrangement[g].kind = kind
  BY <1>2, Men, NoColor
<1>4. \A g \in Hexes : \A kind : p.piece_arrangement[g] = Piece(kind, p.color_to_move) => moves(g)
  BY NoColor
<1>5. /\ "liberator" \in PieceKind /\ "progressor" \in PieceKind
  BY DEF PieceKind
<1>6. ply \in M!LegalPlys(p)
        <=> \E g \in Hexes, h \in Hexes, m \in MorphInto : Is(g, h, m) /\ Goes(p, g, h) /\ Becomes(p, g, h, m)
  BY LegalPly
<1>7. ply \in M!QuietMorphs(p)
        <=> \E g \in Hexes, h \in Hexes, m \in MorphInto :
              /\ Is(g, h, m) /\ p.piece_arrangement[g].kind = "liberator" /\ Goes(p, g, h)
              /\ ~IsJump(Ply(g, h, m)) /\ p.piece_arrangement[h] = Empty /\ m \in PieceKind
  BY <1>2, <1>3, <1>4, <1>5, Lenient
<1>8. ply \in M!OwnPromotions(p)
        <=> \E g \in Hexes, h \in Hexes, m \in MorphInto :
              /\ Is(g, h, m) /\ p.piece_arrangement[g].kind = "progressor"
              /\ Advances(g, h, p.color_to_move) /\ IsFinalRowFor(h, p.color_to_move)
              /\ p.piece_arrangement[h].color = p.color_to_move /\ m \in Promotion \cup {"none"}
              /\ m = "none" => p.piece_arrangement[h].kind = "intellector"
  BY <1>2, <1>3, <1>4, <1>5, Lenient
<1>9. ply \in M!SwapMorphs(p)
        <=> \E g \in Hexes, h \in Hexes, m \in MorphInto :
              /\ Is(g, h, m) /\ p.piece_arrangement[g].kind = "defensor" /\ Goes(p, g, h)
              /\ p.piece_arrangement[h].color = p.color_to_move /\ m \in PieceKind
  <2>1. ASSUME NEW g \in Hexes, NEW h \in Hexes, NEW n \in MorphInto, Ply(g, h, n) \in M!LegalPlys(p)
        PROVE  moves(g) /\ Goes(p, g, h)
    BY <2>1, LegalPly, PlysDiffer
  <2>2. ASSUME NEW g \in Hexes, NEW h \in Hexes, moves(g), Goes(p, g, h),
               p.piece_arrangement[g].kind = "defensor"
        PROVE  Ply(g, h, "none") \in M!LegalPlys(p)
    <3>1. Becomes(p, g, h, "none")
      BY <2>2 DEF Becomes
    <3> QED
      BY <1>2, <2>2, <3>1, LegalPly
  <2>3. ply \in M!SwapMorphs(p)
          <=> \E g \in Hexes, h \in Hexes, m \in PieceKind, n \in MorphInto :
                /\ ply = Ply(g, h, m) /\ Ply(g, h, n) \in M!LegalPlys(p)
                /\ p.piece_arrangement[g].kind = "defensor" /\ p.piece_arrangement[h].color = p.color_to_move
    BY Lenient
  <2> QED
    BY <1>2, <2>1, <2>2, <2>3
<1> QED
  BY <1>1, <1>6, <1>7, <1>8, <1>9 DEF Accepted

-----------------------------------------------------------------------------
(* Pieces off the board are in nobody's way: a ply of a piece on the board  *)
(* is possible as if they were not there.                                   *)

LEMMA BoardTyped ==
  ASSUME NEW S, NEW p \in PositionOver(S)
  PROVE  /\ OnBoard(p) \in Position /\ OnBoard(p).color_to_move = p.color_to_move
         /\ \A h \in Hexes : /\ OnBoard(p).piece_arrangement[h] = p.piece_arrangement[h]
                             /\ Free(OnBoard(p), h) <=> Free(p, h)
                             /\ \A c : h \in Intellectors(OnBoard(p), c) <=> h \in Intellectors(p, c)
                             /\ \A c : h \in Occupied(OnBoard(p), c) <=> h \in Occupied(p, c)
         /\ \A c : Occupied(OnBoard(p), c) \subseteq Hexes
<1> DEFINE b == OnBoard(p)
<1>1. p.piece_arrangement \in [Hexes \cup S -> Pieces \cup {Empty}] /\ p.color_to_move \in PieceColor
  BY PositionsTyped
<1>2. b = [piece_arrangement |-> [h \in Hexes |-> p.piece_arrangement[h]], color_to_move |-> p.color_to_move]
  BY DEF OnBoard, PositionOver
<1>3. b \in Position
  BY <1>1, <1>2 DEF Position, Arrangement
<1>4. Known(b) = Hexes /\ Known(p) = Hexes \cup S /\ b.color_to_move = p.color_to_move
      /\ \A h \in Hexes : b.piece_arrangement[h] = p.piece_arrangement[h]
  BY <1>1, <1>2 DEF Known
<1> HIDE DEF b
<1>5. \A h \in Hexes : /\ Free(b, h) <=> Free(p, h)
                       /\ \A c : h \in Intellectors(b, c) <=> h \in Intellectors(p, c)
                       /\ \A c : h \in Occupied(b, c) <=> h \in Occupied(p, c)
  BY <1>4 DEF Free, Intellectors, Occupied
<1>6. \A c : Occupied(b, c) \subseteq Hexes
  BY <1>4 DEF Occupied
<1> QED
  BY <1>3, <1>4, <1>5, <1>6 DEF b

LEMMA BetweenIs ==
  ASSUME NEW x \in Int, NEW y \in Int, NEW z \in Between(x, y)
  PROVE  z \in Int /\ ((x < z /\ z < y) \/ (y < z /\ z < x))
BY DEF Between

LEMMA BoardPlys ==
  ASSUME NEW S, NEW p \in PositionOver(S), NEW g \in Hexes, NEW h \in Hexes, NEW m
  PROVE  IsPlyPossible(p, Ply(g, h, m)) <=> IsPlyPossible(OnBoard(p), Ply(g, h, m))
<1> DEFINE ply == Ply(g, h, m)
<1> SUFFICES ASSUME NEW b, b = OnBoard(p)
             PROVE  IsPlyPossible(p, ply) <=> IsPlyPossible(b, ply)
  OBVIOUS
<1>1. /\ b.color_to_move = p.color_to_move
      /\ \A x \in Hexes : /\ b.piece_arrangement[x] = p.piece_arrangement[x]
                          /\ Free(b, x) <=> Free(p, x)
                          /\ \A c : x \in Intellectors(b, c) <=> x \in Intellectors(p, c)
  BY BoardTyped
<1>2. ply.departure = g /\ ply.destination = h /\ ply.morph_into = m
  BY DEF Ply
<1>3. Moving(b, ply) = Moving(p, ply) /\ Target(b, ply) = Target(p, ply)
  BY <1>1, <1>2 DEF Moving, Target
<1>4. DerivedKind(b, ply) = DerivedKind(p, ply)
  BY <1>3 DEF DerivedKind
<1>5. ASSUME NEW side PROVE IsHexUnderAura(b, g, side) <=> IsHexUnderAura(p, g, side)
  <2>1. \A d \in Lateral : IsValid(StepTarget(g, d, "white", 1)) => StepTarget(g, d, "white", 1) \in Hexes
    BY WhiteStepIs, AlongIs DEF Direction, PieceColor
  <2> QED
    BY <1>1, <2>1 DEF IsHexUnderAura
<1>6. ASSUME NEW aura PROVE CaptureOrNormal(b, ply, aura) <=> CaptureOrNormal(p, ply, aura)
  BY <1>2, <1>3, <1>4, <1>5 DEF CaptureOrNormal
<1>7. ASSUME NEW d \in Direction PROVE RaycastReaches(b, ply, d) <=> RaycastReaches(p, ply, d)
  <2> DEFINE ray == Ray(g, d, "white")
             along(k) == M!Along(g, d, "white", k)
  <2>1. PICK length \in 0 .. 8 : /\ ray = [k \in 1 .. length |-> along(k)]
                                 /\ \A k \in 1 .. 8 : k <= length <=> IsValid(along(k))
    BY RayIs
  <2>2. \A k \in 1 .. 8 : IsValid(along(k)) <=> along(k) \in Hexes
    BY AlongIs DEF PieceColor
  <2> HIDE DEF along
  <2>3. Len(ray) = length /\ \A k \in 1 .. length : ray[k] \in Hexes
    BY <2>1, <2>2
  <2>4. DeltaI(ply) \in Int
    BY <1>2, HexTyped DEF DeltaI
  <2>5. Size(DeltaI(ply)) \in Nat
    BY <2>4 DEF Size
  <2> HIDE DEF ray
  <2> DEFINE n == Size(DeltaI(ply))
             open(q) == \A k \in 1 .. n - 1 : Free(q, ray[k])
  <2>6. n <= Len(ray) => (open(b) <=> open(p))
    BY <1>1, <2>3, <2>5
  <2>7. /\ RaycastReaches(b, ply, d) <=> n <= Len(ray) /\ open(b) /\ ray[n].j = ply.destination.j
        /\ RaycastReaches(p, ply, d) <=> n <= Len(ray) /\ open(p) /\ ray[n].j = ply.destination.j
    BY <1>2, Zenon DEF RaycastReaches, ray
  <2> HIDE DEF n, open
  <2> QED
    BY <2>6, <2>7
<1>8. ASSUME NEW i \in Between(g.i, h.i), (i - g.i) % 2 = 0
      PROVE  Free(b, Hex(i, g.j)) <=> Free(p, Hex(i, g.j))
  <2>1. /\ g.i \in 0 .. 8 /\ h.i \in 0 .. 8 /\ g.j \in 0 .. 6
        /\ 0 <= 2 * g.j + (g.i % 2) /\ 2 * g.j + (g.i % 2) <= 12
    BY HexTyped
  <2>2. i \in 0 .. 8
    BY <2>1, BetweenIs
  <2> DEFINE x == g.i
  <2>3. x \in 0 .. 8 /\ (i - x) % 2 = 0
    BY <1>8, <2>1
  <2> HIDE DEF x
  <2>4. i % 2 = x % 2
    BY <2>2, <2>3
  <2>5. 0 <= 2 * g.j + (i % 2) /\ 2 * g.j + (i % 2) <= 12
    BY <2>1, <2>4 DEF x
  <2>6. Hex(i, g.j) \in Hexes
    BY <2>1, <2>2, <2>5, WithinBounds
  <2> QED
    BY <1>1, <2>6
<1>9. ASSUME NEW j \in Between(g.j, h.j), g.i = h.i
      PROVE  Free(b, Hex(g.i, j)) <=> Free(p, Hex(g.i, j))
  <2>1. /\ g.i \in 0 .. 8 /\ h.j \in 0 .. 6 /\ g.j \in 0 .. 6 /\ g.i % 2 \in {0, 1}
        /\ 0 <= 2 * g.j + (g.i % 2) /\ 2 * g.j + (g.i % 2) <= 12
        /\ 0 <= 2 * h.j + (g.i % 2) /\ 2 * h.j + (g.i % 2) <= 12
    BY <1>9, HexTyped
  <2>2. j \in Int /\ ((g.j < j /\ j < h.j) \/ (h.j < j /\ j < g.j))
    BY <2>1, BetweenIs
  <2>3. 0 <= 2 * j + (g.i % 2) /\ 2 * j + (g.i % 2) <= 12
    BY <2>1, <2>2
  <2>4. Hex(g.i, j) \in Hexes
    BY <2>1, <2>2, <2>3, WithinBounds
  <2> QED
    BY <1>1, <2>4
<1>10. ValidateProgressor(b, ply, FALSE) <=> ValidateProgressor(p, ply, FALSE)
  BY <1>3, <1>6 DEF ValidateProgressor
<1>11. ValidateDefensor(b, ply) <=> ValidateDefensor(p, ply)
  BY <1>3, <1>4, <1>6 DEF ValidateDefensor
<1>12. ValidateIntellector(b, ply) <=> ValidateIntellector(p, ply)
  BY <1>3, <1>4 DEF ValidateIntellector
<1>13. ValidateLiberator(b, ply) <=> ValidateLiberator(p, ply)
  BY <1>4, <1>6 DEF ValidateLiberator
<1>14. ValidateAggressor(b, ply) <=> ValidateAggressor(p, ply)
  <2> DEFINE towards == IF DeltaI(ply) < 0
                          THEN IF DeltaJ(ply) < 0 THEN "AGR_FORWARD_LEFT" ELSE "AGR_BACK_LEFT"
                          ELSE IF DeltaJ(ply) < 0 THEN "AGR_FORWARD_RIGHT" ELSE "AGR_BACK_RIGHT"
             open(q) == \A i \in Between(ply.departure.i, ply.destination.i) :
                          (i - ply.departure.i) % 2 = 0 => Free(q, Hex(i, ply.departure.j))
  <2>1. towards \in Direction
    BY DEF Direction, Radial
  <2>2. RaycastReaches(b, ply, towards) <=> RaycastReaches(p, ply, towards)
    BY <1>7, <2>1
  <2>3. open(b) <=> open(p)
    BY <1>2, <1>8
  <2>4. \A q : ValidateAggressor(q, ply) <=>
           /\ DeltaI(ply) # 0
           /\ IF DeltaJ(ply) = 0 THEN DeltaI(ply) % 2 = 0 /\ open(q) ELSE RaycastReaches(q, ply, towards)
           /\ CaptureOrNormal(q, ply, TRUE)
    BY Zenon DEF ValidateAggressor
  <2> HIDE DEF towards, open
  <2> QED
    BY <1>6, <2>2, <2>3, <2>4
<1>15. ValidateDominator(b, ply) <=> ValidateDominator(p, ply)
  <2> DEFINE back == DeltaJ(ply) > 0 \/ (DeltaJ(ply) = 0 /\ ply.departure.i % 2 = 0)
             towards == IF DeltaI(ply) < 0 THEN IF back THEN "BACK_LEFT" ELSE "FORWARD_LEFT"
                                           ELSE IF back THEN "BACK_RIGHT" ELSE "FORWARD_RIGHT"
             open(q) == \A j \in Between(ply.departure.j, ply.destination.j) : Free(q, Hex(ply.departure.i, j))
  <2>1. towards \in Direction
    BY DEF Direction, Lateral, ForwardLateral, BackwardLateral
  <2>2. RaycastReaches(b, ply, towards) <=> RaycastReaches(p, ply, towards)
    BY <1>7, <2>1
  <2>3. DeltaI(ply) = 0 => (open(b) <=> open(p))
    <3>1. DeltaI(ply) = 0 => g.i = h.i
      BY <1>2, HexTyped DEF DeltaI
    <3> QED
      BY <1>2, <1>9, <3>1
  <2>4. \A q : ValidateDominator(q, ply) <=>
           /\ IF DeltaI(ply) = 0 THEN DeltaJ(ply) # 0 /\ open(q) ELSE RaycastReaches(q, ply, towards)
           /\ CaptureOrNormal(q, ply, TRUE)
    BY Zenon DEF ValidateDominator
  <2> HIDE DEF back, towards, open
  <2> QED
    BY <1>6, <2>2, <2>3, <2>4
<1>16. Moving(p, ply).kind \in PieceKind => (Validate(b, ply, FALSE) <=> Validate(p, ply, FALSE))
  BY <1>3, <1>10, <1>11, <1>12, <1>13, <1>14, <1>15 DEF Validate, PieceKind
<1>17. Moving(p, ply).color = p.color_to_move => Moving(p, ply).kind \in PieceKind
  <2>1. p.piece_arrangement[g] \in Pieces \cup {Empty} /\ p.color_to_move \in PieceColor
    BY DEF PositionOver
  <2> QED
    BY <1>2, <2>1, NoColor DEF Moving, Pieces
<1> QED
  BY <1>1, <1>3, <1>16, <1>17 DEF IsPlyPossible

(* ply_validation.py, for every position a game reaches from whatever text: *)
(* what it accepts of the pieces on the board is what the movement rules    *)
(* allow and the three leniencies, and nothing of it is refused.            *)
THEOREM RulesAlwaysAccepted == Spec => []AcceptsTheRules
<1>1. TypeOK => AcceptsTheRules
  <2> SUFFICES ASSUME sip \in Sips PROVE AcceptsTheRules
    BY DEF TypeOK
  <2> DEFINE p == CurrentPosition
             b == OnBoard(p)
  <2>1. p \in PositionOver(PlacesRead(sip))
    BY CurrentTyped
  <2> HIDE DEF p
  <2>2. b \in Position /\ b.color_to_move = p.color_to_move
        /\ \A c : Occupied(b, c) = {h \in Hexes : h \in Occupied(p, c)}
    BY <2>1, BoardTyped
  <2>3. \A g \in Hexes, h \in Hexes, m \in MorphInto :
           IsPlyPossible(b, Ply(g, h, m)) <=> IsPlyPossible(p, Ply(g, h, m))
    BY <2>1, BoardPlys
  <2> HIDE DEF b
  <2>4. ASSUME NEW ply
        PROVE  ply \in PossiblePlys(b) <=> ply \in PossiblePlys(p) /\ ply.departure \in Hexes
    <3> DEFINE Of(q) == {h \in Hexes : h \in Occupied(q, p.color_to_move)}
    <3>1. ply \in PossiblePlys(b)
            <=> \E g \in Of(p), h \in Hexes, m \in MorphInto : ply = Ply(g, h, m) /\ IsPlyPossible(b, Ply(g, h, m))
      BY <2>2 DEF PossiblePlys, PlysOf
    <3>2. ply \in PossiblePlys(p) /\ ply.departure \in Hexes
            <=> \E g \in Of(p), h \in Hexes, m \in MorphInto : ply = Ply(g, h, m) /\ IsPlyPossible(p, Ply(g, h, m))
      BY PlysDiffer DEF PossiblePlys, PlysOf
    <3> QED
      BY <2>3, <3>1, <3>2
  <2>5. {ply \in PossiblePlys(p) : ply.departure \in Hexes}
          = M!LegalPlys(b) \cup M!QuietMorphs(b) \cup M!OwnPromotions(b) \cup M!SwapMorphs(b)
    BY <2>2, <2>4, PossibleAre
  <2> QED
    BY <2>1, <2>2, <2>5, Zenon DEF AcceptsTheRules, p, b
<1> QED
  BY <1>1, PlayTypeCorrect, PTL

(* perform_ply does to the board what the movement rules say. *)
LEMMA OutcomeIs ==
  ASSUME NEW p \in Position, NEW g \in Hexes, NEW h \in Hexes, NEW m,
         p.piece_arrangement[g].color = p.color_to_move
  PROVE  PerformPly(p, Ply(g, h, m)) = M!Outcome(p, Ply(g, h, m))
<1> DEFINE ply == Ply(g, h, m)
           mover == p.piece_arrangement[g]
           met == p.piece_arrangement[h]
           put == IF m = "none" THEN mover ELSE Piece(m, mover.color)
           changed == [x \in {g, h} |->
                         IF met.color = mover.color THEN IF x = g THEN met ELSE mover
                         ELSE IF x = g THEN Empty ELSE put]
           after == [p.piece_arrangement EXCEPT
                       ![g] = IF met.color = mover.color THEN met ELSE Empty,
                       ![h] = IF met.color = mover.color THEN mover ELSE put]
<1>1. /\ Moving(p, ply) = mover /\ Target(p, ply) = met
      /\ ply.departure = g /\ ply.destination = h /\ ply.morph_into = m
  BY PlysDiffer
<1>2. DerivedKind(p, ply) = "swap" <=> met.color = mover.color
  <2>1. Empty.color # mover.color
    BY NoColor DEF Position
  <2> QED
    BY <1>1, <2>1 DEF DerivedKind
<1>3. PerformPly(p, ply) = [piece_arrangement |-> after, color_to_move |-> Opposite(p.color_to_move)]
  BY <1>1, <1>2 DEF PerformPly
<1>4. M!Outcome(p, ply) = M!Turn(p, changed)
  BY <1>1, SameBoard, SamePieces DEF M!Outcome
<1>5. after = [x \in Hexes |-> IF x \in {g, h} THEN changed[x] ELSE p.piece_arrangement[x]]
  <2>1. DOMAIN p.piece_arrangement = Hexes
    BY DEF Position, Arrangement
  <2> QED
    BY <2>1
<1>6. DOMAIN changed = {g, h}
  OBVIOUS
<1> HIDE DEF changed, after
<1>7. M!Turn(p, changed) = [piece_arrangement |-> after, color_to_move |-> Opposite(p.color_to_move)]
  BY <1>5, <1>6, SameBoard DEF M!Turn
<1> QED
  BY <1>3, <1>4, <1>7

(* The kind that is asked for has no part in two pieces changing places. *)
LEMMA SwapsIgnoreMorphs ==
  ASSUME NEW p, NEW g, NEW h, NEW m, NEW n, p.piece_arrangement[g].color = p.piece_arrangement[h].color
  PROVE  M!Outcome(p, Ply(g, h, m)) = M!Outcome(p, Ply(g, h, n))
BY PlysDiffer, SamePieces DEF M!Outcome

(* What append_ply_sink stores is what the movement rules, or a leniency, lead to. *)
LEMMA PlysFollow ==
  ASSUME NEW p \in Position, NEW ply \in PossiblePlys(p)
  PROVE  \E legal \in M!LegalPlys(p) \cup M!QuietMorphs(p) \cup M!OwnPromotions(p) :
           PerformPly(p, ply) = M!Outcome(p, legal)
<1>1. PICK g \in Hexes, h \in Hexes, m \in MorphInto :
             ply = Ply(g, h, m) /\ p.piece_arrangement[g].color = p.color_to_move
  BY BoardKnown DEF PossiblePlys, PlysOf, Occupied
<1>2. PerformPly(p, ply) = M!Outcome(p, ply)
  BY <1>1, OutcomeIs
<1>3. CASE ply \in M!LegalPlys(p) \cup M!QuietMorphs(p) \cup M!OwnPromotions(p)
  BY <1>2, <1>3
<1>4. CASE ply \in M!SwapMorphs(p)
  <2>1. PICK n \in MorphInto : /\ Ply(g, h, n) \in M!LegalPlys(p)
                               /\ p.piece_arrangement[h].color = p.color_to_move
    BY <1>1, <1>4, Lenient, PlysDiffer
  <2>2. M!Outcome(p, ply) = M!Outcome(p, Ply(g, h, n))
    BY <1>1, <2>1, SwapsIgnoreMorphs
  <2> QED
    BY <1>2, <2>1, <2>2
<1> QED
  BY <1>3, <1>4, PossibleAre

LEMMA SamePosition == M!Position = Position
BY SameBoard, SamePieces DEF M!Position, Position, M!Arrangement, Arrangement, M!Pieces, Pieces

(* append_ply_sink, from the text before the ply to the text after it: a    *)
(* game in progress follows the movement rules and the three leniencies.    *)
THEOREM PlayFollowsTheRules == Spec => FollowsTheRules
<1>1. TypeOK /\ [Next]_vars => [M!Next]_CurrentPosition
  <2> SUFFICES ASSUME sip \in Sips, [Next]_vars PROVE [M!Next]_CurrentPosition
    BY DEF TypeOK
  <2>1. CASE Next /\ CurrentPosition \in Position
    <3> DEFINE p == CurrentPosition
    <3>1. PICK ply \in PlysOf(p) : IsPlyPossible(p, ply) /\ sip' = GetSip(PerformPly(p, ply))
      BY <2>1, StepIs
    <3>2. ply \in PossiblePlys(p)
      BY <3>1 DEF PossiblePlys
    <3>3. CurrentPosition' = PositionFromSip(GetSip(PerformPly(p, ply)))
      BY <3>1 DEF CurrentPosition
    <3>4. p \in Position /\ \A c \in PieceColor : IsFiniteSet(Occupied(p, c))
      BY <2>1, CurrentTyped
    <3> HIDE DEF p
    <3>5. p \in PositionOver({}) /\ PositionOver({}) = Position
      BY <3>4, PositionIsOver
    <3>6. /\ PerformPly(p, ply) \in Position
          /\ \A c \in PieceColor : IsFiniteSet(Occupied(PerformPly(p, ply), c))
      BY <3>4, <3>5, PerformTyped
    <3>7. CurrentPosition' = PerformPly(p, ply)
      BY <3>3, <3>6, OnBoardRead
    <3>8. PICK legal \in M!LegalPlys(p) \cup M!QuietMorphs(p) \cup M!OwnPromotions(p) :
                 PerformPly(p, ply) = M!Outcome(p, legal)
      BY <3>2, <3>4, PlysFollow
    <3>9. \E other \in M!LegalPlys(p) \cup M!QuietMorphs(p) \cup M!OwnPromotions(p) :
             CurrentPosition' = M!Outcome(p, other)
      BY <3>7, <3>8
    <3> QED
      BY <3>9 DEF M!Next, p
  <2>2. CASE CurrentPosition \notin Position
    BY <2>2, SamePosition DEF M!Next
  <2>3. CASE UNCHANGED vars
    BY <2>3 DEF vars, CurrentPosition
  <2> QED
    BY <2>1, <2>2, <2>3
<1> QED
  BY <1>1, PlayTypeCorrect, PTL DEF Spec, FollowsTheRules, M!Spec

-----------------------------------------------------------------------------
(* What position.py lists for White, and the notation. *)

LEMMA OneStepIs ==
  ASSUME NEW g \in Hexes, NEW D \in SUBSET Direction, NEW h
  PROVE  h \in OneStep(g, D, "white") <=> h \in Hexes /\ \E d \in D : h = M!Along(g, d, "white", 1)
<1>1. \A d \in D : /\ StepTarget(g, d, "white", 1) = M!Along(g, d, "white", 1)
                   /\ IsValid(M!Along(g, d, "white", 1)) <=> M!Along(g, d, "white", 1) \in Hexes
  BY WhiteStepIs, AlongIs DEF PieceColor
<1> QED
  BY <1>1 DEF OneStep

(* The hexes of a ray that White's piece can slide to. *)
LEMMA RayReaches ==
  ASSUME NEW p, NEW g \in Hexes, NEW d \in Direction, NEW h
  PROVE  LET ray == Ray(g, d, "white") IN
         /\ (\E n \in 1 .. Len(ray) : h = ray[n] /\ \A m \in 1 .. n - 1 : Free(p, ray[m]))
              <=> /\ h \in Hexes
                  /\ \E n \in 1 .. 8 : /\ h = M!Along(g, d, "white", n)
                                       /\ \A m \in 1 .. n - 1 : Free(p, M!Along(g, d, "white", m))
         /\ Len(ray) >= 2 /\ h = ray[2] <=> h \in Hexes /\ h = M!Along(g, d, "white", 2)
<1> DEFINE ray == Ray(g, d, "white")
           along(m) == M!Along(g, d, "white", m)
<1>1. PICK length \in 0 .. 8 : /\ ray = [m \in 1 .. length |-> along(m)]
                               /\ \A n \in 1 .. 8 : n <= length <=> IsValid(along(n))
  BY RayIs
<1>2. \A n \in 1 .. 8 : IsValid(along(n)) <=> along(n) \in Hexes
  BY AlongIs DEF PieceColor
<1> HIDE DEF along
<1>3. Len(ray) = length /\ \A m \in 1 .. length : ray[m] = along(m)
  BY <1>1
<1> HIDE DEF ray
<1>4. ASSUME NEW n \in 1 .. Len(ray), h = ray[n], \A m \in 1 .. n - 1 : Free(p, ray[m])
      PROVE  h \in Hexes /\ n \in 1 .. 8 /\ h = along(n) /\ \A m \in 1 .. n - 1 : Free(p, along(m))
  BY <1>1, <1>2, <1>3, <1>4
<1>5. ASSUME NEW n \in 1 .. 8, h = along(n), h \in Hexes, \A m \in 1 .. n - 1 : Free(p, along(m))
      PROVE  n \in 1 .. Len(ray) /\ h = ray[n] /\ \A m \in 1 .. n - 1 : Free(p, ray[m])
  BY <1>1, <1>2, <1>3, <1>5
<1>6. Len(ray) >= 2 /\ h = ray[2] <=> h \in Hexes /\ h = along(2)
  BY <1>1, <1>2, <1>3
<1> QED
  BY <1>4, <1>5, <1>6 DEF ray, along

(* The morphs that are listed: for a progressor on its final row not the    *)
(* capture of an intellector without one, for a liberator's jump also those *)
(* away from the aura.                                                      *)
Listed(p, g, h, m) ==
  LET kind == p.piece_arrangement[g].kind
      c == p.piece_arrangement[g].color
      taken == p.piece_arrangement[h]
  IN CASE kind = "progressor" /\ IsFinalRowFor(h, c) -> m \in Promotion
       [] kind = "liberator" -> \/ m = "none"
                                \/ /\ IsJump(Ply(g, h, m)) /\ taken # Empty
                                   /\ taken.kind \notin {"intellector", kind} /\ m = taken.kind
       [] OTHER -> Becomes(p, g, h, m)

LEMMA AvalancheIs ==
  ASSUME NEW p \in Position, NEW g \in Hexes, NEW D \in SUBSET Direction, NEW aura \in BOOLEAN, NEW ply,
         p.piece_arrangement[g].color = "white"
  PROVE  ply \in CollectAvalanchePlys(p, g, D, aura)
           <=> \E h \in Hexes : LET taken == p.piece_arrangement[h] IN
                 /\ Slides(p, g, h, D, "white") /\ taken.color # "white"
                 /\ \/ ply = Ply(g, h, "none")
                    \/ /\ aura /\ taken # Empty /\ taken.kind \notin {"intellector", p.piece_arrangement[g].kind}
                       /\ ply = Ply(g, h, taken.kind)
<1> DEFINE c == p.piece_arrangement[g].color
           open(ray, n) == \A m \in 1 .. n - 1 : Free(p, ray[m])
           met == UNION {LET ray == Ray(g, d, c)
                         IN {ray[n] : n \in {n \in 1 .. Len(ray) : open(ray, n)}} : d \in D}
           reached == {h \in met : p.piece_arrangement[h].color # c}
           morphing == {h \in reached : /\ aura /\ ~Free(p, h)
                                        /\ p.piece_arrangement[h].kind \notin {"intellector", p.piece_arrangement[g].kind}}
<1>1. CollectAvalanchePlys(p, g, D, aura) =
        {Ply(g, h, "none") : h \in reached} \cup {Ply(g, h, p.piece_arrangement[h].kind) : h \in morphing}
  BY Zenon DEF CollectAvalanchePlys
<1>2. c = "white"
  OBVIOUS
<1> HIDE DEF c
<1>3. ASSUME NEW h PROVE h \in met <=> h \in Hexes /\ Slides(p, g, h, D, "white")
  <2>1. h \in met <=> \E d \in D : LET ray == Ray(g, d, c)
                                   IN \E n \in 1 .. Len(ray) : h = ray[n] /\ open(ray, n)
    OBVIOUS
  <2>2. ASSUME NEW d \in D
        PROVE  (LET ray == Ray(g, d, c) IN \E n \in 1 .. Len(ray) : h = ray[n] /\ open(ray, n))
                 <=> /\ h \in Hexes
                     /\ \E n \in 1 .. 8 : /\ h = M!Along(g, d, "white", n)
                                          /\ \A m \in 1 .. n - 1 : Free(p, M!Along(g, d, "white", m))
    <3>1. d \in Direction
      OBVIOUS
    <3>2. (\E n \in 1 .. Len(Ray(g, d, "white")) :
             h = Ray(g, d, "white")[n] /\ \A m \in 1 .. n - 1 : Free(p, Ray(g, d, "white")[m]))
            <=> /\ h \in Hexes
                /\ \E n \in 1 .. 8 : /\ h = M!Along(g, d, "white", n)
                                     /\ \A m \in 1 .. n - 1 : Free(p, M!Along(g, d, "white", m))
      BY <3>1, RayReaches, Zenon
    <3> QED
      BY <1>2, <3>2
  <2> HIDE DEF met, open
  <2> QED
    BY <2>1, <2>2 DEF Slides
<1> HIDE DEF met
<1> QED
  BY <1>1, <1>2, <1>3, BoardKnown

LEMMA ListedFrom ==
  ASSUME NEW p \in Position, NEW g \in Hexes, NEW ply,
         p.color_to_move = "white", p.piece_arrangement[g].color = "white"
  PROVE  ply \in AvailablePlysFromHex(p, g)
           <=> \E h \in Hexes, m \in MorphInto : ply = Ply(g, h, m) /\ Goes(p, g, h) /\ Listed(p, g, h, m)
<1> DEFINE kind == p.piece_arrangement[g].kind
           taken(h) == p.piece_arrangement[h]
           aura == IsHexUnderAura(p, g, "white")
           near(h) == IsLateralNeighbourFor(g, h)
           takes(h) == taken(h) # Empty /\ taken(h).kind \notin {"intellector", kind}
<1>1. kind \in PieceKind /\ "white" \in PieceColor /\ aura \in BOOLEAN
  BY Men, NoColor DEF PieceColor, IsHexUnderAura
<1>2. \A h \in Hexes : /\ taken(h) = Empty \/ (taken(h).kind \in PieceKind /\ taken(h).color \in PieceColor
                                                 /\ taken(h) = Piece(taken(h).kind, taken(h).color))
                       /\ taken(h).color # "white" <=> OpenTo(p, h, "white")
                       /\ Free(p, h) <=> taken(h) = Empty
  <2>1. ASSUME NEW h \in Hexes PROVE taken(h).color # "white" <=> OpenTo(p, h, "white")
    BY Men, NoColor DEF OpenTo, PieceColor, Opposite
  <2> QED
    BY <2>1, Men, BoardKnown
<1>3. "none" \in MorphInto /\ PieceKind \subseteq MorphInto /\ Promotion \subseteq MorphInto /\ "none" \notin PieceKind
  BY NoColor DEF MorphInto
<1>4. \A h \in Hexes : h \in OneStep(g, Lateral, "white") <=> near(h)
  <2>1. Lateral \in SUBSET Direction
    BY DEF Direction
  <2> QED
    BY <1>1, <2>1, OneStepIs, NeighbourIs
<1>5. \A h : h \in OneStep(g, Lateral, "white") => h \in Hexes
  BY OneStepIs DEF Direction
<1>6. ASSUME NEW h \in Hexes, NEW m, OpenTo(p, h, "white"), kind \in M!AffectedByAura
      PROVE  Becomes(p, g, h, m) <=> m = "none" \/ (aura /\ takes(h) /\ m = taken(h).kind)
  <2>1. taken(h) # Empty <=> taken(h).color = Opposite("white")
    BY <1>1, <1>6, NoColor DEF OpenTo
  <2>2. kind # "progressor"
    BY <1>6 DEF M!AffectedByAura
  <2> QED
    BY <1>6, <2>1, <2>2 DEF Becomes
<1>7. CASE kind \in {"aggressor", "dominator"}
  <2> DEFINE D == IF kind = "aggressor" THEN Radial ELSE Lateral
  <2>1. D \in SUBSET Direction /\ kind \in M!AffectedByAura
    BY <1>7 DEF Direction, M!AffectedByAura
  <2>2. AvailablePlysFromHex(p, g) = CollectAvalanchePlys(p, g, D, aura)
    BY <1>7 DEF AvailablePlysFromHex
  <2>3. \A h : Goes(p, g, h) <=> Slides(p, g, h, D, "white") /\ OpenTo(p, h, "white")
    BY <1>7 DEF Goes
  <2>4. \A h, m : Listed(p, g, h, m) <=> Becomes(p, g, h, m)
    BY <1>7 DEF Listed
  <2>5. ply \in CollectAvalanchePlys(p, g, D, aura)
          <=> \E h \in Hexes : /\ Slides(p, g, h, D, "white") /\ taken(h).color # "white"
                               /\ \/ ply = Ply(g, h, "none")
                                  \/ aura /\ takes(h) /\ ply = Ply(g, h, taken(h).kind)
    BY <1>1, <2>1, AvalancheIs
  <2> HIDE DEF D, aura
  <2>6. ply \in CollectAvalanchePlys(p, g, D, aura)
          <=> \E h \in Hexes, m \in MorphInto : ply = Ply(g, h, m) /\ Goes(p, g, h) /\ Becomes(p, g, h, m)
    BY <1>2, <1>3, <1>6, <2>1, <2>3, <2>5
  <2> QED
    BY <2>2, <2>4, <2>6
<1>8. CASE kind = "intellector"
  <2>1. AvailablePlysFromHex(p, g) = IntellectorPlys(p, g)
    BY <1>8 DEF AvailablePlysFromHex
  <2>2. ply \in IntellectorPlys(p, g)
          <=> \E h \in Hexes : /\ near(h) /\ ply = Ply(g, h, "none")
                               /\ taken(h) = Empty \/ taken(h) = Piece("defensor", "white")
    BY <1>2, <1>4, <1>5 DEF IntellectorPlys
  <2>3. \A h, m : Listed(p, g, h, m) <=> m = "none"
    BY <1>8 DEF Listed, Becomes, M!AffectedByAura
  <2>4. \A h : Goes(p, g, h) <=> near(h) /\ (taken(h) = Empty \/ taken(h) = Piece("defensor", "white"))
    BY <1>8 DEF Goes
  <2> QED
    BY <1>3, <2>1, <2>2, <2>3, <2>4
<1>9. CASE kind = "defensor"
  <2>1. AvailablePlysFromHex(p, g) = DefensorPlys(p, g, aura)
    BY <1>9 DEF AvailablePlysFromHex
  <2>2. ply \in DefensorPlys(p, g, aura)
          <=> \E h \in Hexes : /\ near(h) /\ (taken(h).color # "white" \/ taken(h).kind = "intellector")
                               /\ \/ ply = Ply(g, h, "none")
                                  \/ /\ aura /\ takes(h) /\ taken(h).color # "white"
                                     /\ ply = Ply(g, h, taken(h).kind)
    BY <1>2, <1>4, <1>5, <1>9 DEF DefensorPlys
  <2>3. kind \in M!AffectedByAura /\ \A h, m : Listed(p, g, h, m) <=> Becomes(p, g, h, m)
    BY <1>9 DEF Listed, M!AffectedByAura
  <2>4. \A h : Goes(p, g, h) <=> near(h) /\ (OpenTo(p, h, "white") \/ taken(h) = Piece("intellector", "white"))
    BY <1>9 DEF Goes
  <2>5. ASSUME NEW h \in Hexes
        PROVE  (taken(h).color # "white" \/ taken(h).kind = "intellector")
                 <=> OpenTo(p, h, "white") \/ taken(h) = Piece("intellector", "white")
    BY <1>2, NoColor
  <2>6. ASSUME NEW h \in Hexes, NEW m, ~OpenTo(p, h, "white")
        PROVE  Becomes(p, g, h, m) <=> m = "none"
    BY <1>2, <1>9, <2>6, NoColor DEF Becomes, Opposite
  <2> HIDE DEF aura
  <2> QED
    BY <1>2, <1>3, <1>6, <2>1, <2>2, <2>3, <2>4, <2>5, <2>6
<1>10. CASE kind = "progressor"
  <2>1. AvailablePlysFromHex(p, g) = ProgressorPlys(p, g)
    BY <1>10 DEF AvailablePlysFromHex
  <2>2. \A h : h \in OneStep(g, ForwardLateral, "white") <=> h \in Hexes /\ Advances(g, h, "white")
    <3>1. ForwardLateral \in SUBSET Direction
      BY DEF Direction, Lateral
    <3> QED
      BY <1>1, <3>1, OneStepIs, AdvanceIs
  <2>3. ply \in ProgressorPlys(p, g)
          <=> \E h \in Hexes : /\ Advances(g, h, "white") /\ taken(h).color # "white"
                               /\ \/ ~IsFinalRowFor(h, "white") /\ ply = Ply(g, h, "none")
                                  \/ IsFinalRowFor(h, "white") /\ \E m \in Promotion : ply = Ply(g, h, m)
    BY <2>2 DEF ProgressorPlys
  <2>4. \A h, m : Listed(p, g, h, m) <=> IF IsFinalRowFor(h, "white") THEN m \in Promotion ELSE m = "none"
    BY <1>10 DEF Listed, Becomes, M!AffectedByAura
  <2>5. \A h : Goes(p, g, h) <=> Advances(g, h, "white") /\ OpenTo(p, h, "white")
    BY <1>10 DEF Goes
  <2> QED
    BY <1>2, <1>3, <2>1, <2>3, <2>4, <2>5
<1>11. CASE kind = "liberator"
  <2> DEFINE jump(h) == \E d \in Lateral : h = M!Along(g, d, "white", 2)
  <2>1. AvailablePlysFromHex(p, g) = LiberatorPlys(p, g)
    BY <1>11 DEF AvailablePlysFromHex
  <2>2. \A h : h \in {ray[2] : ray \in {ray \in {Ray(g, d, "white") : d \in Lateral} : Len(ray) >= 2}}
                <=> h \in Hexes /\ jump(h)
    <3>1. \A d \in Lateral : \A h : /\ Len(Ray(g, d, "white")) >= 2
                                    /\ h = Ray(g, d, "white")[2]
                                    <=> h \in Hexes /\ h = M!Along(g, d, "white", 2)
      BY RayReaches, Zenon DEF Direction
    <3> QED
      BY <3>1
  <2> HIDE DEF jump
  <2>3. ply \in LiberatorPlys(p, g)
          <=> \E h \in Hexes :
                \/ near(h) /\ taken(h) = Empty /\ ply = Ply(g, h, "none")
                \/ /\ jump(h) /\ taken(h).color # "white"
                   /\ ply = Ply(g, h, "none") \/ (takes(h) /\ ply = Ply(g, h, taken(h).kind))
    BY <1>2, <1>4, <1>5, <1>11, <2>2 DEF LiberatorPlys
  <2>4. \A h \in Hexes : \A m : IsJump(Ply(g, h, m)) <=> jump(h)
    BY <1>1, JumpIs DEF jump
  <2>5. \A h \in Hexes : \A m : Listed(p, g, h, m) <=> m = "none" \/ (jump(h) /\ takes(h) /\ m = taken(h).kind)
    BY <1>11, <2>4 DEF Listed
  <2>6. \A h \in Hexes : Goes(p, g, h) <=> \/ near(h) /\ taken(h) = Empty
                                           \/ jump(h) /\ OpenTo(p, h, "white")
    BY <1>11, <2>4 DEF Goes
  <2> QED
    BY <1>2, <1>3, <2>1, <2>3, <2>5, <2>6
<1> QED
  BY <1>1, <1>7, <1>8, <1>9, <1>10, <1>11 DEF PieceKind

(* position.py, for every position a game reaches with White to move: what  *)
(* is listed and refused is a morph of a liberator away from the aura; what *)
(* is legal and not listed takes an intellector on the final row.           *)
THEOREM WhitePlysAlwaysListed == Spec => []ListsWhitePlys
<1>1. ASSUME NEW p \in Position, p.color_to_move = "white", NEW ply \in AvailablePlys(p)
      PROVE  IsPlyPossible(p, ply)
               \/ (Moving(p, ply).kind = "liberator" /\ IsJump(ply) /\ ply.morph_into # "none")
  <2>1. PICK g \in Hexes : ply \in AvailablePlysFromHex(p, g)
    BY <1>1, BoardKnown DEF AvailablePlys
  <2>2. p.piece_arrangement[g].color = "white"
    BY <1>1, <2>1 DEF AvailablePlysFromHex
  <2>3. PICK h \in Hexes, m \in MorphInto : ply = Ply(g, h, m) /\ Goes(p, g, h) /\ Listed(p, g, h, m)
    BY <1>1, <2>1, <2>2, ListedFrom
  <2>4. /\ Moving(p, ply) = p.piece_arrangement[g] /\ ply.morph_into = m
        /\ IsPlyPossible(p, ply) <=> Accepted(p, g, h, m)
    BY <1>1, <2>2, <2>3, PossibleIs, PlysDiffer
  <2>5. CASE p.piece_arrangement[g].kind = "liberator"
    <3>1. CASE m = "none"
      <4>1. Becomes(p, g, h, m)
        BY <2>5, <3>1 DEF Becomes
      <4> QED
        BY <2>3, <2>4, <4>1 DEF Accepted
    <3>2. CASE m # "none"
      BY <2>3, <2>4, <2>5, <3>2 DEF Listed
    <3> QED
      BY <3>1, <3>2
  <2>6. CASE p.piece_arrangement[g].kind # "liberator"
    <3>1. Becomes(p, g, h, m)
      BY <2>3, <2>6 DEF Listed, Becomes
    <3> QED
      BY <2>3, <2>4, <3>1 DEF Accepted
  <2> QED
    BY <2>5, <2>6
<1>2. ASSUME NEW p \in Position, p.color_to_move = "white", NEW ply \in M!LegalPlys(p) \ AvailablePlys(p)
      PROVE  /\ Moving(p, ply).kind = "progressor" /\ Target(p, ply).kind = "intellector"
             /\ ply.morph_into = "none" /\ IsFinalRowFor(ply.destination, "white")
  <2>1. PICK g \in Hexes, h \in Hexes, m \in MorphInto :
               /\ ply = Ply(g, h, m) /\ p.piece_arrangement[g].color = p.color_to_move
               /\ Goes(p, g, h) /\ Becomes(p, g, h, m)
    BY <1>2, LegalPly
  <2>2. ~Listed(p, g, h, m)
    BY <1>2, <2>1, ListedFrom, BoardKnown DEF AvailablePlys
  <2>3. /\ Moving(p, ply) = p.piece_arrangement[g] /\ Target(p, ply) = p.piece_arrangement[h]
        /\ ply.destination = h /\ ply.morph_into = m
    BY <2>1, PlysDiffer
  <2>4. p.piece_arrangement[g].kind # "liberator"
    <3>1. ASSUME p.piece_arrangement[g].kind = "liberator", m # "none"
          PROVE  IsJump(Ply(g, h, m)) /\ p.piece_arrangement[h] # Empty
      <4>1. p.piece_arrangement[h].color = Opposite("white")
        BY <1>2, <2>1, <3>1 DEF Becomes
      <4>2. p.piece_arrangement[h] # Empty
        BY <4>1, NoColor DEF PieceColor
      <4>3. IsJump(Ply(g, h, "none"))
        BY <2>1, <3>1, <4>2 DEF Goes
      <4> QED
        BY <4>2, <4>3, JumpIs DEF PieceColor
    <3> QED
      BY <2>1, <2>2, <3>1 DEF Listed, Becomes
  <2>5. /\ p.piece_arrangement[g].kind = "progressor" /\ IsFinalRowFor(h, "white")
        /\ p.piece_arrangement[h].kind = "intellector" /\ m = "none"
    BY <1>2, <2>1, <2>2, <2>4 DEF Listed, Becomes
  <2> QED
    BY <2>3, <2>5
<1>3. ListsWhitePlys
  BY <1>1, <1>2 DEF ListsWhitePlys
<1> QED
  BY <1>3, PTL

(* A hex is written as no other, and a swap as no ply that is not one. *)
LEMMA HexesAreWritten ==
  ASSUME NEW g \in Hexes, NEW h \in Hexes, HexNotation(g) = HexNotation(h)
  PROVE  g = h
<1>1. g.i = h.i /\ 7 - g.j - (g.i % 2) = 7 - h.j - (h.i % 2)
  BY DEF HexNotation
<1>2. g.j \in Int /\ h.j \in Int /\ g.i \in Int /\ g.i % 2 \in Int
  BY HexTyped
<1> DEFINE r == g.i % 2
<1>3. 7 - g.j - r = 7 - h.j - r /\ r \in Int
  BY <1>1, <1>2, Zenon
<1> HIDE DEF r
<1>4. g.j = h.j
  BY <1>2, <1>3
<1> QED
  BY <1>1, <1>4, HexTyped

(* notation.py: two pieces that change places are written as the two hexes, *)
(* in whichever order, so that what is written tells which two.             *)
LEMMA SwapsAreWritten ==
  ASSUME NEW p \in Position, NEW g \in Hexes, NEW h \in Hexes, NEW m, NEW x \in Hexes, NEW y \in Hexes, NEW n,
         DerivedKind(p, Ply(g, h, m)) = "swap", DerivedKind(p, Ply(x, y, n)) = "swap",
         SwapNotation(p, Ply(g, h, m)) = SwapNotation(p, Ply(x, y, n))
  PROVE  PerformPly(p, Ply(g, h, m)) = PerformPly(p, Ply(x, y, n))
<1>1. \A u, v, k : /\ Ply(u, v, k).departure = u /\ Ply(u, v, k).destination = v
                   /\ Moving(p, Ply(u, v, k)) = p.piece_arrangement[u]
                   /\ Target(p, Ply(u, v, k)) = p.piece_arrangement[v]
  BY PlysDiffer
<1>2. (g = x /\ h = y) \/ (g = y /\ h = x)
  <2>1. SwapNotation(p, Ply(g, h, m)) \in {<<HexNotation(g), HexNotation(h)>>, <<HexNotation(h), HexNotation(g)>>}
    BY <1>1 DEF SwapNotation
  <2>2. SwapNotation(p, Ply(x, y, n)) \in {<<HexNotation(x), HexNotation(y)>>, <<HexNotation(y), HexNotation(x)>>}
    BY <1>1 DEF SwapNotation
  <2>3. \/ HexNotation(g) = HexNotation(x) /\ HexNotation(h) = HexNotation(y)
        \/ HexNotation(g) = HexNotation(y) /\ HexNotation(h) = HexNotation(x)
    BY <2>1, <2>2
  <2> QED
    BY <2>3, HexesAreWritten
<1>3. \A u \in Hexes, v \in Hexes : \A k : DerivedKind(p, Ply(u, v, k)) = "swap" =>
        PerformPly(p, Ply(u, v, k)) =
          [piece_arrangement |-> [p.piece_arrangement EXCEPT ![u] = p.piece_arrangement[v],
                                                             ![v] = p.piece_arrangement[u]],
           color_to_move |-> Opposite(p.color_to_move)]
  BY <1>1 DEF PerformPly
<1>4. p.piece_arrangement = [u \in Hexes |-> p.piece_arrangement[u]]
  BY DEF Position, Arrangement
<1>5. \A u \in Hexes, v \in Hexes :
        [p.piece_arrangement EXCEPT ![u] = p.piece_arrangement[v], ![v] = p.piece_arrangement[u]]
        = [p.piece_arrangement EXCEPT ![v] = p.piece_arrangement[u], ![u] = p.piece_arrangement[v]]
  BY <1>4
<1> QED
  BY <1>2, <1>3, <1>5

(* Wherever White's piece can go, some ply of it is listed. *)
LEMMA SomethingIsListed ==
  ASSUME NEW p \in Position, NEW g \in Hexes, NEW h \in Hexes,
         p.color_to_move = "white", p.piece_arrangement[g].color = "white", Goes(p, g, h)
  PROVE  \E other \in AvailablePlysFromHex(p, g) : other.destination = h
<1>1. \E m \in MorphInto : Listed(p, g, h, m)
  <2>1. CASE p.piece_arrangement[g].kind = "progressor" /\ IsFinalRowFor(h, "white")
    <3>1. "dominator" \in Promotion /\ "dominator" \in MorphInto
      BY DEF Promotion, MorphInto, PieceKind
    <3> QED
      BY <2>1, <3>1 DEF Listed
  <2>2. CASE ~(p.piece_arrangement[g].kind = "progressor" /\ IsFinalRowFor(h, "white"))
    <3>1. "none" \in MorphInto /\ Listed(p, g, h, "none")
      BY <2>2 DEF Listed, Becomes, MorphInto
    <3> QED
      BY <3>1
  <2> QED
    BY <2>1, <2>2
<1>2. PICK m \in MorphInto : Listed(p, g, h, m)
  BY <1>1
<1>3. Ply(g, h, m) \in AvailablePlysFromHex(p, g) /\ Ply(g, h, m).destination = h
  BY <1>2, ListedFrom, PlysDiffer
<1> QED
  BY <1>3

LEMMA DifferentPlysAreWritten ==
  ASSUME NEW p \in Position, p.color_to_move = "white",
         NEW a \in PossiblePlys(p), NEW b \in PossiblePlys(p), WritePly(p, a) = WritePly(p, b)
  PROVE  PerformPly(p, a) = PerformPly(p, b)
<1>1. \A ply \in PossiblePlys(p) : \E g \in Hexes, h \in Hexes, m \in MorphInto :
        ply = Ply(g, h, m) /\ p.piece_arrangement[g].color = "white" /\ Accepted(p, g, h, m)
  BY PossibleIs, BoardKnown DEF PossiblePlys, PlysOf, Occupied
<1>2. PICK g \in Hexes, h \in Hexes, m \in MorphInto :
             a = Ply(g, h, m) /\ p.piece_arrangement[g].color = "white" /\ Accepted(p, g, h, m)
  BY <1>1
<1>3. PICK x \in Hexes, y \in Hexes, n \in MorphInto :
             b = Ply(x, y, n) /\ p.piece_arrangement[x].color = "white" /\ Accepted(p, x, y, n)
  BY <1>1
<1>4. /\ a.departure = g /\ a.destination = h /\ a.morph_into = m /\ Moving(p, a) = p.piece_arrangement[g]
      /\ b.departure = x /\ b.destination = y /\ b.morph_into = n /\ Moving(p, b) = p.piece_arrangement[x]
  BY <1>2, <1>3, PlysDiffer
<1> DEFINE tuple(ply) == <<Moving(p, ply).kind,
                           IF NeedsSpecification(p, ply) THEN HexNotation(ply.departure) ELSE <<>>,
                           DerivedKind(p, ply), HexNotation(ply.destination), ply.morph_into,
                           Target(p, ply).kind = "intellector">>
<1>5. \A ply : WritePly(p, ply) = IF DerivedKind(p, ply) = "swap" THEN SwapNotation(p, ply) ELSE tuple(ply)
  BY Zenon DEF WritePly
<1>6. \A u, v : SwapNotation(p, u) # tuple(v)
  <2>1. \A u : Len(SwapNotation(p, u)) = 2
    BY DEF SwapNotation
  <2>2. \A v : Len(tuple(v)) = 6
    OBVIOUS
  <2> HIDE DEF tuple
  <2> QED
    BY <2>1, <2>2
<1>7. CASE DerivedKind(p, a) = "swap" /\ DerivedKind(p, b) = "swap"
  BY <1>2, <1>3, <1>5, <1>7, SwapsAreWritten
<1>8. CASE DerivedKind(p, a) # "swap" /\ DerivedKind(p, b) # "swap"
  <2>1. tuple(a) = tuple(b)
    BY <1>5, <1>8
  <2>2. /\ p.piece_arrangement[g].kind = p.piece_arrangement[x].kind /\ m = n
        /\ HexNotation(h) = HexNotation(y)
        /\ (IF NeedsSpecification(p, a) THEN HexNotation(g) ELSE <<>>)
             = IF NeedsSpecification(p, b) THEN HexNotation(x) ELSE <<>>
    BY <1>4, <2>1
  <2>3. h = y
    BY <2>2, HexesAreWritten
  <2>4. p.piece_arrangement[g] = p.piece_arrangement[x]
    BY <1>2, <1>3, <2>2, Men, NoColor DEF PieceColor
  <2>5. Goes(p, g, h) /\ Goes(p, x, h)
    <3>1. Target(p, a) = p.piece_arrangement[h]
      BY <1>2, PlysDiffer
    <3>2. p.piece_arrangement[h].color # "white"
      BY <1>2, <1>4, <1>8, <3>1, NoColor DEF DerivedKind, PieceColor
    <3> QED
      BY <1>2, <1>3, <2>3, <3>2 DEF Accepted
  <2>6. CASE g = x
    BY <1>2, <1>3, <2>2, <2>3, <2>6
  <2>7. CASE g # x
    <3>1. NeedsSpecification(p, a)
      <4>1. \E other \in AvailablePlysFromHex(p, x) : other.destination = h
        BY <1>3, <2>5, SomethingIsListed
      <4> QED
        BY <1>4, <2>4, <2>7, <4>1, BoardKnown DEF NeedsSpecification
    <3>2. NeedsSpecification(p, b)
      <4>1. \E other \in AvailablePlysFromHex(p, g) : other.destination = h
        BY <1>2, <2>5, SomethingIsListed
      <4> QED
        BY <1>4, <2>3, <2>4, <2>7, <4>1, BoardKnown DEF NeedsSpecification
    <3> QED
      BY <2>2, <2>7, <3>1, <3>2, HexesAreWritten
  <2> QED
    BY <2>6, <2>7
<1> HIDE DEF tuple
<1> QED
  BY <1>5, <1>6, <1>7, <1>8

(* notation.py, for every position a game reaches with White to move: two   *)
(* possible plys that are written alike lead to the same position.          *)
THEOREM NotationAlwaysNamesThePly == Spec => []NotationNamesThePly
<1>1. NotationNamesThePly
  <2>1. ASSUME NEW p \in Position, p.color_to_move = "white", NEW a \in PossiblePlys(p), NEW b \in PossiblePlys(p),
               WritePly(p, a) = WritePly(p, b)
        PROVE  PerformPly(p, a) = PerformPly(p, b)
    BY <2>1, DifferentPlysAreWritten
  <2> QED
    BY <2>1 DEF NotationNamesThePly
<1> QED
  BY <1>1, PTL
=============================================================================
