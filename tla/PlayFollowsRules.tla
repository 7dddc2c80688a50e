-------------------------- MODULE PlayFollowsRules --------------------------
(***************************************************************************)
(* Play against the movement rules, and what the plys of the server make   *)
(* of a position.                                                          *)
(***************************************************************************)
EXTENDS Play

CurrentPosition == PositionFromSip(sip)

M == INSTANCE MovementRules WITH position <- CurrentPosition

PossiblePlys(p) == {ply \in PlysOf(p) : IsPlyPossible(p, ply)}
QuietMorph(p, ply) ==
  Moving(p, ply).kind = "liberator" /\ ply.morph_into # "none" /\ ~IsJump(ply)


\* the part of a position that is on the board
OnBoard(p) == [p EXCEPT !.piece_arrangement = [h \in Hexes |-> p.piece_arrangement[h]]]

PieceCount(c) == Cardinality(Occupied(CurrentPosition, c))

\* the same pieces on the same places, the same colour to move
Alike(p, q) ==
  /\ p.color_to_move = q.color_to_move
  /\ \A c \in PieceColor :
       /\ Occupied(p, c) = Occupied(q, c)
       /\ \A h \in Occupied(p, c) : p.piece_arrangement[h] = q.piece_arrangement[h]

-----------------------------------------------------------------------------
(* Whatever text a game starts from, what is stored can be read, and names *)
(* a hex at most once for each colour: the characters that get_sip writes  *)
(* for different hexes are the same or read as different hexes.            *)
TypeOK == sip \in Sips /\ ply_count \in 0 .. MaxPlys

(* A ply takes pieces off the board and never puts one on it: for either   *)
(* colour no step leaves more of them.  A start may name hexes off the     *)
(* board, whose characters get_sip does not write apart and which          *)
(* position_from_sip reads as other hexes, so that storing a ply may move  *)
(* a piece nobody plied, onto another too; even so nobody gains one.       *)
NoPieceIsGained == [][\A c \in PieceColor : PieceCount(c)' <= PieceCount(c)]_vars

(* ply_validation.py refuses what the movement rules forbid: every ply that *)
(* the server stores leads from a position on the board to the position     *)
(* that the rules, or one of the three leniencies named in MovementRules,   *)
(* give.  Two codings of the ply and of the board have to agree for it, and *)
(* reading the text back.                                                   *)
FollowsTheRules == M!Spec

(* ply_validation.py, the other way round: it refuses nothing that the     *)
(* movement rules allow, and what it accepts besides is one of the three   *)
(* leniencies.  Pieces that a start has put off the board make no          *)
(* difference to the plys of those on it.                                  *)
AcceptsTheRules ==
  \E p \in {CurrentPosition} \cap PositionOver(PlacesRead(sip)), b \in {OnBoard(CurrentPosition)} \cap Position :
     {ply \in PossiblePlys(p) : ply.departure \in Hexes} =
       M!LegalPlys(b) \cup M!QuietMorphs(b) \cup M!OwnPromotions(b) \cup M!SwapMorphs(b)

(* The text of a position, of either version, is read back as the position: *)
(* sip_after is all that is kept of the board, and two rows with the same   *)
(* text, which is what has_occured_thrice counts, are the same position.    *)
(* Version 2, in which sip_after is written, has characters of their own    *)
(* for 69 hexes only, ten more than the board has; version 1 for any.       *)
TextIsThePosition ==
  LET p == CurrentPosition
      ReadBack(text) == \E t \in {text} \cap Sips : Alike(PositionFromSip(t), p)
  IN /\ ReadBack(GetV1Sip(p))
     /\ (\A c \in PieceColor : \A h \in Occupied(p, c) : Scalar(h) \in 0 .. 68) => ReadBack(GetSip(p))

(* _get_simple_outcome names the player who has just plied as the winner    *)
(* and takes no note of an invalid position.  From a position that is not   *)
(* final, a ply that is not the quiet morph of a liberator leads to no      *)
(* invalid one, and after a fatum the intellector that is left, after a     *)
(* breakthrough the one on its final row, is the mover's.  This holds for   *)
(* intellectors off the board as well.                                      *)
OutcomeIsTheMovers ==
  \E p \in {CurrentPosition} \cap PositionOver(PlacesRead(sip)) :
     IsValidStarting(p) =>
       \A ply \in PossiblePlys(p) : ~QuietMorph(p, ply) =>
         LET q == PerformPly(p, ply)
             mover == p.color_to_move
         IN /\ GetFinalityGroup(q) # "invalid"
            /\ GetFinalityGroup(q) = "fatum" => Intellectors(q, Opposite(mover)) = {}
            /\ GetFinalityGroup(q) = "breakthrough" =>
                 \E h \in Intellectors(q, mover) : IsFinalRowFor(h, mover)

(* position.py lists the plys of White as the validator accepts them, in a  *)
(* position on the board: what it lists and the validator refuses is a      *)
(* morph of a liberator away from the aura, and what it leaves out is a     *)
(* leniency or the capture of an intellector on the final row without       *)
(* promoting.  (Of Black it does not: step() rounds the wrong way there.)   *)
ListsWhitePlys ==
  \A p \in {CurrentPosition} \cap Position :
     LET listed == AvailablePlys(p) IN
     p.color_to_move = "white" =>
       /\ \A ply \in listed : \/ IsPlyPossible(p, ply)
                              \/ Moving(p, ply).kind = "liberator" /\ IsJump(ply) /\ ply.morph_into # "none"
       /\ \A ply \in M!LegalPlys(p) \ listed :
            /\ Moving(p, ply).kind = "progressor" /\ Target(p, ply).kind = "intellector"
            /\ ply.morph_into = "none" /\ IsFinalRowFor(ply.destination, "white")

(* serializers/notation.py writes two plys of White that lead to different  *)
(* positions differently, in a position on the board: the departure is      *)
(* written whenever another piece of the kind could end there.              *)
NotationNamesThePly ==
  \A p \in {CurrentPosition} \cap Position :
     LET written == [ply \in PossiblePlys(p) |-> WritePly(p, ply)] IN
     p.color_to_move = "white" =>
       \A a, b \in DOMAIN written : written[a] = written[b] => PerformPly(p, a) = PerformPly(p, b)
=============================================================================
