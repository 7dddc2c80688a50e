-------------------------------- MODULE Play --------------------------------
(***************************************************************************)
(* The line of positions of one game, as append_ply_sink keeps it: the     *)
(* text of the position after the last ply is read back, the ply is        *)
(* validated and performed, and the text of the new position is stored.    *)
(* Game gives the interleaving of the requests that do so; here the        *)
(* positions it takes as given are computed.  A game starts from any text  *)
(* that can be read: create_external_game looks at nothing of it, and      *)
(* validate_startpos only at the finality group, so that pieces may stand  *)
(* off the board and two parts of the text may name one hex.               *)
(***************************************************************************)
EXTENDS Notation, Sip

CONSTANTS
  Start,   \* the texts a game is started from
  MaxPlys  \* bound: the plys of a game

ASSUME StartAssumption ==
  /\ Start \subseteq Sips
  /\ MaxPlys \in Nat

VARIABLES
  sip,       \* sip_after of the last ply, or the start of the game
  ply_count  \* the index of the next ply

vars == <<sip, ply_count>>

\* a custom start is kept as it was sent
Init ==
  /\ sip \in Start
  /\ ply_count = 0

AppendPly(prev_position, ply) ==
  /\ ply_count < MaxPlys
  /\ IsPlyPossible(prev_position, ply)
  /\ sip' = GetSip(PerformPly(prev_position, ply))
  /\ ply_count' = ply_count + 1

\* the departure is any place with a piece, the destination is looked for on the board
PlysOf(p) == {Ply(g, h, morph) : g \in Occupied(p, p.color_to_move), h \in Hexes, morph \in MorphInto}

Next == \E prev_position \in {PositionFromSip(sip)} \cap PositionOver(PlacesRead(sip)) :
          \E ply \in PlysOf(prev_position) : AppendPly(prev_position, ply)

Spec == Init /\ [][Next]_vars
=============================================================================
