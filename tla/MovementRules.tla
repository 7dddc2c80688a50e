--------------------------- MODULE MovementRules ----------------------------
(***************************************************************************)
(* What the movement rules of rules/piece.py say of a ply, stated without  *)
(* the validators.  A hex is given by its column and by twice its height,  *)
(* so that a direction is one vector wherever it starts, and a colour only *)
(* turns it round.  The server's table PieceKind.get_movement_rules is     *)
(* read by none of its code; here it is the specification of what the      *)
(* validators do.                                                          *)
(***************************************************************************)
EXTENDS Rules

VARIABLE position

Vector ==
  [d \in Direction |->
    CASE d = "FORWARD"          -> <<0, -2>>  [] d = "BACK"            -> <<0, 2>>
      [] d = "FORWARD_LEFT"     -> <<-1, -1>> [] d = "FORWARD_RIGHT"    -> <<1, -1>>
      [] d = "BACK_LEFT"        -> <<-1, 1>>  [] d = "BACK_RIGHT"       -> <<1, 1>>
      [] d = "AGR_LEFT"         -> <<-2, 0>>  [] d = "AGR_RIGHT"        -> <<2, 0>>
      [] d = "AGR_FORWARD_LEFT" -> <<-1, -3>> [] d = "AGR_FORWARD_RIGHT" -> <<1, -3>>
      [] d = "AGR_BACK_LEFT"    -> <<-1, 3>>  [] d = "AGR_BACK_RIGHT"   -> <<1, 3>>]

Height(h) == 2 * h.j + (h.i % 2)

\* the hex n vectors away from h for a piece of colour c
Along(h, d, c, n) ==
  LET i == h.i + ColorSign(c) * n * Vector[d][1]
      height == Height(h) + ColorSign(c) * n * Vector[d][2]
  IN Hex(i, (height - (i % 2)) \div 2)

Unlimited == 1 .. 8
Rule(directions, distances) ==
  [directions |-> directions, distances |-> distances,
   can_capture |-> TRUE, can_jump |-> FALSE, swappable_with |-> {}]

GetMovementRules ==
  [kind \in PieceKind |->
    CASE kind = "progressor"  -> {Rule(ForwardLateral, {1})}
      [] kind = "aggressor"   -> {Rule(Radial, Unlimited)}
      [] kind = "defensor"    -> {[Rule(Lateral, {1}) EXCEPT !.swappable_with = {"intellector"}]}
      [] kind = "liberator"   -> {[Rule(Lateral, {1}) EXCEPT !.can_capture = FALSE],
                                  [Rule(Lateral, {2}) EXCEPT !.can_jump = TRUE]}
      [] kind = "dominator"   -> {Rule(Lateral, Unlimited)}
      [] kind = "intellector" -> {[Rule(Lateral, {1}) EXCEPT !.swappable_with = {"defensor"}]}]

AffectedByAura == {"aggressor", "defensor", "liberator", "dominator"}

\* the intellector takes nothing, which its rule leaves unsaid
MayEnd(p, mover, h, rule) ==
  LET there == p.piece_arrangement[h]
  IN \/ there = Empty
     \/ there.color = mover.color /\ there.kind \in rule.swappable_with
     \/ there.color = Opposite(mover.color) /\ rule.can_capture /\ mover.kind # "intellector"

Destinations(p, departure) ==
  LET mover == p.piece_arrangement[departure]
      hex(d, n) == Along(departure, d, mover.color, n)
      open(d, n) == \A m \in 1 .. n - 1 : Free(p, hex(d, m))
      allowed(rule) == {dn \in rule.directions \X rule.distances :
                          LET h == hex(dn[1], dn[2])
                          IN /\ IsValid(h)
                             /\ rule.can_jump \/ open(dn[1], dn[2])
                             /\ MayEnd(p, mover, h, rule)}
  IN UNION {{hex(dn[1], dn[2]) : dn \in allowed(rule)} : rule \in GetMovementRules[mover.kind]}

UnderAura(p, h, side) ==
  \E g \in Intellectors(p, side), d \in Lateral : g = Along(h, d, "white", 1)

Morphs(p, departure, destination) ==
  LET mover == p.piece_arrangement[departure]
      taken == p.piece_arrangement[destination]
      captures == taken.color = Opposite(mover.color)
  IN IF mover.kind = "progressor" /\ IsFinalRowFor(destination, mover.color)
       THEN Promotion \cup IF taken.kind = "intellector" THEN {"none"} ELSE {}
     ELSE IF /\ captures /\ mover.kind \in AffectedByAura
             /\ taken.kind \notin {mover.kind, "intellector"}
             /\ UnderAura(p, departure, mover.color)
       THEN {"none", taken.kind}
     ELSE {"none"}

LegalPlys(p) ==
  UNION {LET to == Destinations(p, h)
         IN UNION {{Ply(h, g, morph) : morph \in Morphs(p, h, g)} : g \in to}
           : h \in {h \in Hexes : p.piece_arrangement[h].color = p.color_to_move}}

Turn(p, changed) ==
  [piece_arrangement |-> [h \in Hexes |-> IF h \in DOMAIN changed THEN changed[h]
                                          ELSE p.piece_arrangement[h]],
   color_to_move |-> Opposite(p.color_to_move)]

\* two pieces of one colour change places; any other piece moves, and may change its kind
Outcome(p, ply) ==
  LET mover == Moving(p, ply)
      met == Target(p, ply)
  IN Turn(p, [h \in {ply.departure, ply.destination} |->
       IF met.color = mover.color
         THEN IF h = ply.departure THEN met ELSE mover
         ELSE IF h = ply.departure THEN Empty
              ELSE IF ply.morph_into = "none" THEN mover ELSE Piece(ply.morph_into, mover.color)])

-----------------------------------------------------------------------------
(* What the validators let through although no movement rule allows it. *)

\* a liberator that takes a quiet step may become anything
QuietMorphs(p) ==
  {ply \in UNION {{Ply(h, g, morph) : g \in Destinations(p, h), morph \in PieceKind} :
                    h \in {h \in Hexes : p.piece_arrangement[h] = Piece("liberator", p.color_to_move)}} :
     ~IsJump(ply) /\ Free(p, ply.destination)}

\* a progressor that could promote may change places with a piece of its own instead
OwnPromotions(p) ==
  {ply \in {Ply(h, Along(h, d, p.color_to_move, 1), morph) :
              h \in {h \in Hexes : p.piece_arrangement[h] = Piece("progressor", p.color_to_move)},
              d \in ForwardLateral, morph \in Promotion \cup {"none"}} :
     /\ IsValid(ply.destination) /\ IsFinalRowFor(ply.destination, p.color_to_move)
     /\ Target(p, ply).color = p.color_to_move
     /\ ply.morph_into = "none" => Target(p, ply).kind = "intellector"}

\* the kind that is asked for is not looked at when two pieces change places
SwapMorphs(p) ==
  {Ply(ply.departure, ply.destination, morph) :
     morph \in PieceKind,
     ply \in {ply \in LegalPlys(p) : Moving(p, ply).kind = "defensor" /\ Target(p, ply).color = p.color_to_move}}

\* of a position with pieces off the board the rules say nothing
Next == position \in Position =>
          \E ply \in LegalPlys(position) \cup QuietMorphs(position) \cup OwnPromotions(position) :
             position' = Outcome(position, ply)
Spec == [][Next]_position
=============================================================================
