------------------------------ MODULE Notation ------------------------------
(***************************************************************************)
(* The plys that position.py lists for a hex, and the notation of a ply    *)
(* (serializers/notation.py), which asks for that list to decide whether   *)
(* the departure has to be written.  A notation is kept as the parts it is *)
(* written from; the letters and digits of a hex stand for the hex.        *)
(***************************************************************************)
EXTENDS Rules

\* the first n hexes of a ray that a sliding piece can go to
CollectAvalanchePlys(p, departure, directions, aura_active) ==
  LET moved == p.piece_arrangement[departure]
      open(ray, n) == \A m \in 1 .. n - 1 : Free(p, ray[m])
      met == UNION {LET ray == Ray(departure, d, moved.color)
                    IN {ray[n] : n \in {n \in 1 .. Len(ray) : open(ray, n)}} : d \in directions}
      reached == {h \in met : p.piece_arrangement[h].color # moved.color}
      morphing == {h \in reached : /\ aura_active /\ ~Free(p, h)
                                   /\ p.piece_arrangement[h].kind \notin {"intellector", moved.kind}}
  IN {Ply(departure, h, "none") : h \in reached}
     \cup {Ply(departure, h, p.piece_arrangement[h].kind) : h \in morphing}

\* the hexes one step away in the mover's sense of the directions
OneStep(h, directions, color) ==
  {g \in {StepTarget(h, d, color, 1) : d \in directions} : IsValid(g)}

IntellectorPlys(p, departure) ==
  LET color == p.piece_arrangement[departure].color
  IN {Ply(departure, h, "none") :
        h \in {h \in OneStep(departure, Lateral, color) :
                 Free(p, h) \/ p.piece_arrangement[h] = Piece("defensor", color)}}

\* mutant: the swap with the intellector is not listed
DefensorPlysWithoutSwap(p, departure, aura_active) ==
  LET color == p.piece_arrangement[departure].color
      allowed == {h \in OneStep(departure, Lateral, color) : p.piece_arrangement[h].color # color}
  IN {Ply(departure, h, "none") : h \in allowed}
     \cup {Ply(departure, h, p.piece_arrangement[h].kind) :
             h \in {h \in allowed : /\ aura_active /\ ~Free(p, h)
                                   /\ p.piece_arrangement[h].kind \notin {"intellector", "defensor"}}}

DefensorPlys(p, departure, aura_active) ==
  LET color == p.piece_arrangement[departure].color
      allowed == {h \in OneStep(departure, Lateral, color) :
                    p.piece_arrangement[h].color # color \/ p.piece_arrangement[h].kind = "intellector"}
      morphing == {h \in allowed : /\ aura_active /\ ~Free(p, h)
                                   /\ p.piece_arrangement[h].color # color
                                   /\ p.piece_arrangement[h].kind \notin {"intellector", "defensor"}}
  IN {Ply(departure, h, "none") : h \in allowed}
     \cup {Ply(departure, h, p.piece_arrangement[h].kind) : h \in morphing}

ProgressorPlys(p, departure) ==
  LET color == p.piece_arrangement[departure].color
      allowed == {h \in OneStep(departure, ForwardLateral, color) : p.piece_arrangement[h].color # color}
      final == {h \in allowed : IsFinalRowFor(h, color)}
  IN {Ply(departure, h, "none") : h \in allowed \ final}
     \cup {Ply(departure, h, kind) : h \in final, kind \in Promotion}

\* the jump is looked at only from a hex of the board; the aura is not asked for
LiberatorPlys(p, departure) ==
  LET color == p.piece_arrangement[departure].color
      rays == {Ray(departure, d, color) : d \in Lateral}
      quiet == {h \in OneStep(departure, Lateral, color) : Free(p, h)}
      jumps == {h \in {ray[2] : ray \in {ray \in rays : Len(ray) >= 2}} :
                  p.piece_arrangement[h].color # color}
      morphing == {h \in jumps : /\ ~Free(p, h)
                                 /\ p.piece_arrangement[h].kind \notin {"intellector", "liberator"}}
  IN {Ply(departure, h, "none") : h \in quiet \cup jumps}
     \cup {Ply(departure, h, p.piece_arrangement[h].kind) : h \in morphing}

AvailablePlysFromHex(p, departure) ==
  LET moved == p.piece_arrangement[departure]
      aura_active == IsHexUnderAura(p, departure, moved.color)
  IN IF moved.color # p.color_to_move THEN {}
     ELSE CASE moved.kind = "aggressor"   -> CollectAvalanchePlys(p, departure, Radial, aura_active)
            [] moved.kind = "dominator"   -> CollectAvalanchePlys(p, departure, Lateral, aura_active)
            [] moved.kind = "intellector" -> IntellectorPlys(p, departure)
            [] moved.kind = "defensor"    -> DefensorPlys(p, departure, aura_active)
            [] moved.kind = "progressor"  -> ProgressorPlys(p, departure)
            [] moved.kind = "liberator"   -> LiberatorPlys(p, departure)

AvailablePlys(p) == UNION {AvailablePlysFromHex(p, h) : h \in Known(p)}

-----------------------------------------------------------------------------
(* serializers/notation.py *)

\* a square is written as a letter and a number
HexNotation(h) == <<h.i, 7 - h.j - (h.i % 2)>>

\* mutant: only plys that capture are told apart
NeedsSpecificationOfCapture(p, ply) ==
  /\ DerivedKind(p, ply) = "capture"
  /\ \E h \in Known(p) \ {ply.departure} :
       p.piece_arrangement[h] = Moving(p, ply)
       /\ \E other \in AvailablePlysFromHex(p, h) : other.destination = ply.destination

NeedsSpecification(p, ply) ==
  \E h \in Known(p) \ {ply.departure} :
    /\ p.piece_arrangement[h] = Moving(p, ply)
    /\ \E other \in AvailablePlysFromHex(p, h) : other.destination = ply.destination

\* a swap with the intellector is written from the intellector's hex
SwapNotation(p, ply) ==
  IF Target(p, ply).kind = "intellector"
    THEN <<HexNotation(ply.destination), HexNotation(ply.departure)>>
    ELSE <<HexNotation(ply.departure), HexNotation(ply.destination)>>

WritePly(p, ply) ==
  IF DerivedKind(p, ply) = "swap" THEN SwapNotation(p, ply)
  ELSE <<Moving(p, ply).kind,
         IF NeedsSpecification(p, ply) THEN HexNotation(ply.departure) ELSE <<>>,
         DerivedKind(p, ply),
         HexNotation(ply.destination),
         ply.morph_into,
         Target(p, ply).kind = "intellector">>
=============================================================================
