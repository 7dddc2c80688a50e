------------------------------- MODULE MCGame -------------------------------
(***************************************************************************)
(* Small instances of Game: six positions with a repetition (w0-b1-w1-b3-  *)
(* w0), a fork, a fatum and a breakthrough.                                *)
(***************************************************************************)
EXTENDS GameImplementsRecord, TLC

MCSip == {"w0", "w1", "w2", "b1", "b2", "b3"}
MCReach ==
  [s \in MCSip |-> CASE s = "w0" -> {"b1", "b2"}
                     [] s = "w1" -> {"b3"}
                     [] s = "w2" -> {"b3"}
                     [] s = "b1" -> {"w1", "w2"}
                     [] s = "b2" -> {"w1"}
                     [] s = "b3" -> {"w0"}]
MCToMove == [s \in MCSip |-> IF s \in {"w0", "w1", "w2"} THEN "white" ELSE "black"]
MCFinality == [s \in MCSip |-> CASE s = "w2" -> "fatum" [] s = "b3" -> "breakthrough" [] OTHER -> "none"]

\* a single line of play: w0-b1-w1-b3-w0
LineSip == {"w0", "w1", "b1", "b3"}
LineReach == [s \in LineSip |-> CASE s = "w0" -> {"b1"} [] s = "b1" -> {"w1"}
                                 [] s = "w1" -> {"b3"} [] s = "b3" -> {"w0"}]
LineToMove == [s \in LineSip |-> IF s \in {"w0", "w1"} THEN "white" ELSE "black"]
LineFinality == [s \in LineSip |-> "none"]

\* two first plys, to b1 and b3, that both go on to w1 and back to b1
ForkReach == [s \in LineSip |-> CASE s = "w0" -> {"b1", "b3"} [] s = "w1" -> {"b1"}
                                 [] OTHER -> {"w1"}]
ForkFinality == [s \in LineSip |-> IF s = "b3" THEN "fatum" ELSE "none"]

MCRemainders == {[c \in Color |-> 2], [c \in Color |-> IF c = "white" THEN 1 ELSE 0]}
MCNoRemainders == {}
Interchangeable == Permutations(Session)
=============================================================================
