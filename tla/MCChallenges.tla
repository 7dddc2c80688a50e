---------------------------- MODULE MCChallenges ----------------------------
(***************************************************************************)
(* Small instances of Challenges.                                          *)
(***************************************************************************)
EXTENDS ChallengesImplementBoard, TLC

MCTerms == {"blitz", "custom"}
MCPlain == [t \in MCTerms |-> "blitz"]
Pay(kind, callee, color, rated, terms) ==
  [kind |-> kind, callee |-> callee, color |-> color, rated |-> rated, terms |-> terms]

\* every way two requests can suit each other or not
MergingRequests ==
  {Pay("public", "none", c, FALSE, "blitz") : c \in AcceptorColor}
  \cup {Pay("public", "none", "white", TRUE, "custom"), Pay("link_only", "none", "random", FALSE, "blitz")}
  \cup {Pay("direct", u, "black", FALSE, "blitz") : u \in {"ann", "bob"}}
RacingRequests ==
  {Pay("public", "none", "white", FALSE, "blitz"), Pay("link_only", "none", "random", FALSE, "blitz"),
   Pay("direct", "ann", "random", FALSE, "blitz")}
OpenRequests == {Pay("public", "none", "random", FALSE, "blitz")}

Interchangeable == Permutations(Session)
=============================================================================
