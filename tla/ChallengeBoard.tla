--------------------------- MODULE ChallengeBoard ---------------------------
(***************************************************************************)
(* What the challenges promise to their users: a challenge is open until   *)
(* it is closed or played, once, by its caller and one other user.         *)
(***************************************************************************)
EXTENDS Integers, FiniteSets, Sequences

CONSTANTS User, Limit

VARIABLES
  board,   \* the challenges: who calls, whom ("none" for anyone), still open
  played   \* the games: from which challenge, between whom

vars == <<board, played>>

Open(u) == {i \in DOMAIN board : board[i].open /\ board[i].caller = u}

Start == board = <<>> /\ played = <<>>

Post ==
  \E caller \in User, callee \in User \cup {"none"} :
    /\ caller # callee
    /\ Cardinality(Open(caller)) < Limit
    /\ board' = Append(board, [caller |-> caller, callee |-> callee, open |-> TRUE])
    /\ UNCHANGED played

Close ==
  \E i \in DOMAIN board :
    /\ board[i].open
    /\ board' = [board EXCEPT ![i].open = FALSE]
    /\ UNCHANGED played

Play ==
  \E i \in DOMAIN board, acceptor \in User :
    /\ board[i].open
    /\ acceptor # board[i].caller
    /\ board[i].callee \in {"none", acceptor}
    /\ board' = [board EXCEPT ![i].open = FALSE]
    /\ played' = Append(played, [of |-> i, players |-> {board[i].caller, acceptor}])

Spec == Start /\ [][Post \/ Close \/ Play]_vars
=============================================================================
