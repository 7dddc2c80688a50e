---------------------- MODULE ChallengesImplementBoard ----------------------
(***************************************************************************)
(* The tables of Challenges, read as the board that ChallengeBoard         *)
(* promises.                                                               *)
(***************************************************************************)
EXTENDS Challenges

Board == INSTANCE ChallengeBoard WITH
  Limit  <- MaxActive,
  board  <- [i \in DOMAIN challenges |->
               [caller |-> challenges[i].caller, callee |-> challenges[i].callee,
                open |-> challenges[i].active]],
  played <- [g \in DOMAIN games |->
               [of |-> games[g].of, players |-> {games[g].white, games[g].black}]]

\* One request at a time every commit posts, closes or plays a challenge, and a
\* challenge is closed or played once (accept_challenge, cancel_challenge).
ImplementsBoard == Board!Spec
=============================================================================
