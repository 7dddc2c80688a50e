----------------------------- MODULE GameRecord -----------------------------
(***************************************************************************)
(* What the tables of a game played here promise to its players: the       *)
(* record of the game is a line of positions with the reserves at each, a  *)
(* running clock, and the takebacks that are offered.  Of a player who      *)
(* changed an offer twice within one second it is in doubt, from then on,  *)
(* whether a takeback is offered.                                          *)
(***************************************************************************)
EXTENDS Integers, Sequences

CONSTANTS Sip, StartSip, Reach, ToMove, Timed, StartMs, Bonus

VARIABLES
  line,   \* the positions after each ply, with the reserves when it was made
  clock,  \* the reserves and whose clock is ticking
  open,   \* the players who have offered a takeback
  doubt   \* the players of whom that cannot be told

record == <<line, clock, open, doubt>>

Players == {"white", "black"}
Position(n) == IF n = 0 THEN StartSip ELSE line[n].sip
Reserves(n) == IF n = 0 THEN StartMs ELSE line[n].ms
Mover == ToMove[Position(Len(line))]

Begin ==
  /\ line = <<>>
  /\ clock = [ms |-> StartMs, ticking |-> "none"]
  /\ open = {} /\ doubt = {}

\* A ply extends the line by one possible ply.  It costs time only to the player
\* whose clock was ticking, who must have some left, and no offer is pending.
Play ==
  /\ open = {} /\ UNCHANGED <<open, doubt>>
  /\ Len(line') = Len(line) + 1
  /\ LET sip == line'[Len(line')].sip
     IN  /\ sip \in Reach[Position(Len(line))]
         /\ line' = Append(line, [sip |-> sip, ms |-> clock'.ms])
         /\ clock'.ticking = IF Timed /\ Len(line) >= 1 THEN ToMove[sip] ELSE "none"
  /\ \A c \in Players :
       IF c = clock.ticking
       THEN c = Mover /\ 0 < clock'.ms[c] /\ clock'.ms[c] <= clock.ms[c]
       ELSE clock'.ms[c] = clock.ms[c]

\* Offers that change may come into doubt, and never leave it.
Doubting(offered) == doubt \subseteq doubt' /\ doubt' \subseteq doubt \cup offered

\* An accepted takeback removes the author's last ply and what was played after
\* it.  It is the author's turn again, with the reserves of that moment.
Takeback ==
  \E author \in open \cup doubt :
    LET n == Len(line) - IF author = Mover THEN 2 ELSE 1
    IN  /\ n >= 0
        /\ line' = SubSeq(line, 1, n)
        /\ open' = {} /\ Doubting(open)
        /\ clock' = [ms |-> Reserves(n), ticking |-> IF Timed /\ n >= 2 THEN author ELSE "none"]

\* Offers are made by one player at a time and can be closed at any time.
OfferTakeback ==
  /\ \E author \in Players \ (open \cup doubt) :
       \/ open' = open \cup {author} /\ UNCHANGED doubt
       \/ doubt' = doubt \cup {author} /\ UNCHANGED open
  /\ UNCHANGED <<line, clock>>
CloseOffers ==
  /\ open' \subseteq open /\ Doubting(open)
  /\ UNCHANGED <<line, clock>>

AddTime ==
  /\ Timed
  /\ \E c \in Players : clock' = [clock EXCEPT !.ms[c] = @ + Bonus]
  /\ UNCHANGED <<line, open, doubt>>

Change == Play \/ Takeback \/ OfferTakeback \/ CloseOffers \/ AddTime

Spec == Begin /\ [][Change]_record
=============================================================================
