--------------------------- MODULE TokenRegistry ----------------------------
(***************************************************************************)
(* What the rest of the server relies on when it asks who a token stands   *)
(* for: a token stands for one user from the moment it is issued, and a    *)
(* user has at most one.                                                   *)
(***************************************************************************)
CONSTANTS Token, User

VARIABLE owner   \* the users of the tokens issued so far

Range == {owner[t] : t \in DOMAIN owner}

Issue(t, u) ==
  /\ t \notin DOMAIN owner /\ u \notin Range
  /\ owner' = [s \in DOMAIN owner \cup {t} |-> IF s = t THEN u ELSE owner[s]]

Init == owner = [t \in {} |-> {}]
Next == \E t \in Token, u \in User : Issue(t, u)
Spec == Init /\ [][Next]_owner
=============================================================================
