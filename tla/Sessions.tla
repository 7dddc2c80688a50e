------------------------------ MODULE Sessions ------------------------------
(***************************************************************************)
(* Guests, signing in, registering and changing a password                 *)
(* (auth/routes.py), on the password rows of the database and on the map   *)
(* from tokens to users that the process keeps (utils/bijective_map.py).   *)
(*                                                                         *)
(* A request reads the password row, awaits, and goes on with what it      *)
(* read; other requests run meanwhile.  The map is changed between two     *)
(* awaits, so in one step.  A request that is refused without having       *)
(* written anything leaves the state as it was: it is a guard that is not  *)
(* met.  bcrypt.hashpw is taken as a function of the password: two hashes  *)
(* are equal if the passwords are.                                         *)
(***************************************************************************)
EXTENDS Integers, FiniteSets

CONSTANTS
  Login, Password, Token,
  Request,   \* the auth requests that can be in progress at the same time
  Admin,     \* the logins with the admin role
  MaxGuests  \* bound: guests after the launch

ASSUME SessionsAssumption == Admin \subseteq Login /\ MaxGuests \in Nat

VARIABLES
  straight,      \* token_to_user.straight, a function on the issued tokens
  inverse,       \* token_to_user.inverse, a function on the users with a token
  last_guest_id,
  passwords,     \* PlayerPassword rows, a function on the registered logins
  auth           \* the requests in progress

sessionVars == <<straight, inverse, last_guest_id, passwords, auth>>

Guest(id) == <<"guest", id>>
Logged(login) == <<"logged", login>>
User == ({"guest"} \X (1 .. MaxGuests)) \cup ({"logged"} \X Login)

Job == [step : {"creating", "granted", "updating"}, login : Login, password : Password]
Idle == [step |-> "idle"]

Put(f, x, v) == [y \in DOMAIN f \cup {x} |-> IF y = x THEN v ELSE f[y]]

-----------------------------------------------------------------------------

\* mutant: a user who has a token is not refused
AddUnchecked(left, right) ==
  straight' = Put(straight, left, right) /\ inverse' = Put(inverse, right, left)

\* mutant: a user who has a token gets the new one in its place
AddReplacing(left, right) ==
  /\ straight' = Put([t \in {t \in DOMAIN straight : straight[t] # right} |-> straight[t]], left, right)
  /\ inverse' = Put(inverse, right, left)

\* BijectiveMap.add, where it does not raise
Add(left, right) ==
  /\ right \notin DOMAIN inverse
  /\ straight' = Put(straight, left, right)
  /\ inverse' = Put(inverse, right, left)

\* mutant: a token may be drawn again
AnyToken == Token

\* token_hex does not repeat itself
FreshToken == Token \ DOMAIN straight

\* mutant: the guest gets the number before the counter is raised
SignInAsLastGuest ==
  /\ last_guest_id < MaxGuests
  /\ last_guest_id' = last_guest_id + 1
  /\ \E token \in FreshToken : Add(token, Guest(last_guest_id))
  /\ UNCHANGED <<passwords, auth>>

SignInAsGuest ==
  /\ last_guest_id < MaxGuests
  /\ last_guest_id' = last_guest_id + 1
  /\ \E token \in FreshToken : Add(token, Guest(last_guest_id'))
  /\ UNCHANGED <<passwords, auth>>

Begin(r, step, login, password) ==
  /\ auth[r] = Idle
  /\ auth' = [auth EXCEPT ![r] = [step |-> step, login |-> login, password |-> password]]

End(r) == auth' = [auth EXCEPT ![r] = Idle]

ReadForSignIn(r, login, password) ==
  /\ login \in DOMAIN passwords /\ passwords[login] = password
  /\ Begin(r, "granted", login, password)
  /\ UNCHANGED <<straight, inverse, last_guest_id, passwords>>

\* mutant: the token is handed out without waiting for the commit
RegisterUncommitted(r, login, password) ==
  /\ login \notin DOMAIN passwords
  /\ Begin(r, "granted", login, password)
  /\ UNCHANGED <<straight, inverse, last_guest_id, passwords>>

ReadForRegister(r, login, password) ==
  /\ login \notin DOMAIN passwords
  /\ Begin(r, "creating", login, password)
  /\ UNCHANGED <<straight, inverse, last_guest_id, passwords>>

\* the primary key refuses a login that another request has registered meanwhile
CommitRegister(r) ==
  /\ auth[r].step = "creating" /\ auth[r].login \notin DOMAIN passwords
  /\ passwords' = Put(passwords, auth[r].login, auth[r].password)
  /\ auth' = [auth EXCEPT ![r].step = "granted"]
  /\ UNCHANGED <<straight, inverse, last_guest_id>>

\* the end of signin and of register
AddLogged(r) ==
  /\ auth[r].step = "granted"
  /\ \E token \in FreshToken : Add(token, Logged(auth[r].login))
  /\ End(r)
  /\ UNCHANGED <<last_guest_id, passwords>>

\* the client is told by its token; its own password, or any as an admin
ReadForUpdate(r, client, login, password) ==
  /\ Logged(client) \in DOMAIN inverse
  /\ client = login \/ client \in Admin
  /\ login \in DOMAIN passwords
  /\ Begin(r, "updating", login, password)
  /\ UNCHANGED <<straight, inverse, last_guest_id, passwords>>

CommitUpdate(r) ==
  /\ auth[r].step = "updating"
  /\ passwords' = Put(passwords, auth[r].login, auth[r].password)
  /\ End(r)
  /\ UNCHANGED <<straight, inverse, last_guest_id>>

\* an exception: a failed commit, or BijectionError for a user who has a token
Abort(r) == auth[r] # Idle /\ End(r) /\ UNCHANGED <<straight, inverse, last_guest_id, passwords>>

\* the process has started: no token is issued, players of before are registered
SessionsInit ==
  /\ straight = [t \in {} |-> {}] /\ inverse = [u \in {} |-> {}]
  /\ last_guest_id = 0
  /\ passwords \in UNION {[registered -> Password] : registered \in SUBSET Login}
  /\ auth = [r \in Request |-> Idle]

SessionsNext ==
  \/ SignInAsGuest
  \/ \E r \in Request, login \in Login, password \in Password :
       \/ ReadForSignIn(r, login, password)
       \/ ReadForRegister(r, login, password)
       \/ \E client \in Login : ReadForUpdate(r, client, login, password)
  \/ \E r \in Request : CommitRegister(r) \/ AddLogged(r) \/ CommitUpdate(r) \/ Abort(r)

SessionsSpec == SessionsInit /\ [][SessionsNext]_sessionVars

-----------------------------------------------------------------------------
SessionsTypeOK ==
  /\ DOMAIN straight \subseteq Token /\ \A t \in DOMAIN straight : straight[t] \in User
  /\ DOMAIN inverse \subseteq User /\ \A u \in DOMAIN inverse : inverse[u] \in Token
  /\ last_guest_id \in 0 .. MaxGuests
  /\ DOMAIN passwords \subseteq Login /\ \A l \in DOMAIN passwords : passwords[l] \in Password
  /\ auth \in [Request -> Job \cup {Idle}]

(* BijectiveMap.add tests only one of the two ways, and nothing but that   *)
(* test keeps the two dictionaries in step when a registration and a       *)
(* sign-in of the same player end one after the other.                     *)
MapsInverse ==
  /\ \A t \in DOMAIN straight : straight[t] \in DOMAIN inverse /\ inverse[straight[t]] = t
  /\ \A u \in DOMAIN inverse : inverse[u] \in DOMAIN straight /\ straight[inverse[u]] = u

(* A token stands for a guest who was numbered after the launch or for a   *)
(* player with a password row, although register hands out the token in a  *)
(* step after the one that commits the row.                                *)
OwnersAreKnown ==
  \A u \in DOMAIN inverse : \/ u[1] = "guest" /\ u[2] \in 1 .. last_guest_id
                            \/ u[1] = "logged" /\ u[2] \in DOMAIN passwords

Registry == INSTANCE TokenRegistry WITH owner <- straight

(* add_logged, and add_guest, issue a token as TokenRegistry says: never   *)
(* one that is in use, and never to a user who has one, whichever requests *)
(* of the user are in progress.                                            *)
IssuesOnce == Registry!Spec
=============================================================================
