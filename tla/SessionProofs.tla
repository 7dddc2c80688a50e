--------------------------- MODULE SessionProofs ----------------------------
(***************************************************************************)
(* Proofs about Sessions: the two dictionaries stay inverse to each other, *)
(* a token stands for someone the server knows, and the issuing of tokens  *)
(* implements TokenRegistry, for any numbers of users, tokens and requests *)
(* in progress.                                                            *)
(***************************************************************************)
EXTENDS Sessions, TLAPS

\* what is needed besides: a request that goes on to issue a token has a player
GrantedAreRegistered ==
  \A r \in Request : auth[r].step = "granted" => auth[r].login \in DOMAIN passwords

SessionsInv == SessionsTypeOK /\ MapsInverse /\ OwnersAreKnown /\ GrantedAreRegistered

MapsTyped ==
  /\ DOMAIN straight \subseteq Token /\ \A t \in DOMAIN straight : straight[t] \in User
  /\ DOMAIN inverse \subseteq User /\ \A u \in DOMAIN inverse : inverse[u] \in Token

-----------------------------------------------------------------------------
(* BijectiveMap.add keeps the dictionaries inverse to each other when the token is a new one. *)
LEMMA AddKeepsInverse ==
  ASSUME MapsTyped, MapsInverse, NEW t \in FreshToken, NEW u \in User, Add(t, u)
  PROVE  MapsTyped' /\ MapsInverse' /\ DOMAIN inverse' = DOMAIN inverse \cup {u}
<1>1. t \in Token /\ t \notin DOMAIN straight /\ u \notin DOMAIN inverse
  BY DEF FreshToken, Add
<1>2. /\ DOMAIN straight' = DOMAIN straight \cup {t} /\ straight'[t] = u
      /\ \A s \in DOMAIN straight : straight'[s] = straight[s]
  BY <1>1 DEF Add, Put
<1>3. /\ DOMAIN inverse' = DOMAIN inverse \cup {u} /\ inverse'[u] = t
      /\ \A w \in DOMAIN inverse : inverse'[w] = inverse[w]
  BY <1>1 DEF Add, Put
<1>4. MapsTyped'
  BY <1>1, <1>2, <1>3 DEF MapsTyped
<1>5. ASSUME NEW s \in DOMAIN straight'
      PROVE  straight'[s] \in DOMAIN inverse' /\ inverse'[straight'[s]] = s
  <2>1. CASE s = t
    BY <2>1, <1>2, <1>3
  <2>2. CASE s \in DOMAIN straight
    BY <2>2, <1>2, <1>3 DEF MapsInverse
  <2> QED
    BY <1>2, <2>1, <2>2
<1>6. ASSUME NEW w \in DOMAIN inverse'
      PROVE  inverse'[w] \in DOMAIN straight' /\ straight'[inverse'[w]] = w
  <2>1. CASE w = u
    BY <2>1, <1>2, <1>3
  <2>2. CASE w \in DOMAIN inverse
    BY <2>2, <1>2, <1>3 DEF MapsInverse
  <2> QED
    BY <1>3, <2>1, <2>2
<1> QED
  BY <1>3, <1>4, <1>5, <1>6 DEF MapsInverse

(* The token of add is one that TokenRegistry may issue. *)
LEMMA AddIssues ==
  ASSUME MapsTyped, MapsInverse, NEW t \in FreshToken, NEW u \in User, Add(t, u)
  PROVE  Registry!Issue(t, u)
<1>1. t \notin DOMAIN straight /\ u \notin DOMAIN inverse
  BY DEF FreshToken, Add
<1>2. \A s \in DOMAIN straight : straight[s] # u
  BY <1>1 DEF MapsInverse
<1> QED
  BY <1>1, <1>2 DEF Add, Put, Registry!Issue, Registry!Range

LEMMA SessionsInitInv == SessionsInit => SessionsInv
<1> SUFFICES ASSUME SessionsInit PROVE SessionsInv
  OBVIOUS
<1>1. DOMAIN straight = {} /\ DOMAIN inverse = {}
  BY DEF SessionsInit
<1>2. last_guest_id \in 0 .. MaxGuests
  BY SessionsAssumption DEF SessionsInit
<1>3. DOMAIN passwords \subseteq Login /\ \A l \in DOMAIN passwords : passwords[l] \in Password
  <2>1. PICK registered \in SUBSET Login : passwords \in [registered -> Password]
    BY DEF SessionsInit
  <2> QED
    BY <2>1
<1>4. auth \in [Request -> Job \cup {Idle}] /\ \A r \in Request : auth[r].step = "idle"
  BY DEF SessionsInit, Idle
<1> QED
  BY <1>1, <1>2, <1>3, <1>4 DEF SessionsInv, SessionsTypeOK, MapsInverse, OwnersAreKnown, GrantedAreRegistered

(* The steps that touch neither the tokens nor the password rows. *)
LEMMA BeginKeepsInv ==
  ASSUME SessionsInv, NEW r \in Request, NEW login \in Login, NEW password \in Password,
         NEW step \in {"creating", "granted", "updating"},
         step = "granted" => login \in DOMAIN passwords,
         Begin(r, step, login, password),
         UNCHANGED <<straight, inverse, last_guest_id, passwords>>
  PROVE  SessionsInv'
<1>1. auth' \in [Request -> Job \cup {Idle}]
  BY DEF SessionsInv, SessionsTypeOK, Begin, Job
<1>2. SessionsTypeOK'
  BY <1>1 DEF SessionsInv, SessionsTypeOK
<1>3. MapsInverse' /\ OwnersAreKnown'
  BY DEF SessionsInv, MapsInverse, OwnersAreKnown
<1>4. GrantedAreRegistered'
  BY DEF SessionsInv, SessionsTypeOK, GrantedAreRegistered, Begin
<1> QED
  BY <1>2, <1>3, <1>4 DEF SessionsInv

LEMMA EndKeepsAuth ==
  ASSUME SessionsInv, NEW r \in Request, End(r), DOMAIN passwords \subseteq DOMAIN passwords'
  PROVE  auth' \in [Request -> Job \cup {Idle}] /\ GrantedAreRegistered'
BY DEF SessionsInv, SessionsTypeOK, GrantedAreRegistered, End, Idle

LEMMA PutPassword ==
  ASSUME SessionsInv, NEW r \in Request, auth[r] # Idle,
         passwords' = Put(passwords, auth[r].login, auth[r].password)
  PROVE  /\ DOMAIN passwords' \subseteq Login /\ \A l \in DOMAIN passwords' : passwords'[l] \in Password
         /\ DOMAIN passwords' = DOMAIN passwords \cup {auth[r].login}
<1>1. auth[r].login \in Login /\ auth[r].password \in Password
  BY DEF SessionsInv, SessionsTypeOK, Job
<1> QED
  BY <1>1 DEF SessionsInv, SessionsTypeOK, Put

(* Every step of Sessions keeps the invariant. *)
LEMMA SessionsNextInv == SessionsInv /\ [SessionsNext]_sessionVars => SessionsInv'
<1> SUFFICES ASSUME SessionsInv, [SessionsNext]_sessionVars PROVE SessionsInv'
  OBVIOUS
<1>0. MapsTyped /\ MapsInverse
  BY DEF SessionsInv, SessionsTypeOK, MapsTyped
<1>1. CASE SignInAsGuest
  <2>1. PICK token \in FreshToken : Add(token, Guest(last_guest_id'))
    BY <1>1 DEF SignInAsGuest
  <2>2. last_guest_id' \in 1 .. MaxGuests /\ last_guest_id' = last_guest_id + 1
    BY <1>1, SessionsAssumption DEF SignInAsGuest, SessionsInv, SessionsTypeOK
  <2>3. Guest(last_guest_id') \in User
    BY <2>2 DEF Guest, User
  <2>4. MapsTyped' /\ MapsInverse' /\ DOMAIN inverse' = DOMAIN inverse \cup {Guest(last_guest_id')}
    BY <1>0, <2>1, <2>3, AddKeepsInverse
  <2>5. SessionsTypeOK' /\ GrantedAreRegistered'
    BY <1>1, <2>2, <2>4 DEF SignInAsGuest, SessionsInv, SessionsTypeOK, MapsTyped, GrantedAreRegistered
  <2>6. OwnersAreKnown'
    <3> SUFFICES ASSUME NEW u \in DOMAIN inverse'
                 PROVE  \/ u[1] = "guest" /\ u[2] \in 1 .. last_guest_id'
                        \/ u[1] = "logged" /\ u[2] \in DOMAIN passwords'
      BY DEF OwnersAreKnown
    <3>1. CASE u = Guest(last_guest_id')
      BY <3>1, <2>2 DEF Guest
    <3>2. CASE u \in DOMAIN inverse
      BY <3>2, <2>2, <1>1, SessionsAssumption DEF SessionsInv, SessionsTypeOK, OwnersAreKnown, SignInAsGuest
    <3> QED
      BY <2>4, <3>1, <3>2
  <2> QED
    BY <2>4, <2>5, <2>6 DEF SessionsInv
<1>2. ASSUME NEW r \in Request, NEW login \in Login, NEW password \in Password,
             ReadForSignIn(r, login, password)
      PROVE  SessionsInv'
  BY <1>2, BeginKeepsInv DEF ReadForSignIn
<1>3. ASSUME NEW r \in Request, NEW login \in Login, NEW password \in Password,
             ReadForRegister(r, login, password)
      PROVE  SessionsInv'
  BY <1>3, BeginKeepsInv DEF ReadForRegister
<1>4. ASSUME NEW r \in Request, NEW login \in Login, NEW password \in Password, NEW client \in Login,
             ReadForUpdate(r, client, login, password)
      PROVE  SessionsInv'
  BY <1>4, BeginKeepsInv DEF ReadForUpdate
<1>5. ASSUME NEW r \in Request, CommitRegister(r) PROVE SessionsInv'
  <2>1. auth[r] # Idle /\ auth[r] \in Job
    BY <1>5 DEF CommitRegister, Idle, SessionsInv, SessionsTypeOK
  <2>2. /\ DOMAIN passwords' \subseteq Login /\ \A l \in DOMAIN passwords' : passwords'[l] \in Password
        /\ DOMAIN passwords' = DOMAIN passwords \cup {auth[r].login}
    BY <1>5, <2>1, PutPassword DEF CommitRegister
  <2>3. auth' \in [Request -> Job \cup {Idle}]
    BY <1>5, <2>1 DEF CommitRegister, SessionsInv, SessionsTypeOK, Job
  <2>4. SessionsTypeOK'
    BY <1>5, <2>2, <2>3 DEF CommitRegister, SessionsInv, SessionsTypeOK
  <2>5. MapsInverse' /\ OwnersAreKnown'
    BY <1>5, <2>2 DEF CommitRegister, SessionsInv, MapsInverse, OwnersAreKnown
  <2>6. GrantedAreRegistered'
    BY <1>5, <2>1, <2>2 DEF CommitRegister, SessionsInv, SessionsTypeOK, GrantedAreRegistered, Job
  <2> QED
    BY <2>4, <2>5, <2>6 DEF SessionsInv
<1>6. ASSUME NEW r \in Request, AddLogged(r) PROVE SessionsInv'
  <2>1. auth[r] \in Job /\ auth[r].login \in DOMAIN passwords /\ auth[r].login \in Login
    BY <1>6 DEF AddLogged, Idle, SessionsInv, SessionsTypeOK, GrantedAreRegistered, Job
  <2>2. PICK token \in FreshToken : Add(token, Logged(auth[r].login))
    BY <1>6 DEF AddLogged
  <2>3. Logged(auth[r].login) \in User
    BY <2>1 DEF Logged, User
  <2>4. MapsTyped' /\ MapsInverse' /\ DOMAIN inverse' = DOMAIN inverse \cup {Logged(auth[r].login)}
    BY <1>0, <2>2, <2>3, AddKeepsInverse
  <2>5. auth' \in [Request -> Job \cup {Idle}] /\ GrantedAreRegistered'
    BY <1>6, EndKeepsAuth DEF AddLogged
  <2>6. SessionsTypeOK'
    BY <1>6, <2>4, <2>5 DEF AddLogged, SessionsInv, SessionsTypeOK, MapsTyped
  <2>7. OwnersAreKnown'
    <3> SUFFICES ASSUME NEW u \in DOMAIN inverse'
                 PROVE  \/ u[1] = "guest" /\ u[2] \in 1 .. last_guest_id'
                        \/ u[1] = "logged" /\ u[2] \in DOMAIN passwords'
      BY DEF OwnersAreKnown
    <3>1. CASE u = Logged(auth[r].login)
      BY <3>1, <2>1, <1>6 DEF Logged, AddLogged
    <3>2. CASE u \in DOMAIN inverse
      BY <3>2, <1>6 DEF SessionsInv, OwnersAreKnown, AddLogged
    <3> QED
      BY <2>4, <3>1, <3>2
  <2> QED
    BY <2>4, <2>5, <2>6, <2>7 DEF SessionsInv
<1>7. ASSUME NEW r \in Request, CommitUpdate(r) PROVE SessionsInv'
  <2>1. auth[r] # Idle
    BY <1>7 DEF CommitUpdate, Idle
  <2>2. /\ DOMAIN passwords' \subseteq Login /\ \A l \in DOMAIN passwords' : passwords'[l] \in Password
        /\ DOMAIN passwords' = DOMAIN passwords \cup {auth[r].login}
    BY <1>7, <2>1, PutPassword DEF CommitUpdate
  <2>3. auth' \in [Request -> Job \cup {Idle}] /\ GrantedAreRegistered'
    BY <1>7, <2>2, EndKeepsAuth DEF CommitUpdate
  <2>4. SessionsTypeOK'
    BY <1>7, <2>2, <2>3 DEF CommitUpdate, SessionsInv, SessionsTypeOK
  <2>5. MapsInverse' /\ OwnersAreKnown'
    BY <1>7, <2>2 DEF CommitUpdate, SessionsInv, MapsInverse, OwnersAreKnown
  <2> QED
    BY <2>3, <2>4, <2>5 DEF SessionsInv
<1>8. ASSUME NEW r \in Request, Abort(r) PROVE SessionsInv'
  <2>1. auth' \in [Request -> Job \cup {Idle}] /\ GrantedAreRegistered'
    BY <1>8, EndKeepsAuth DEF Abort
  <2> QED
    BY <1>8, <2>1 DEF Abort, SessionsInv, SessionsTypeOK, MapsInverse, OwnersAreKnown
<1>9. CASE UNCHANGED sessionVars
  BY <1>9 DEF sessionVars, SessionsInv, SessionsTypeOK, MapsInverse, OwnersAreKnown, GrantedAreRegistered
<1> QED
  BY <1>1, <1>2, <1>3, <1>4, <1>5, <1>6, <1>7, <1>8, <1>9 DEF SessionsNext

LEMMA SessionsSpecInv == SessionsSpec => []SessionsInv
BY SessionsInitInv, SessionsNextInv, PTL DEF SessionsSpec

-----------------------------------------------------------------------------
(* Sessions keeps its variables in their types. *)
THEOREM SessionsTypeCorrect == SessionsSpec => []SessionsTypeOK
<1>1. SessionsInv => SessionsTypeOK
  BY DEF SessionsInv
<1> QED
  BY <1>1, SessionsSpecInv, PTL

(* BijectiveMap.add: token_to_user.straight and token_to_user.inverse are  *)
(* inverse to each other whichever requests are in progress.               *)
THEOREM MapsStayInverse == SessionsSpec => []MapsInverse
<1>1. SessionsInv => MapsInverse
  BY DEF SessionsInv
<1> QED
  BY <1>1, SessionsSpecInv, PTL

(* register and signin: a token stands for a guest who was numbered or for *)
(* a player who has a password row.                                        *)
THEOREM OwnersStayKnown == SessionsSpec => []OwnersAreKnown
<1>1. SessionsInv => OwnersAreKnown
  BY DEF SessionsInv
<1> QED
  BY <1>1, SessionsSpecInv, PTL

(* add_guest and add_logged: the tokens are issued as TokenRegistry says,  *)
(* each step of Sessions being an Issue or leaving the tokens alone.       *)
THEOREM IssuesOnceCorrect == SessionsSpec => IssuesOnce
<1>1. SessionsInit => Registry!Init
  BY DEF SessionsInit, Registry!Init
<1>2. SessionsInv /\ [SessionsNext]_sessionVars => [Registry!Next]_straight
  <2> SUFFICES ASSUME SessionsInv, SessionsNext, straight' # straight PROVE Registry!Next
    BY DEF sessionVars
  <2>0. MapsTyped /\ MapsInverse
    BY DEF SessionsInv, SessionsTypeOK, MapsTyped
  <2>1. CASE SignInAsGuest
    <3>1. PICK token \in FreshToken : Add(token, Guest(last_guest_id'))
      BY <2>1 DEF SignInAsGuest
    <3>2. Guest(last_guest_id') \in User
      BY <2>1, SessionsAssumption DEF SignInAsGuest, SessionsInv, SessionsTypeOK, Guest, User
    <3>3. Registry!Issue(token, Guest(last_guest_id'))
      BY <2>0, <3>1, <3>2, AddIssues
    <3> QED
      BY <3>2, <3>3 DEF Registry!Next, FreshToken
  <2>2. ASSUME NEW r \in Request, AddLogged(r) PROVE Registry!Next
    <3>1. PICK token \in FreshToken : Add(token, Logged(auth[r].login))
      BY <2>2 DEF AddLogged
    <3>2. Logged(auth[r].login) \in User
      BY <2>2 DEF AddLogged, Idle, SessionsInv, SessionsTypeOK, Job, Logged, User
    <3>3. Registry!Issue(token, Logged(auth[r].login))
      BY <2>0, <3>1, <3>2, AddIssues
    <3> QED
      BY <3>2, <3>3 DEF Registry!Next, FreshToken
  <2> QED
    BY <2>1, <2>2 DEF SessionsNext, ReadForSignIn, ReadForRegister, ReadForUpdate,
       CommitRegister, CommitUpdate, Abort
<1> QED
  BY <1>1, <1>2, SessionsSpecInv, PTL DEF SessionsSpec, IssuesOnce, Registry!Spec
=============================================================================
