---------------------------- MODULE AccountsProofs ----------------------------
(* What holds of registrations and logins for any number of requests,      *)
(* accounts and names and any failures.                                    *)
EXTENDS Accounts, TLAPS

(* Keycloak's own promise, which its administrators cannot break. *)
NamesAreUnique ==
  \A s, t \in Subs : account[s] # None /\ account[s] = account[t] => s = t

(* A registration creates at most one account, *)
OneAccountEach ==
  \A s, t \in Subs : creator[s] # None /\ creator[s] = creator[t] => s = t

(* which keeps the name it asked for until an administrator edits it. *)
AccountHasItsName ==
  \A s \in Subs :
    creator[s] # None /\ s \notin edited => account[s] = name[creator[s]]

(* Where a request stands tells whether it has created an account. *)
CreatedBeforeGrant ==
  \A r \in Requests :
    /\ pc[r] = "new" => flow[r] = None
    /\ pc[r] \in {"admin", "creating"} => flow[r] = "register"
    /\ pc[r] # "new" => flow[r] \in Flow
    /\ flow[r] # "callback" /\ pc[r] # "new" => name[r] \in Names
    /\ pc[r] \in {"created", "conflict"} => flow[r] = "register"
    /\ pc[r] \in {"granted", "badCode"} => flow[r] # "register"
    /\ flow[r] # "register" \/ pc[r] \in {"admin", "creating", "conflict"}
         => \A s \in Subs : creator[s] # r
    /\ flow[r] = "register" /\ pc[r] \in {"granting", "upserting", "created"}
         => \E s \in Subs : creator[s] = r

(* A token is that of an account, and a registration's own unless edited. *)
TokenIsOwn ==
  \A r \in Requests :
    pc[r] \in {"upserting", "created", "granted"} =>
      /\ sub[r] \in Subs /\ claim[r] \in Names
      /\ flow[r] = "register" =>
           creator[sub[r]] = r \/ \E s \in edited : creator[s] = r

IndInv ==
  /\ TypeOK
  /\ NamesAreUnique
  /\ OneAccountEach
  /\ AccountHasItsName
  /\ CreatedBeforeGrant
  /\ TokenIsOwn
  /\ TokenHolderIsKnown
  /\ UserIdIsStable

USE ParametersOK DEF ParametersOK, None, Flow, Pending, Answer

(* Initially nobody has an account and no request has come. *)
LEMMA InitEstablishes == Init => IndInv
BY DEF Init, IndInv, TypeOK, NamesAreUnique, OneAccountEach, AccountHasItsName,
       CreatedBeforeGrant, TokenIsOwn, TokenHolderIsKnown, UserIdIsStable

(* A request brings its input and has created nothing. *)
LEMMA StartKeeps ==
  ASSUME NEW r \in Requests, IndInv, Start(r)  PROVE IndInv'
<1> USE DEF IndInv, Start, Goto, keycloak, token
<1>1. TypeOK'
  BY DEF TypeOK
<1>2. (NamesAreUnique /\ OneAccountEach)'
  BY DEF NamesAreUnique, OneAccountEach
<1>3. AccountHasItsName'
  BY DEF TypeOK, AccountHasItsName, CreatedBeforeGrant
<1>4. CreatedBeforeGrant'
  BY DEF TypeOK, CreatedBeforeGrant
<1>5. TokenIsOwn'
  BY DEF TypeOK, TokenIsOwn
<1>6. (TokenHolderIsKnown /\ UserIdIsStable)'
  BY DEF TypeOK, TokenHolderIsKnown, UserIdIsStable
<1>. QED BY <1>1, <1>2, <1>3, <1>4, <1>5, <1>6

(* The admin token decides only whether the creation is tried. *)
LEMMA AdminTokenKeeps ==
  ASSUME NEW r \in Requests, IndInv, AdminToken(r)  PROVE IndInv'
<1> USE DEF IndInv, AdminToken, Goto, keycloak, token, input
<1>1. TypeOK'
  BY DEF TypeOK
<1>2. (NamesAreUnique /\ OneAccountEach /\ AccountHasItsName)'
  BY DEF NamesAreUnique, OneAccountEach, AccountHasItsName
<1>4. CreatedBeforeGrant'
  BY DEF TypeOK, CreatedBeforeGrant
<1>5. (TokenIsOwn /\ TokenHolderIsKnown /\ UserIdIsStable)'
  BY DEF TypeOK, TokenIsOwn, TokenHolderIsKnown, UserIdIsStable
<1>. QED BY <1>1, <1>2, <1>4, <1>5

(* Only a name nobody has is created, under a subject nobody had. *)
LEMMA CreateUserKeeps ==
  ASSUME NEW r \in Requests, IndInv, CreateUser(r)  PROVE IndInv'
<1> USE DEF IndInv, CreateUser, Goto, token, input
<1>1. CASE UNCHANGED <<account, creator>>
  <2>1. TypeOK'
    BY <1>1 DEF TypeOK
  <2>2. (NamesAreUnique /\ OneAccountEach /\ AccountHasItsName)'
    BY <1>1 DEF NamesAreUnique, OneAccountEach, AccountHasItsName
  <2>3. pc' = [pc EXCEPT ![r] = "conflict"] \/ pc' = [pc EXCEPT ![r] = "error"]
    BY <1>1 DEF Create, Fresh, TypeOK, CreatedBeforeGrant, Taken
  <2>4. CreatedBeforeGrant'
    BY <1>1, <2>3 DEF TypeOK, CreatedBeforeGrant
  <2>5. (TokenIsOwn /\ TokenHolderIsKnown /\ UserIdIsStable)'
    BY <1>1, <2>3 DEF TypeOK, TokenIsOwn, TokenHolderIsKnown, UserIdIsStable
  <2>. QED BY <2>1, <2>2, <2>4, <2>5
<1>2. ASSUME NEW s \in Subs, ~Taken(name[r]), Create(r, s)  PROVE IndInv'
  <2> USE DEF Create, Fresh
  <2>0. /\ name[r] \in Names /\ flow[r] = "register" /\ pc[r] = "creating"
        /\ \A t \in Subs : creator[t] # r
    BY DEF CreatedBeforeGrant
  <2>p. pc' = [pc EXCEPT ![r] = "granting"] \/ pc' = [pc EXCEPT ![r] = "error"]
    BY <1>2, <2>0 DEF TypeOK
  <2>1. TypeOK'
    BY <1>2, <2>0, <2>p DEF TypeOK
  <2>2. NamesAreUnique'
    BY <1>2, <2>0 DEF TypeOK, NamesAreUnique, Taken
  <2>3. (OneAccountEach /\ AccountHasItsName)'
    BY <1>2, <2>0 DEF TypeOK, OneAccountEach, AccountHasItsName
  <2>4. CreatedBeforeGrant'
    <3>1. \E t \in Subs : creator'[t] = r
      BY <1>2 DEF TypeOK
    <3>2. \A q \in Requests \ {r} :
            \A t \in Subs : creator'[t] = q <=> creator[t] = q
      BY <1>2 DEF TypeOK
    <3>. QED BY <2>0, <2>p, <3>1, <3>2 DEF TypeOK, CreatedBeforeGrant
  <2>5. TokenIsOwn'
    BY <1>2, <2>0, <2>p DEF TypeOK, TokenIsOwn
  <2>6. (TokenHolderIsKnown /\ UserIdIsStable)'
    BY <1>2, <2>0, <2>p DEF TypeOK, TokenHolderIsKnown, UserIdIsStable
  <2>. QED BY <2>1, <2>2, <2>3, <2>4, <2>5, <2>6
<1>. QED BY <1>1, <1>2

(* The token granted to a registration is that of its own account, as long *)
(* as that has its name.                                                   *)
LEMMA GrantKeeps ==
  ASSUME NEW r \in Requests, IndInv, Grant(r)  PROVE IndInv'
<1> USE DEF IndInv, Grant, Goto, keycloak, input
<1>0. UNCHANGED <<account, creator, edited, users, flow, name, shown>>
  OBVIOUS
<1>1. ASSUME NEW a \in {"badCode", "unauthorized", "unavailable", "error"},
             pc' = [pc EXCEPT ![r] = a],
             a = "badCode" => flow[r] = "callback",
             UNCHANGED token
      PROVE  IndInv'
  <2>1. UNCHANGED <<sub, claim>>
    BY <1>1 DEF token
  <2>. QED
    BY <1>0, <1>1, <2>1
       DEF TypeOK, NamesAreUnique, OneAccountEach, AccountHasItsName,
           CreatedBeforeGrant, TokenIsOwn, TokenHolderIsKnown, UserIdIsStable
<1>2. ASSUME NEW s \in Claimed(r),
             sub' = [sub EXCEPT ![r] = s],
             claim' = [claim EXCEPT ![r] = account[s]],
             pc' = [pc EXCEPT ![r] = "upserting"]
      PROVE  IndInv'
  <2>0. s \in Subs /\ account[s] \in Names /\ pc[r] = "granting"
    BY DEF Claimed, TypeOK
  <2>1. TypeOK'
    BY <1>0, <1>2, <2>0 DEF TypeOK
  <2>2. (NamesAreUnique /\ OneAccountEach /\ AccountHasItsName)'
    BY <1>0 DEF NamesAreUnique, OneAccountEach, AccountHasItsName
  <2>3. CreatedBeforeGrant'
    BY <1>0, <1>2, <2>0 DEF TypeOK, CreatedBeforeGrant
  <2>4. flow[r] = "register" =>
          creator[s] = r \/ \E t \in edited : creator[t] = r
    BY <2>0 DEF Claimed, CreatedBeforeGrant, AccountHasItsName, NamesAreUnique,
                TypeOK
  <2>5. TokenIsOwn'
    BY <1>0, <1>2, <2>0, <2>4 DEF TypeOK, TokenIsOwn
  <2>6. (TokenHolderIsKnown /\ UserIdIsStable)'
    BY <1>0, <1>2, <2>0 DEF TypeOK, TokenHolderIsKnown, UserIdIsStable
  <2>. QED BY <2>1, <2>2, <2>3, <2>5, <2>6
<1>. QED BY <1>1, <1>2

(* An upsert makes a row or keeps its id; it removes none. *)
LEMMA UpsertKeeps ==
  ASSUME NEW r \in Requests, IndInv, Upsert(r)  PROVE IndInv'
<1> USE DEF IndInv, Goto, keycloak, input, token
<1>0. /\ UNCHANGED <<account, creator, edited, flow, name, sub, claim>>
      /\ pc[r] = "upserting"
      /\ sub[r] \in Subs /\ claim[r] \in Names
  BY DEF Upsert, TokenIsOwn
<1>1. CASE UNCHANGED <<users, shown>> /\ pc' = [pc EXCEPT ![r] = "error"]
  BY <1>0, <1>1
     DEF TypeOK, NamesAreUnique, OneAccountEach, AccountHasItsName,
         CreatedBeforeGrant, TokenIsOwn, TokenHolderIsKnown, UserIdIsStable
<1>2. ASSUME NEW id \in Requests,
             users[sub[r]] # NoRow => id = users[sub[r]].id,
             users' =
               [users EXCEPT ![sub[r]] = [id |-> id, name |-> claim[r]]],
             shown' = [shown EXCEPT ![r] = id],
             Success(r)
      PROVE  IndInv'
  <2>0. pc' = [pc EXCEPT ![r] = IF flow[r] = "register"
                               THEN "created" ELSE "granted"]
    BY <1>2 DEF Success
  <2>1. TypeOK'
    BY <1>0, <1>2, <2>0 DEF TypeOK, Row
  <2>2. (NamesAreUnique /\ OneAccountEach /\ AccountHasItsName)'
    BY <1>0 DEF NamesAreUnique, OneAccountEach, AccountHasItsName
  <2>3. CreatedBeforeGrant'
    BY <1>0, <2>0 DEF TypeOK, CreatedBeforeGrant
  <2>4. TokenIsOwn'
    BY <1>0, <2>0 DEF TypeOK, TokenIsOwn
  <2>5. users'[sub[r]] # NoRow /\ users'[sub[r]].id = id
    BY <1>0, <1>2 DEF TypeOK, NoRow
  <2>6. \A s \in Subs : users[s] # NoRow =>
          users'[s] # NoRow /\ users'[s].id = users[s].id
    BY <1>0, <1>2, <2>5 DEF TypeOK
  <2>7. (TokenHolderIsKnown /\ UserIdIsStable)'
    BY <1>0, <1>2, <2>0, <2>5, <2>6
       DEF TypeOK, TokenIsOwn, TokenHolderIsKnown, UserIdIsStable
  <2>. QED BY <2>1, <2>2, <2>3, <2>4, <2>7
<1>3. users[sub[r]] # NoRow => users[sub[r]].id \in Requests
  BY <1>0 DEF TypeOK, Row
<1>. QED BY <1>1, <1>2, <1>3 DEF Upsert

(* Keycloak gives no name to two accounts, and remembers who was edited. *)
LEMMA KeycloakKeeps ==
  ASSUME NEW s \in Subs, IndInv, SignUp(s) \/ Edit(s)  PROVE IndInv'
<1> USE DEF IndInv, input, token
<1>0. UNCHANGED <<creator, users, pc, flow, name, sub, claim, shown>>
  BY DEF SignUp, Edit
<1>1. account' = [account EXCEPT ![s] = None] \/
      \E n \in Names : ~Taken(n) /\ account' = [account EXCEPT ![s] = n]
  BY DEF SignUp, Edit
<1>2. edited \subseteq edited' /\ edited' \subseteq Subs
  BY DEF SignUp, Edit, TypeOK
<1>3. creator[s] = None \/ s \in edited'
  BY DEF SignUp, Edit, Fresh
<1>4. TypeOK'
  BY <1>0, <1>1, <1>2 DEF TypeOK
<1>5. NamesAreUnique'
  BY <1>1 DEF TypeOK, NamesAreUnique, Taken
<1>6. (OneAccountEach /\ AccountHasItsName)'
  BY <1>0, <1>1, <1>2, <1>3 DEF TypeOK, OneAccountEach, AccountHasItsName
<1>7. (/\ CreatedBeforeGrant /\ TokenIsOwn
      /\ TokenHolderIsKnown /\ UserIdIsStable)'
  BY <1>0, <1>2
     DEF CreatedBeforeGrant, TokenIsOwn, TokenHolderIsKnown, UserIdIsStable
<1>. QED BY <1>4, <1>5, <1>6, <1>7

(* A registration is not refused the password it has just set, as long as  *)
(* its account keeps its name (auth.py:47-52).                             *)
OwnPasswordIsRight ==
  \A r \in Requests, s \in Subs \ edited :
    creator[s] = r => pc[r] # "unauthorized"

LEMMA OwnPasswordKept == IndInv /\ OwnPasswordIsRight /\ [Next]_vars => OwnPasswordIsRight'
<1> SUFFICES ASSUME IndInv, OwnPasswordIsRight, [Next]_vars,
                    NEW r \in Requests, NEW s \in Subs \ edited',
                    creator'[s] = r, pc'[r] = "unauthorized"
             PROVE  FALSE
  BY DEF OwnPasswordIsRight
<1> USE DEF IndInv, Goto, keycloak, input, token
<1>1. s \notin edited
  BY DEF Next, vars, Start, AdminToken, CreateUser, Grant, Upsert, SignUp, Edit
<1>2. CASE UNCHANGED vars
  BY <1>1, <1>2 DEF vars, OwnPasswordIsRight
<1>3. ASSUME NEW q \in Requests, Start(q) \/ AdminToken(q)
      PROVE  FALSE
  BY <1>1, <1>3 DEF Start, AdminToken, OwnPasswordIsRight, TypeOK
<1>4. ASSUME NEW q \in Requests, CreateUser(q)
      PROVE  FALSE
  <2>1. pc[q] = "creating" /\ pc'[q] # "unauthorized"
    BY <1>4 DEF CreateUser, TypeOK
  <2>2. r # q /\ pc[r] = "unauthorized"
    BY <1>4, <2>1 DEF CreateUser, TypeOK
  <2>3. creator[s] = r
    BY <1>4, <2>2 DEF CreateUser, Create, TypeOK
  <2>. QED BY <1>1, <2>2, <2>3 DEF OwnPasswordIsRight
<1>5. ASSUME NEW q \in Requests, Grant(q)
      PROVE  FALSE
  <2>1. creator[s] = r
    BY <1>5 DEF Grant
  <2>2. pc[r] # "unauthorized"
    BY <1>1, <2>1 DEF OwnPasswordIsRight
  <2>3. r = q /\ pc[r] = "granting" /\ \A c \in Claimed(r) : creator[c] # r
    BY <1>5, <2>2 DEF Grant, TypeOK
  <2>4. account[s] = name[r] /\ name[r] \in Names
    BY <1>1, <2>1, <2>3 DEF AccountHasItsName, CreatedBeforeGrant, TypeOK
  <2>. QED BY <2>1, <2>3, <2>4 DEF Claimed
<1>6. ASSUME NEW q \in Requests, Upsert(q)
      PROVE  FALSE
  BY <1>1, <1>6 DEF Upsert, Success, OwnPasswordIsRight, TypeOK
<1>7. ASSUME NEW t \in Subs, SignUp(t) \/ Edit(t)
      PROVE  FALSE
  BY <1>1, <1>7 DEF SignUp, Edit, OwnPasswordIsRight
<1>. QED BY <1>2, <1>3, <1>4, <1>5, <1>6, <1>7 DEF Next

(* Every reachable state satisfies the invariant. *)
THEOREM Invariance == Spec => []IndInv
<1>1. IndInv /\ [Next]_vars => IndInv'
  <2> SUFFICES ASSUME IndInv, [Next]_vars  PROVE IndInv'
    OBVIOUS
  <2>1. CASE Next
    BY <2>1, StartKeeps, AdminTokenKeeps, CreateUserKeeps, GrantKeeps,
       UpsertKeeps, KeycloakKeeps DEF Next
  <2>2. CASE UNCHANGED vars
    BY <2>2
       DEF IndInv, vars, keycloak, input, token, TypeOK, NamesAreUnique,
           OneAccountEach, AccountHasItsName, CreatedBeforeGrant, TokenIsOwn,
           TokenHolderIsKnown, UserIdIsStable
  <2>. QED BY <2>1, <2>2
<1>. QED BY <1>1, InitEstablishes, PTL DEF Spec

(* Type correctness (auth.py:25-143, user_service.py:11-46). *)
THEOREM TypeCorrect == Spec => []TypeOK
BY Invariance, PTL DEF IndInv

(* Tokens are handed out only for users with a row (auth.py:58-66,         *)
(* 88-95, 138-143).                                                        *)
THEOREM HoldersAreKnown == Spec => []TokenHolderIsKnown
BY Invariance, PTL DEF IndInv

(* The id that was answered is for ever the one of the row, however many   *)
(* logins insert or update it at once (user_service.py:20-46).             *)
THEOREM IdsAreStable == Spec => []UserIdIsStable
BY Invariance, PTL DEF IndInv

(* A registration is answered 201 for the account it created, although it  *)
(* looks it up again by its name (auth.py:47-58).                          *)
THEOREM RegistrationsAreOwn == Spec => []RegisteredIsMine
<1>1. IndInv => RegisteredIsMine
  BY DEF IndInv, TokenIsOwn, CreatedBeforeGrant, RegisteredIsMine
<1>. QED BY <1>1, Invariance, PTL

(* A registration that left its account without a row was answered 500 or  *)
(* 502, never 201, 401 or 409 (auth.py:31-58).                             *)
THEOREM HalfRegistrationsAreReported == Spec => []HalfRegistrationIsReported
<1>1. IndInv /\ OwnPasswordIsRight => HalfRegistrationIsReported
  <2> SUFFICES ASSUME IndInv, OwnPasswordIsRight,
                      NEW r \in Requests, NEW s \in Subs \ edited,
                      creator[s] = r, users[s] = NoRow
               PROVE  pc[r] \in {"granting", "upserting", "unavailable", "error"}
    BY DEF HalfRegistrationIsReported
  <2>1. flow[r] = "register" /\ pc[r] \notin {"new", "admin", "creating",
                                              "conflict", "granted", "badCode"}
    BY DEF IndInv, CreatedBeforeGrant
  <2>2. pc[r] # "created"
    BY <2>1 DEF IndInv, TypeOK, TokenIsOwn, OneAccountEach, TokenHolderIsKnown
  <2>3. pc[r] # "unauthorized"
    BY DEF OwnPasswordIsRight
  <2>. QED BY <2>1, <2>2, <2>3 DEF IndInv, TypeOK
<1>2. Init => OwnPasswordIsRight
  BY DEF Init, OwnPasswordIsRight
<1>. QED BY <1>1, <1>2, OwnPasswordKept, Invariance, PTL DEF Spec
=============================================================================
