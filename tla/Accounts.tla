------------------------------- MODULE Accounts -------------------------------
(***************************************************************************)
(* Registration, login and the SSO callback: app/api/v1/auth.py,           *)
(* app/services/user_service.py and the grants of                          *)
(* app/services/keycloak_service.py.  An account of Keycloak and its row   *)
(* in the table users are made by different calls, and no transaction      *)
(* spans them.  POST /auth/refresh changes nothing here and is left out.   *)
(*                                                                         *)
(* A name stands for username and email, which are unique in Keycloak and  *)
(* in the table alike.  Keycloak, its administrators and the users who     *)
(* sign up with it directly are external.                                  *)
(***************************************************************************)
EXTENDS Integers

CONSTANTS
  Requests,  \* requests, each with the id it would give to a new row
  Subs,      \* subject ids that Keycloak may issue
  Names,
  Faults     \* the kinds of failure and intervention that may happen

FaultKinds == {"keycloak",  \* Keycloak answers 5xx or not at all
               "db",        \* the upsert or its commit fails
               "admin"}     \* an administrator renames or removes accounts

None == "none"
NoRow == [id |-> None, name |-> None]

ASSUME ParametersOK ==
  /\ Faults \subseteq FaultKinds
  /\ None \notin Requests \cup Subs \cup Names

VARIABLES
  account,  \* Keycloak: the name of each account, or None
  creator,  \* the registration that created it, or None
  edited,   \* accounts an administrator renamed or removed
  users,    \* the row with that auth_id, or NoRow
  pc,       \* where each request stands, or its answer
  flow, name,  \* what it asks for
  sub, claim,  \* "sub" and "preferred_username" of the token it was granted
  shown     \* the user_id in the answer of a registration

keycloak == <<account, creator, edited>>
input == <<flow, name>>
token == <<sub, claim>>
vars == <<keycloak, users, pc, input, token, shown>>

Flow == {"register", "login", "callback"}
Pending == {"admin", "creating", "granting", "upserting"}
Answer == {"created", "granted",   \* 201, 200
           "badCode", "unauthorized", "conflict", "unavailable",
           "error"}                \* 400, 401, 409, 502, 500
Row == [id : Requests, name : Names]

Init ==
  /\ account = [s \in Subs |-> None]
  /\ creator = [s \in Subs |-> None]
  /\ edited  = {}
  /\ users   = [s \in Subs |-> NoRow]
  /\ pc      = [r \in Requests |-> "new"]
  /\ flow    = [r \in Requests |-> None]
  /\ name    = [r \in Requests |-> None]
  /\ sub     = [r \in Requests |-> None]
  /\ claim   = [r \in Requests |-> None]
  /\ shown   = [r \in Requests |-> None]

-----------------------------------------------------------------------------
Goto(r, next) == pc' = [pc EXCEPT ![r] = next]
Taken(n) == \E s \in Subs : account[s] = n
Fresh(s) == account[s] = None /\ creator[s] = None /\ s \notin edited

(* A request comes in.  The code of a callback hides whose it is. *)
Start(r) ==
  /\ pc[r] = "new"
  /\ \E f \in Flow, n \in Names :
       /\ flow' = [flow EXCEPT ![r] = f]
       /\ name' = [name EXCEPT ![r] = IF f = "callback" THEN None ELSE n]
       /\ Goto(r, IF f = "register" THEN "admin" ELSE "granting")
  /\ UNCHANGED <<keycloak, users, token, shown>>

(* get_service_account_token; no caller handles httpx's errors. *)
AdminToken(r) ==
  /\ pc[r] = "admin"
  /\ \/ Goto(r, "creating")
     \/ "keycloak" \in Faults /\ Goto(r, "error")
  /\ UNCHANGED <<keycloak, users, input, token, shown>>

Create(r, s) ==
  /\ Fresh(s)
  /\ account' = [account EXCEPT ![s] = name[r]]
  /\ creator' = [creator EXCEPT ![s] = r]

(* Faulty variant: a name that exists is good enough to go on. *)
CreateUserOrExisting(r) ==
  /\ pc[r] = "creating"
  /\ \/ ~Taken(name[r]) /\ (\E s \in Subs : Create(r, s))
     \/ Taken(name[r]) /\ UNCHANGED <<account, creator>>
  /\ Goto(r, "granting")
  /\ UNCHANGED <<edited, users, input, token, shown>>

(* Faulty variant: a creation without an answer is tried again. *)
CreateUserRetrying(r) ==
  /\ pc[r] = "creating"
  /\ \/ /\ ~Taken(name[r])
        /\ \E s \in Subs : Create(r, s)
        /\ \/ Goto(r, "granting")
           \/ "keycloak" \in Faults /\ UNCHANGED pc
     \/ Taken(name[r]) /\ Goto(r, "conflict") /\ UNCHANGED <<account, creator>>
  /\ UNCHANGED <<edited, users, input, token, shown>>

(* create_keycloak_user.  An answer that is lost may hide a creation. *)
CreateUser(r) ==
  /\ pc[r] = "creating"
  /\ \/ /\ ~Taken(name[r])
        /\ \E s \in Subs : Create(r, s)
        /\ Goto(r, "granting") \/ ("keycloak" \in Faults /\ Goto(r, "error"))
     \/ Taken(name[r]) /\ Goto(r, "conflict") /\ UNCHANGED <<account, creator>>
     \/ /\ "keycloak" \in Faults
        /\ Goto(r, "error") /\ UNCHANGED <<account, creator>>
  /\ UNCHANGED <<edited, users, input, token, shown>>

(* The accounts whose token a request may be granted: a callback that of   *)
(* anybody who signed in with Keycloak, another that of the named account. *)
Claimed(r) ==
  {s \in Subs : /\ account[s] # None
                /\ flow[r] = "callback" \/ account[s] = name[r]}

(* Faulty variant: the row is named after the subject id. *)
GrantNamedBySubject(r) ==
  /\ pc[r] = "granting"
  /\ \E s \in Claimed(r) :
       /\ sub'   = [sub EXCEPT ![r] = s]
       /\ claim' = [claim EXCEPT ![r] = s]
  /\ Goto(r, "upserting")
  /\ UNCHANGED <<keycloak, users, input, shown>>

(* password_grant or exchange_code.  Only the password of an account that  *)
(* the request itself created is sure to be right.                         *)
Grant(r) ==
  /\ pc[r] = "granting"
  /\ \/ \E s \in Claimed(r) :
          /\ sub'   = [sub EXCEPT ![r] = s]
          /\ claim' = [claim EXCEPT ![r] = account[s]]
          /\ Goto(r, "upserting")
     \/ /\ \A s \in Claimed(r) : creator[s] # r
        /\ Goto(r, IF flow[r] = "callback" THEN "badCode" ELSE "unauthorized")
        /\ UNCHANGED token
     \/ /\ "keycloak" \in Faults
        /\ Goto(r, "unavailable") \/ Goto(r, "error")
        /\ UNCHANGED token
  /\ UNCHANGED <<keycloak, users, input, shown>>

(* Another row holds the claimed name, and the unique index refuses it. *)
NameHeld(r) == \E s \in Subs \ {sub[r]} : users[s].name = claim[r]

Success(r) == Goto(r, IF flow[r] = "register" THEN "created" ELSE "granted")

(* Faulty variant: the update replaces the id as well. *)
UpsertReplacingId(r) ==
  /\ pc[r] = "upserting" /\ ~NameHeld(r)
  /\ users' = [users EXCEPT ![sub[r]] = [id |-> r, name |-> claim[r]]]
  /\ shown' = [shown EXCEPT ![r] = r]
  /\ Success(r)
  /\ UNCHANGED <<keycloak, input, token>>

(* Faulty variant: an upsert that fails is only logged. *)
UpsertUnchecked(r) ==
  /\ pc[r] = "upserting"
  /\ \/ /\ ~NameHeld(r)
        /\ users' = [users EXCEPT ![sub[r]] = [id |-> r, name |-> claim[r]]]
     \/ NameHeld(r) /\ UNCHANGED users
  /\ shown' = [shown EXCEPT ![r] = r]
  /\ Success(r)
  /\ UNCHANGED <<keycloak, input, token>>

(* upsert_user: a new row, or the name of the row with this auth_id.  A    *)
(* conflict in another column raises like any failure of the database.     *)
Upsert(r) ==
  LET id == IF users[sub[r]] = NoRow THEN r ELSE users[sub[r]].id IN
  /\ pc[r] = "upserting"
  /\ \/ /\ ~NameHeld(r)
        /\ users' = [users EXCEPT ![sub[r]] = [id |-> id, name |-> claim[r]]]
        /\ shown' = [shown EXCEPT ![r] = id]
        /\ Success(r)
     \/ /\ NameHeld(r) \/ "db" \in Faults
        /\ Goto(r, "error")
        /\ UNCHANGED <<users, shown>>
  /\ UNCHANGED <<keycloak, input, token>>

-----------------------------------------------------------------------------
(* Keycloak *)

(* Somebody signs up with Keycloak, through its own pages. *)
SignUp(s) ==
  /\ Fresh(s)
  /\ \E n \in Names : ~Taken(n) /\ account' = [account EXCEPT ![s] = n]
  /\ UNCHANGED <<creator, edited, users, pc, input, token, shown>>

Edit(s) ==
  /\ "admin" \in Faults
  /\ account[s] # None
  /\ \/ \E n \in Names : ~Taken(n) /\ account' = [account EXCEPT ![s] = n]
     \/ account' = [account EXCEPT ![s] = None]
  /\ edited' = edited \cup {s}
  /\ UNCHANGED <<creator, users, pc, input, token, shown>>

Next ==
  \/ \E r \in Requests :
       Start(r) \/ AdminToken(r) \/ CreateUser(r) \/ Grant(r) \/ Upsert(r)
  \/ \E s \in Subs : SignUp(s) \/ Edit(s)

Spec == Init /\ [][Next]_vars

-----------------------------------------------------------------------------
TypeOK ==
  /\ account \in [Subs -> Names \cup {None}]
  /\ creator \in [Subs -> Requests \cup {None}]
  /\ edited \subseteq Subs
  /\ users \in [Subs -> Row \cup {NoRow}]
  /\ pc \in [Requests -> {"new"} \cup Pending \cup Answer]
  /\ flow \in [Requests -> Flow \cup {None}]
  /\ name \in [Requests -> Names \cup {None}]
  /\ sub \in [Requests -> Subs \cup {None}]
  /\ claim \in [Requests -> Names \cup {None}]
  /\ shown \in [Requests -> Requests \cup {None}]

(* Who was handed a token is known to GET /auth/me and to every protected  *)
(* route: no token leaves before its row is committed (auth.py:58, 88,     *)
(* 136; dependencies.py:22-25).                                            *)
TokenHolderIsKnown ==
  \A r \in Requests : pc[r] \in {"created", "granted"} => users[sub[r]] # NoRow

(* The user_id a registration answered stays the id of that user, although *)
(* every login writes the row again and would bring an id of its own       *)
(* (user_service.py:20-46).                                                *)
UserIdIsStable ==
  \A r \in Requests : pc[r] = "created" => users[sub[r]].id = shown[r]

(* A registration answered 201 is for the account it created, and not for  *)
(* one it met, unless an administrator took its account away meanwhile     *)
(* (auth.py:31-58, keycloak_service.py:51-52).                             *)
RegisteredIsMine ==
  \A r \in Requests :
    pc[r] = "created" =>
      \/ creator[sub[r]] = r
      \/ \E s \in edited : creator[s] = r

(* A registration that left an account of Keycloak without a row is still  *)
(* going on or was answered 500 or 502: never 201, never 401 for the       *)
(* password it chose itself, and never the 409 that tells the client       *)
(* somebody else has the name (auth.py:31-58).                             *)
HalfRegistrationIsReported ==
  \A r \in Requests, s \in Subs \ edited :
    creator[s] = r /\ users[s] = NoRow =>
      pc[r] \in {"granting", "upserting", "unavailable", "error"}

(* "Given a username that exists in Keycloak or the database ... a unique  *)
(* violation of the database ... HTTP 409" (auth-register/spec.md:19-25),  *)
(* where neither Keycloak nor the database fails.                          *)
ConflictIs409 ==
  \A r \in Requests : flow[r] = "register" => pc[r] # "error"
=============================================================================
