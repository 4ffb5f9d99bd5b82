--------------------------- MODULE JwksCacheProofs ---------------------------
(* What holds of the key cache for any number of requests and keys, any    *)
(* lifetime and any length of time.                                        *)
EXTENDS JwksCache, TLAPS

(* Times of the fetches lie in the past. *)
FetchesArePast ==
  /\ cacheAt <= now
  /\ \A r \in Requests : asked[r] <= now

(* A retry is under way only while a request waits. *)
RetryWhileWaiting ==
  \A r \in Requests : pc[r] \notin Waiting => attempt[r] = 0

(* A token names a key that existed when it came in. *)
TokenKeyExists ==
  \A r \in Requests : pc[r] # "new" => born[kid[r]] # Never

(* An answer holds no key withdrawn before it was asked for, and every key *)
(* that was never withdrawn.                                               *)
ReplyIsExact ==
  \A r \in Requests :
    pc[r] = "answered" =>
      /\ \A k \in reply[r] : born[k] # Never /\ asked[r] <= retired[k]
      /\ kid[r] \in reply[r] \/ retired[kid[r]] # Never

(* Strengthening of ValidTokenNot401 that the publication of keys keeps.   *)
UnauthorizedKeyRetired ==
  \A r \in Requests :
    pc[r] = "unauthorized" /\ kind[r] = "valid" => retired[kid[r]] # Never

IndInv ==
  /\ TypeOK
  /\ FetchesArePast
  /\ RetryWhileWaiting
  /\ TokenKeyExists
  /\ CacheIsNotOlderThanDated
  /\ ReplyIsExact
  /\ UnauthorizedKeyRetired

USE DEF Time, Never, Waiting, Verdict, TokenKinds

(* What verify_token does with a set of keys, by the state it starts from. *)
LEMMA JudgeCases ==
  ASSUME NEW r \in Requests, NEW keys, NEW at, TypeOK, Judge(r, keys, at)
  PROVE  \/ /\ kid[r] \in keys
            /\ pc' = [pc EXCEPT ![r] = IF kind[r] = "valid"
                                       THEN "accepted" ELSE "unauthorized"]
            /\ asked' = [asked EXCEPT ![r] = 0]
            /\ attempt' = [attempt EXCEPT ![r] = 0]
            /\ cacheKeys' = keys /\ cacheAt' = at
         \/ /\ pc' = [pc EXCEPT ![r] = "fetching"]
            /\ asked' = [asked EXCEPT ![r] = now]
            /\ attempt' = [attempt EXCEPT ![r] = 1]
            /\ cacheKeys' = {} /\ cacheAt' = 0
         \/ /\ kid[r] \notin keys \/ kind[r] = "invalid"
            /\ attempt[r] = 1
            /\ pc' = [pc EXCEPT ![r] = "unauthorized"]
            /\ asked' = [asked EXCEPT ![r] = 0]
            /\ attempt' = [attempt EXCEPT ![r] = 0]
            /\ cacheKeys' = keys /\ cacheAt' = at
BY DEF Judge, Finish, Fetch, Store

(* Judging keeps the invariant when the keys are what the cache may hold:  *)
(* no key withdrawn before their date, and on the second attempt every key *)
(* that was never withdrawn.                                               *)
LEMMA JudgeKeeps ==
  ASSUME NEW r \in Requests, NEW keys \in SUBSET Keys, NEW at \in Time,
         IndInv, Judge(r, keys, at),
         pc[r] # "new", at <= now,
         \A k \in keys : born[k] # Never /\ at <= retired[k],
         attempt[r] = 0 \/ kid[r] \in keys \/ retired[kid[r]] # Never,
         UNCHANGED <<now, keycloak, token>>,
         reply' \in {reply, [reply EXCEPT ![r] = {}]}
  PROVE  IndInv'
<1> USE DEF IndInv
<1>t. /\ Time \subseteq Int /\ 0 \in Time /\ now \in Time /\ 0 <= now
      /\ UNCHANGED <<now, born, retired, kind, kid>>
  BY ParametersOK DEF TypeOK, keycloak, token
<1>j. PICK next \in {"accepted", "unauthorized", "fetching"} :
        /\ pc' = [pc EXCEPT ![r] = next]
        /\ next = "fetching" =>
             /\ asked' = [asked EXCEPT ![r] = now]
             /\ attempt' = [attempt EXCEPT ![r] = 1]
             /\ cacheKeys' = {} /\ cacheAt' = 0
        /\ next # "fetching" =>
             /\ asked' = [asked EXCEPT ![r] = 0]
             /\ attempt' = [attempt EXCEPT ![r] = 0]
             /\ cacheKeys' = keys /\ cacheAt' = at
        /\ next = "unauthorized" /\ kind[r] = "valid" =>
             attempt[r] = 1 /\ kid[r] \notin keys
  <2>. HIDE DEF Time, Never
  <2>. QED BY JudgeCases
<1>1. TypeOK'
  BY <1>t, <1>j DEF TypeOK
<1>2. FetchesArePast'
  BY <1>t, <1>j DEF TypeOK, FetchesArePast
<1>3. RetryWhileWaiting'
  BY <1>j DEF TypeOK, RetryWhileWaiting
<1>4. TokenKeyExists'
  BY <1>t, <1>j DEF TypeOK, TokenKeyExists
<1>5. CacheIsNotOlderThanDated'
  BY <1>t, <1>j DEF CacheIsNotOlderThanDated
<1>6. ReplyIsExact'
  BY <1>t, <1>j DEF TypeOK, ReplyIsExact
<1>7. UnauthorizedKeyRetired'
  BY <1>t, <1>j DEF TypeOK, UnauthorizedKeyRetired
<1>. QED BY <1>1, <1>2, <1>3, <1>4, <1>5, <1>6, <1>7

(* Initially no key is known and no request has come. *)
LEMMA InitEstablishes == Init => IndInv
BY ParametersOK
   DEF Init, IndInv, TypeOK, FetchesArePast, RetryWhileWaiting, TokenKeyExists,
       CacheIsNotOlderThanDated, ReplyIsExact, UnauthorizedKeyRetired

(* A new request brings a token of a key that exists.                      *)
LEMMA ArriveKeeps ==
  ASSUME NEW r \in Requests, IndInv, Arrive(r)  PROVE IndInv'
BY ParametersOK
   DEF IndInv, Arrive, TypeOK, FetchesArePast, RetryWhileWaiting,
       TokenKeyExists, CacheIsNotOlderThanDated, ReplyIsExact,
       UnauthorizedKeyRetired, keycloak, cache

(* The first step of a verification uses the cache, if it is fresh.        *)
LEMMA VerifyKeeps ==
  ASSUME NEW r \in Requests, IndInv, Verify(r)  PROVE IndInv'
<1>1. CASE Judge(r, cacheKeys, cacheAt)
  <2>1. /\ cacheKeys \in SUBSET Keys /\ cacheAt \in Time
        /\ pc[r] # "new" /\ cacheAt <= now
        /\ \A k \in cacheKeys : born[k] # Never /\ cacheAt <= retired[k]
        /\ attempt[r] = 0
        /\ UNCHANGED <<now, keycloak, token>>
        /\ reply' = reply
    BY DEF Verify, IndInv, TypeOK, FetchesArePast, RetryWhileWaiting,
           CacheIsNotOlderThanDated
  <2>. QED BY <1>1, <2>1, JudgeKeeps
<1>2. CASE ~Judge(r, cacheKeys, cacheAt)
  <2>1. /\ UNCHANGED <<now, born, retired, kind, kid, reply>>
        /\ \/ /\ pc' = [pc EXCEPT ![r] = "unauthorized"]
              /\ kind[r] # "valid"
              /\ asked' = [asked EXCEPT ![r] = 0]
              /\ attempt' = [attempt EXCEPT ![r] = 0]
              /\ \/ cacheKeys' = {} /\ cacheAt' = 0
                 \/ cacheKeys' = cacheKeys /\ cacheAt' = cacheAt
           \/ /\ pc' = [pc EXCEPT ![r] = "fetching"]
              /\ pc[r] = "arrived"
              /\ asked' = [asked EXCEPT ![r] = now]
              /\ UNCHANGED <<attempt, cacheKeys, cacheAt>>
    BY <1>2 DEF Verify, Finish, Fetch, Store, keycloak, token, cache
  <2>2. TypeOK'
    BY <2>1, ParametersOK DEF IndInv, TypeOK
  <2>3. (FetchesArePast /\ CacheIsNotOlderThanDated)'
    BY <2>1, ParametersOK
       DEF IndInv, TypeOK, FetchesArePast, CacheIsNotOlderThanDated
  <2>4. (RetryWhileWaiting /\ TokenKeyExists)'
    BY <2>1 DEF IndInv, TypeOK, RetryWhileWaiting, TokenKeyExists, Verify
  <2>5. (ReplyIsExact /\ UnauthorizedKeyRetired)'
    BY <2>1 DEF IndInv, TypeOK, ReplyIsExact, UnauthorizedKeyRetired
  <2>. QED BY <2>2, <2>3, <2>4, <2>5 DEF IndInv
<1>. QED BY <1>1, <1>2

(* The answer that is received is judged with the date it was asked at.    *)
LEMMA ReceiveKeeps ==
  ASSUME NEW r \in Requests, IndInv, Receive(r)  PROVE IndInv'
<1>1. /\ reply[r] \in SUBSET Keys /\ asked[r] \in Time
      /\ pc[r] # "new" /\ asked[r] <= now
      /\ \A k \in reply[r] : born[k] # Never /\ asked[r] <= retired[k]
      /\ kid[r] \in reply[r] \/ retired[kid[r]] # Never
      /\ UNCHANGED <<now, keycloak, token>>
      /\ reply' = [reply EXCEPT ![r] = {}]
  BY DEF Receive, IndInv, TypeOK, FetchesArePast, ReplyIsExact
<1>. QED BY <1>1, JudgeKeeps DEF Receive

(* Keycloak answers with the keys of that moment, or not at all.           *)
LEMMA FetchEndKeeps ==
  ASSUME NEW r \in Requests, IndInv, Answer(r) \/ FetchFails(r)
  PROVE  IndInv'
<1>1. CASE Answer(r)
  BY <1>1, ParametersOK
     DEF IndInv, Answer, Published, TypeOK, FetchesArePast, RetryWhileWaiting,
         TokenKeyExists, CacheIsNotOlderThanDated, ReplyIsExact,
         UnauthorizedKeyRetired, keycloak, cache, token
<1>2. CASE FetchFails(r)
  BY <1>2, ParametersOK
     DEF IndInv, FetchFails, Finish, TypeOK, FetchesArePast, RetryWhileWaiting,
         TokenKeyExists, CacheIsNotOlderThanDated, ReplyIsExact,
         UnauthorizedKeyRetired, keycloak, cache, token
<1>. QED BY <1>1, <1>2

(* Keys are withdrawn now, and fetches lie in the past; time only makes    *)
(* them older.                                                             *)
LEMMA KeycloakKeeps ==
  ASSUME IndInv, (\E k \in Keys : PublishKey(k) \/ RetireKey(k)) \/ Tick
  PROVE  IndInv'
<1>1. ASSUME NEW k \in Keys, PublishKey(k)  PROVE IndInv'
  BY <1>1, ParametersOK
     DEF IndInv, PublishKey, TypeOK, FetchesArePast, RetryWhileWaiting,
         TokenKeyExists, CacheIsNotOlderThanDated, ReplyIsExact,
         UnauthorizedKeyRetired, cache, token
<1>2. ASSUME NEW k \in Keys, RetireKey(k)  PROVE IndInv'
  BY <1>2, ParametersOK
     DEF IndInv, RetireKey, Published, TypeOK, FetchesArePast,
         RetryWhileWaiting, TokenKeyExists, CacheIsNotOlderThanDated,
         ReplyIsExact, UnauthorizedKeyRetired, cache, token
<1>3. CASE Tick
  BY <1>3, ParametersOK
     DEF IndInv, Tick, TypeOK, FetchesArePast, RetryWhileWaiting,
         TokenKeyExists, CacheIsNotOlderThanDated, ReplyIsExact,
         UnauthorizedKeyRetired, keycloak, cache, token
<1>. QED BY <1>1, <1>2, <1>3

(* The invariant is inductive. *)
LEMMA NextKeeps == IndInv /\ [Next]_vars => IndInv'
<1> SUFFICES ASSUME IndInv, [Next]_vars  PROVE IndInv'
  OBVIOUS
<1>1. CASE Next
  BY <1>1, ArriveKeeps, VerifyKeeps, ReceiveKeeps, FetchEndKeeps, KeycloakKeeps
     DEF Next
<1>2. CASE UNCHANGED vars
  BY <1>2
     DEF IndInv, vars, keycloak, cache, token, TypeOK, FetchesArePast,
         RetryWhileWaiting, TokenKeyExists, CacheIsNotOlderThanDated,
         ReplyIsExact, UnauthorizedKeyRetired
<1>. QED BY <1>1, <1>2

(* Every reachable state of the key cache satisfies the invariant.         *)
THEOREM Invariance == Spec => []IndInv
BY InitEstablishes, NextKeeps, PTL DEF Spec

(* Type correctness (keycloak_service.py:11, 118-135). *)
THEOREM TypeCorrect == Spec => []TypeOK
BY Invariance, PTL DEF IndInv

(* The cached keys are as fresh as their date says, however many answers   *)
(* overtake each other (keycloak_service.py:118-135).                      *)
THEOREM CacheDateIsHonest == Spec => []CacheIsNotOlderThanDated
BY Invariance, PTL DEF IndInv

(* No valid token of a published key is refused (security.py:12-48).       *)
THEOREM ValidTokensPass == Spec => []ValidTokenNot401
<1>1. IndInv => ValidTokenNot401
  BY DEF IndInv, UnauthorizedKeyRetired, ValidTokenNot401, Published
<1>. QED BY <1>1, Invariance, PTL

(* A withdrawn key opens the door for one lifetime at most                 *)
(* (keycloak_service.py:121, security.py:21-27).                           *)
THEOREM RetiredKeysExpire == Spec => RetiredKeyExpires
<1>1. IndInv /\ [Next]_vars =>
        [\A r \in Requests :
           pc[r] # "accepted" /\ pc'[r] = "accepted" =>
             \/ kid[r] \in Published
             \/ now - retired[kid[r]] < TTL
             \/ pc[r] = "answered" /\ asked[r] <= retired[kid[r]]]_vars
  <2> SUFFICES ASSUME IndInv, Next, NEW r \in Requests,
                      pc[r] # "accepted", pc'[r] = "accepted"
               PROVE  \/ now - retired[kid[r]] < TTL
                      \/ pc[r] = "answered" /\ asked[r] <= retired[kid[r]]
    OBVIOUS
  <2>1. \/ Verify(r) /\ Judge(r, cacheKeys, cacheAt) /\ CacheFresh
        \/ Receive(r)
    BY DEF Next, Arrive, Verify, Answer, FetchFails, Receive, Finish, Fetch,
           PublishKey, RetireKey, Tick, IndInv, TypeOK, Judge
  <2>2. CASE Verify(r) /\ Judge(r, cacheKeys, cacheAt) /\ CacheFresh
    <3>1. kid[r] \in cacheKeys
      BY <2>2, JudgeCases DEF IndInv, TypeOK
    <3>. QED
      BY <2>2, <3>1, ParametersOK
         DEF IndInv, TypeOK, CacheIsNotOlderThanDated, CacheFresh
  <2>3. CASE Receive(r)
    <3>1. kid[r] \in reply[r] /\ pc[r] = "answered"
      BY <2>3, JudgeCases DEF Receive, IndInv, TypeOK
    <3>. QED
      BY <3>1 DEF IndInv, ReplyIsExact
  <2>. QED BY <2>1, <2>2, <2>3
<1>. QED BY <1>1, Invariance, PTL DEF Spec, RetiredKeyExpires
=============================================================================
