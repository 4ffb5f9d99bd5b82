------------------------------ MODULE JwksCache ------------------------------
(***************************************************************************)
(* Token verification: verify_token (app/core/security.py) over the        *)
(* process-wide cache of Keycloak's signing keys, get_jwks and             *)
(* invalidate_jwks_cache (app/services/keycloak_service.py).  The only     *)
(* await is the HTTP fetch; everything between two fetches is one step.    *)
(* Several requests may have a fetch in flight, and an answer may arrive   *)
(* long after Keycloak sent it.  Keycloak itself is external: it publishes *)
(* and withdraws keys, and any fetch may fail.                             *)
(***************************************************************************)
EXTENDS Integers

CONSTANTS
  Requests,   \* requests with a bearer token that can be in progress at once
  Keys,       \* key ids Keycloak may ever publish
  TTL,        \* keycloak_jwks_cache_ttl
  MaxTime     \* bound of the clock

ASSUME ParametersOK == TTL \in Nat /\ MaxTime \in Nat

TokenKinds == {"valid",        \* signed, in date, issued to this client
               "invalid",      \* expired, or its signature is wrong
               "otherClient",  \* issued to another client (azp)
               "noKid",        \* a header without key id
               "malformed"}    \* no JWT at all

VARIABLES
  now,
  born,       \* when each key was published, Never if it was not
  retired,    \* when it was withdrawn, Never if it was not
  cacheKeys,  \* _jwks_cache["keys"]
  cacheAt,    \* _jwks_cache["fetched_at"]
  pc,         \* where each request stands, or the verdict on its token
  kind, kid,  \* its token (any before one came), and the key it names
  attempt,
  asked,      \* "now" of its current fetch
  reply       \* the keys in Keycloak's answer to it

keycloak == <<born, retired>>
cache == <<cacheKeys, cacheAt>>
token == <<kind, kid>>
vars == <<now, keycloak, cache, pc, token, attempt, asked, reply>>

Never == MaxTime + 1
Time == 0..MaxTime
Published == {k \in Keys : born[k] # Never /\ retired[k] = Never}
Waiting == {"fetching", "answered"}
Verdict == {"accepted", "unauthorized", "error"}

Init ==
  /\ now = 0
  /\ born    = [k \in Keys |-> Never]
  /\ retired = [k \in Keys |-> Never]
  /\ cacheKeys = {} /\ cacheAt = 0
  /\ pc = [r \in Requests |-> "new"]
  /\ kind = [r \in Requests |-> "malformed"]
  /\ kid \in [Requests -> Keys]
  /\ attempt = [r \in Requests |-> 0]
  /\ asked   = [r \in Requests |-> 0]
  /\ reply   = [r \in Requests |-> {}]

-----------------------------------------------------------------------------
(* get_jwks up to its await: "now" is taken before the fetch is sent. *)
Fetch(r) ==
  /\ pc' = [pc EXCEPT ![r] = "fetching"]
  /\ asked' = [asked EXCEPT ![r] = now]

Finish(r, verdict) ==
  /\ pc' = [pc EXCEPT ![r] = verdict]
  /\ asked' = [asked EXCEPT ![r] = 0]
  /\ attempt' = [attempt EXCEPT ![r] = 0]

Store(keys, at) == cacheKeys' = keys /\ cacheAt' = at

(* Faulty variant: a key that is not found is not looked for again. *)
JudgeOnce(r, keys, at) ==
  /\ Finish(r, IF kid[r] \in keys /\ kind[r] = "valid"
               THEN "accepted" ELSE "unauthorized")
  /\ Store(keys, at)

(* Faulty variant: three attempts instead of two. *)
JudgeThrice(r, keys, at) ==
  LET decided == kid[r] \in keys /\ kind[r] # "invalid" IN
  \/ /\ decided
     /\ Finish(r, IF kind[r] = "valid" THEN "accepted" ELSE "unauthorized")
     /\ Store(keys, at)
  \/ /\ ~decided /\ attempt[r] < 2
     /\ Store({}, 0)
     /\ attempt' = [attempt EXCEPT ![r] = @ + 1]
     /\ Fetch(r)
  \/ /\ ~decided /\ attempt[r] = 2
     /\ Finish(r, "unauthorized")
     /\ Store(keys, at)

(* The rest of verify_token once get_jwks has returned keys, the cache     *)
(* then holding keys fetched at time at: an unknown key or a failed decode *)
(* invalidates the cache and fetches once more, the second time it is 401. *)
Judge(r, keys, at) ==
  LET decided == kid[r] \in keys /\ kind[r] # "invalid" IN
  \/ /\ decided
     /\ Finish(r, IF kind[r] = "valid" THEN "accepted" ELSE "unauthorized")
     /\ Store(keys, at)
  \/ /\ ~decided /\ attempt[r] = 0
     /\ Store({}, 0)
     /\ attempt' = [attempt EXCEPT ![r] = 1]
     /\ Fetch(r)
  \/ /\ ~decided /\ attempt[r] = 1
     /\ Finish(r, "unauthorized")
     /\ Store(keys, at)

(* Faulty variant: the TTL is not looked at. *)
CacheNonEmpty == cacheKeys # {}

CacheFresh == now - cacheAt < TTL /\ cacheKeys # {}

(* A request comes in, its token signed some time ago. *)
Arrive(r) ==
  /\ pc[r] \in {"new"} \cup Verdict
  /\ pc' = [pc EXCEPT ![r] = "arrived"]
  /\ \E t \in TokenKinds : kind' = [kind EXCEPT ![r] = t]
  /\ \E k \in Keys : born[k] # Never /\ kid' = [kid EXCEPT ![r] = k]
  /\ UNCHANGED <<now, keycloak, cache, attempt, asked, reply>>

(* verify_token up to its first await or its verdict. *)
Verify(r) ==
  /\ pc[r] = "arrived"
  /\ \/ /\ kind[r] = "malformed"
        /\ Finish(r, "unauthorized")
        /\ Store({}, 0)
     \/ /\ kind[r] = "noKid"
        /\ Finish(r, "unauthorized")
        /\ UNCHANGED cache
     \/ /\ kind[r] \notin {"malformed", "noKid"} /\ CacheFresh
        /\ Judge(r, cacheKeys, cacheAt)
     \/ /\ kind[r] \notin {"malformed", "noKid"} /\ ~CacheFresh
        /\ Fetch(r)
        /\ UNCHANGED <<cache, attempt>>
  /\ UNCHANGED <<now, keycloak, token, reply>>

(* Faulty variant: the cache is dated when the answer arrives. *)
ReceiveDatedNow(r) ==
  /\ pc[r] = "answered"
  /\ Judge(r, reply[r], now)
  /\ reply' = [reply EXCEPT ![r] = {}]
  /\ UNCHANGED <<now, keycloak, token>>

(* The fetch resumes: the cache is overwritten, whatever it holds by now.  *)
Receive(r) ==
  /\ pc[r] = "answered"
  /\ Judge(r, reply[r], asked[r])
  /\ reply' = [reply EXCEPT ![r] = {}]
  /\ UNCHANGED <<now, keycloak, token>>

(* httpx raises, or raise_for_status does: neither is caught, hence 500. *)
FetchFails(r) ==
  /\ pc[r] = "fetching"
  /\ Finish(r, "error")
  /\ UNCHANGED <<now, keycloak, cache, token, reply>>

-----------------------------------------------------------------------------
(* Keycloak *)

Answer(r) ==
  /\ pc[r] = "fetching"
  /\ reply' = [reply EXCEPT ![r] = Published]
  /\ pc' = [pc EXCEPT ![r] = "answered"]
  /\ UNCHANGED <<now, keycloak, cache, token, attempt, asked>>

PublishKey(k) ==
  /\ born[k] = Never
  /\ born' = [born EXCEPT ![k] = now]
  /\ UNCHANGED <<now, retired, cache, pc, token, attempt, asked, reply>>

RetireKey(k) ==
  /\ k \in Published
  /\ retired' = [retired EXCEPT ![k] = now]
  /\ UNCHANGED <<now, born, cache, pc, token, attempt, asked, reply>>

Tick ==
  /\ now < MaxTime
  /\ now' = now + 1
  /\ UNCHANGED <<keycloak, cache, pc, token, attempt, asked, reply>>

Next ==
  \/ \E r \in Requests :
       Arrive(r) \/ Verify(r) \/ Answer(r) \/ FetchFails(r) \/ Receive(r)
  \/ \E k \in Keys : PublishKey(k) \/ RetireKey(k)
  \/ Tick

Spec == Init /\ [][Next]_vars

-----------------------------------------------------------------------------
TypeOK ==
  /\ now \in Time
  /\ born \in [Keys -> Time \cup {Never}]
  /\ retired \in [Keys -> Time \cup {Never}]
  /\ cacheKeys \subseteq Keys /\ cacheAt \in Time
  /\ pc \in [Requests -> {"new", "arrived"} \cup Waiting \cup Verdict]
  /\ kind \in [Requests -> TokenKinds] /\ kid \in [Requests -> Keys]
  /\ attempt \in [Requests -> {0, 1}]
  /\ asked \in [Requests -> Time]
  /\ reply \in [Requests -> SUBSET Keys]

(* No key in the cache was withdrawn before the time the cache is dated,   *)
(* although answers overtake each other: a late answer from before a       *)
(* rotation that replaces a newer one brings its older date with it        *)
(* (keycloak_service.py:120-128).                                          *)
CacheIsNotOlderThanDated ==
  \A k \in cacheKeys : born[k] # Never /\ cacheAt <= retired[k]

(* A token signed by a withdrawn key is accepted no later than one TTL     *)
(* after the withdrawal, or by a request whose own fetch had begun before  *)
(* it (keycloak_service.py:121, security.py:21-27).                        *)
RetiredKeyExpires ==
  [][\A r \in Requests :
       pc[r] # "accepted" /\ pc'[r] = "accepted" =>
         \/ kid[r] \in Published
         \/ now - retired[kid[r]] < TTL
         \/ pc[r] = "answered" /\ asked[r] <= retired[kid[r]]]_vars

(* A valid token whose key Keycloak still publishes is never answered 401, *)
(* however stale the cache and whatever other requests and their fetches   *)
(* do to it meanwhile (the retry of security.py:14-27, auth-me/spec.md:51).*)
ValidTokenNot401 ==
  \A r \in Requests :
    pc[r] = "unauthorized" /\ kind[r] = "valid" => kid[r] \notin Published

(* "Given an expired access_token ... HTTP 401", likewise for a token with *)
(* a wrong signature (auth-me/spec.md:22-35): a token that has failed once *)
(* is not answered otherwise.  The code answers 500 when the second fetch  *)
(* fails, and has emptied the cache of everybody else (security.py:41-45). *)
RefusedTokenIs401 ==
  [][\A r \in Requests :
       kind[r] = "invalid" /\ attempt[r] = 1 => pc'[r] # "error"]_vars
=============================================================================
