----------------------------- MODULE AuthSession -----------------------------
(***************************************************************************)
(* How a call of the browser gets a session: getOrCreateSession of         *)
(* frontend/lib/session.ts and signAuth of lib/auth.ts ask the gateway for *)
(* a nonce, have the wallet sign it and trade the signature for a token;   *)
(* backend/gateway/routes_auth.py and require_session of clients.py keep   *)
(* nonces, rate limits and sessions in Redis.                              *)
(*                                                                         *)
(* A call stands for what it draws once: its nonce and its token (uuid4).  *)
(* A tab caches one session, in memory and in its sessionStorage, which    *)
(* are written and cleared together.  Time counts units of the margin the  *)
(* browser keeps; nonces and rate limits, which live minutes, may expire   *)
(* at any moment.                                                          *)
(***************************************************************************)
EXTENDS Integers, FiniteSets

CONSTANTS
  Tabs, Addresses, Calls,
  TabOf,       \* [Calls -> Tabs]
  AddressOf,   \* [Calls -> Addresses]
  RateLimit,   \* _RATE_LIMIT (10)
  SessionTTL,  \* _SESSION_TTL (3600 s), in units of Margin
  Margin,      \* the 60 s by which the browser forgets a session earlier
  MaxTime,     \* bound: the clock
  MaxCrashes,  \* bound: restarts of the gateway
  None

ASSUME AuthAssumption ==
  /\ TabOf \in [Calls -> Tabs]
  /\ AddressOf \in [Calls -> Addresses]
  /\ RateLimit \in Nat \ {0} /\ SessionTTL \in Nat /\ Margin \in Nat
  /\ Margin < SessionTTL
  /\ MaxTime \in Nat /\ MaxCrashes \in Nat
  /\ None \notin Calls \cup Addresses \cup [address : Addresses, expires : Nat]

VARIABLES
  limit,     \* ratelimit:nonce:<address>: its count and whether it has a TTL
  nonce,     \* nonce:<address>: the call it was drawn for, or None
  session,   \* session:<token>: address and when it expires, or None
  account,   \* [Tabs -> the account the wallet has selected]
  cache,     \* [Tabs -> _mem: token, address and expiresAt, or None]
  inflight,  \* _inflight: [Tabs -> [Addresses -> the call logging in, or None]]
  pc,        \* where a call is
  token,     \* the token a call was given, or None
  signer,    \* the account that signed a call's nonce, or None
  leader,    \* the call whose login a call waits for, or None
  now, crashes

redisVars == <<limit, nonce, session>>
tabVars == <<account, cache, inflight>>
callVars == <<token, signer, leader>>
vars == <<redisVars, tabVars, pc, callVars, now, crashes>>

Init ==
  /\ limit = [a \in Addresses |-> [count |-> 0, ttl |-> FALSE]]
  /\ nonce = [a \in Addresses |-> None]
  /\ session = [c \in Calls |-> None]
  /\ account \in [Tabs -> Addresses]
  /\ cache = [t \in Tabs |-> None]
  /\ inflight = [t \in Tabs |-> [a \in Addresses |-> None]]
  /\ pc = [c \in Calls |-> "idle"]
  /\ token = [c \in Calls |-> None]
  /\ signer = [c \in Calls |-> None]
  /\ leader = [c \in Calls |-> None]
  /\ now = 0
  /\ crashes = 0

Goes(c, from, to) == pc[c] = from /\ pc' = [pc EXCEPT ![c] = to]

-----------------------------------------------------------------------------
(* The browser.                                                            *)

\* load: the cached session, if it is of this address and not too old.
loaded_AnyAddress(t, a) == cache[t] # None /\ now < cache[t].expiresAt
loaded(t, a) == cache[t] # None /\ cache[t].address = a /\ now < cache[t].expiresAt

existing(t, a) == inflight[t][a]

getOrCreateSession(c) ==
  LET t == TabOf[c]  a == AddressOf[c] IN
  /\ account[t] = a
  /\ \/ /\ loaded(t, a)
        /\ Goes(c, "idle", "request")
        /\ token' = [token EXCEPT ![c] = cache[t].token]
        /\ UNCHANGED <<inflight, leader>>
     \/ /\ ~loaded(t, a) /\ existing(t, a) # None
        /\ Goes(c, "idle", "joined")
        /\ leader' = [leader EXCEPT ![c] = existing(t, a)]
        /\ UNCHANGED <<inflight, token>>
     \/ /\ ~loaded(t, a) /\ existing(t, a) = None
        /\ Goes(c, "idle", "nonce")
        /\ inflight' = [inflight EXCEPT ![t][a] = c]
        /\ UNCHANGED <<token, leader>>
  /\ UNCHANGED <<redisVars, account, cache, signer, now, crashes>>

\* .finally(() => _inflight.delete(key))
released(c) == [inflight EXCEPT ![TabOf[c]][AddressOf[c]] = IF @ = c THEN None ELSE @]

\* A login or a request that ends with an error, without an answer of 401.
Fails(c, from) == Goes(c, from, "failed") /\ inflight' = released(c)

settled_OnSuccess(l) == token[l] # None
settled(l) == token[l] # None \/ pc[l] = "failed"

Join(c) ==
  LET l == leader[c] IN
  /\ pc[c] = "joined" /\ settled(l)
  /\ Goes(c, "joined", IF token[l] = None THEN "failed" ELSE "request")
  /\ token' = [token EXCEPT ![c] = token[l]]
  /\ UNCHANGED <<redisVars, tabVars, signer, leader, now, crashes>>

\* signMessage signs with the account selected now, or is declined.
signMessage(c) ==
  /\ \/ /\ Goes(c, "sign", "session")
        /\ signer' = [signer EXCEPT ![c] = account[TabOf[c]]]
        /\ UNCHANGED inflight
     \/ Fails(c, "sign") /\ UNCHANGED signer
  /\ UNCHANGED <<redisVars, account, cache, token, leader, now, crashes>>

expiresAt_NoMargin == now + SessionTTL
expiresAt == now + SessionTTL - Margin

save(c) ==
  /\ Goes(c, "created", "request")
  /\ cache' = [cache EXCEPT ![TabOf[c]] =
       [token |-> c, address |-> AddressOf[c], expiresAt |-> expiresAt]]
  /\ token' = [token EXCEPT ![c] = c]
  /\ inflight' = released(c)
  /\ UNCHANGED <<redisVars, account, signer, leader, now, crashes>>

\* The response interceptor of api.ts on 401.
clearSession(c) ==
  /\ Goes(c, "denied", "failed")
  /\ cache' = [cache EXCEPT ![TabOf[c]] = None]
  /\ UNCHANGED <<redisVars, account, inflight, callVars, now, crashes>>

\* A request that is lost before the gateway has it, or an answer after.
NetworkFails(c) ==
  /\ \E from \in {"nonce", "session", "created", "request"} : Fails(c, from)
  /\ UNCHANGED <<redisVars, account, cache, callVars, now, crashes>>

SwitchAccount(t) ==
  /\ \E a \in Addresses \ {account[t]} : account' = [account EXCEPT ![t] = a]
  /\ UNCHANGED <<redisVars, cache, inflight, pc, callVars, now, crashes>>

-----------------------------------------------------------------------------
(* The gateway, one Redis command at a time.                               *)

opensWindow(count) == count = 1

\* get_nonce: INCR, then EXPIRE if this is the first, then SETEX.
rateLimited(c) ==
  LET a == AddressOf[c]  count == limit[a].count + 1 IN
  /\ limit' = [limit EXCEPT ![a].count = count]
  /\ \/ opensWindow(count) /\ Goes(c, "nonce", "expire") /\ UNCHANGED inflight
     \/ /\ ~opensWindow(count) /\ count <= RateLimit
        /\ Goes(c, "nonce", "issue") /\ UNCHANGED inflight
     \/ ~opensWindow(count) /\ count > RateLimit /\ Fails(c, "nonce")
  /\ UNCHANGED <<nonce, session, account, cache, callVars, now, crashes>>

setWindow(c) ==
  /\ Goes(c, "expire", "issue")
  /\ limit' = [limit EXCEPT ![AddressOf[c]].ttl = TRUE]
  /\ UNCHANGED <<nonce, session, tabVars, callVars, now, crashes>>

issueNonce(c) ==
  /\ Goes(c, "issue", "sign")
  /\ nonce' = [nonce EXCEPT ![AddressOf[c]] = c]
  /\ UNCHANGED <<limit, session, tabVars, callVars, now, crashes>>

verify(c) == nonce[AddressOf[c]] = c /\ signer[c] = AddressOf[c]

\* create_session: GET and verify, then DEL, then SETEX.
verifySignature(c) ==
  /\ \/ verify(c) /\ Goes(c, "session", "delete") /\ UNCHANGED inflight
     \/ ~verify(c) /\ Fails(c, "session")
  /\ UNCHANGED <<redisVars, account, cache, callVars, now, crashes>>

deleteNonce(c) ==
  /\ Goes(c, "delete", "create")
  /\ nonce' = [nonce EXCEPT ![AddressOf[c]] = None]
  /\ UNCHANGED <<limit, session, tabVars, callVars, now, crashes>>

createSession(c) ==
  /\ Goes(c, "create", "created")
  /\ session' = [session EXCEPT ![c] = [address |-> AddressOf[c], expires |-> now + SessionTTL]]
  /\ UNCHANGED <<limit, nonce, tabVars, callVars, now, crashes>>

live(t) == session[t] # None /\ now < session[t].expires

\* require_session: GET, then EXPIRE, which a key that is gone ignores.
requireSession(c) ==
  /\ \/ Goes(c, "request", "refresh") /\ live(token[c])
     \/ Goes(c, "request", "denied") /\ ~live(token[c])
  /\ UNCHANGED <<redisVars, tabVars, callVars, now, crashes>>

refreshSession(c) ==
  /\ Goes(c, "refresh", "done")
  /\ session' = IF live(token[c])
                THEN [session EXCEPT ![token[c]].expires = now + SessionTTL] ELSE session
  /\ UNCHANGED <<limit, nonce, tabVars, callVars, now, crashes>>

GatewayCrash ==
  LET hit == {c \in Calls : pc[c] \in {"expire", "issue", "delete", "create", "refresh"}} IN
  /\ crashes < MaxCrashes
  /\ crashes' = crashes + 1
  /\ pc' = [c \in Calls |-> IF c \in hit THEN "failed" ELSE pc[c]]
  /\ inflight' = [t \in Tabs |-> [a \in Addresses |->
                    IF inflight[t][a] \in hit THEN None ELSE inflight[t][a]]]
  /\ UNCHANGED <<redisVars, account, cache, callVars, now>>

-----------------------------------------------------------------------------
(* Time.                                                                   *)

\* An answer with a new token takes at most Margin to reach the browser.
Tick ==
  /\ now < MaxTime
  /\ \A c \in Calls : pc[c] = "created" => now < session[c].expires - SessionTTL + Margin
  /\ now' = now + 1
  /\ UNCHANGED <<redisVars, tabVars, pc, callVars, crashes>>

NonceExpires(a) ==
  /\ nonce[a] # None
  /\ nonce' = [nonce EXCEPT ![a] = None]
  /\ UNCHANGED <<limit, session, tabVars, pc, callVars, now, crashes>>

LimitExpires(a) ==
  /\ limit[a].ttl
  /\ limit' = [limit EXCEPT ![a] = [count |-> 0, ttl |-> FALSE]]
  /\ UNCHANGED <<nonce, session, tabVars, pc, callVars, now, crashes>>

-----------------------------------------------------------------------------

ServerStep(c) ==
  \/ rateLimited(c) \/ setWindow(c) \/ issueNonce(c)
  \/ verifySignature(c) \/ deleteNonce(c) \/ createSession(c)
  \/ requireSession(c) \/ refreshSession(c)
BrowserStep(c) == Join(c) \/ signMessage(c) \/ save(c) \/ clearSession(c)

Next ==
  \/ \E c \in Calls : getOrCreateSession(c) \/ BrowserStep(c) \/ ServerStep(c) \/ NetworkFails(c)
  \/ \E t \in Tabs : SwitchAccount(t)
  \/ \E a \in Addresses : NonceExpires(a) \/ LimitExpires(a)
  \/ Tick
  \/ GatewayCrash

Spec == Init /\ [][Next]_vars

\* Handlers and promises run on, and a prompt of the wallet is answered.
FairSpec == Spec /\ \A c \in Calls : WF_vars(BrowserStep(c) \/ ServerStep(c))

-----------------------------------------------------------------------------
(* Properties.                                                             *)

\* The gateway serves a call only as the address that asked for it, and that
\* address signed the nonce behind the token, whatever the account the wallet
\* had selected by then and whatever session the tab had cached.
ServedAsCaller ==
  \A c \in Calls : token[c] # None =>
    /\ session[token[c]] # None => session[token[c]].address = AddressOf[c]
    /\ signer[token[c]] = AddressOf[c]

\* A session the browser still uses is one the gateway still has: the margin
\* covers the time the answer took, so a fresh cache never leads to a 401.
CachedIsLive ==
  \A t \in Tabs : cache[t] # None /\ now < cache[t].expiresAt =>
    live(cache[t].token) /\ session[cache[t].token].address = cache[t].address

\* "Too many requests - try again shortly" (routes_auth.py:56): an address
\* over its limit has a counter that expires, or that is about to get its TTL.
LimitIsTemporary ==
  \A a \in Addresses : limit[a].count > RateLimit =>
    \/ limit[a].ttl
    \/ \E c \in Calls : pc[c] = "expire" /\ AddressOf[c] = a

\* Every call that is started is served or fails, also when the login it
\* waits for is that of another call which fails.
EveryCallEnds ==
  \A c \in Calls : (pc[c] # "idle") ~> (pc[c] \in {"done", "failed"})
=============================================================================
