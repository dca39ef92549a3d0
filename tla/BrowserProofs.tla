------------------------------ MODULE BrowserProofs ------------------------------
(***************************************************************************)
(* What the browser keeps.  That a call is served only as the address that *)
(* asked and signed, and that a session the browser still uses is one the  *)
(* gateway still has, for any number of tabs, accounts, calls and restarts *)
(* and any lifetimes.  That its list of files is exact, and that no stored *)
(* file disappears from it in silence, for any number of tabs, files and   *)
(* deletions, as long as operations neither overlap nor start from an      *)
(* outdated page.                                                          *)
(***************************************************************************)
EXTENDS AuthSession, FileList, TLAPS

PCs == {"idle", "joined", "nonce", "expire", "issue", "sign", "session", "delete", "create",
        "created", "request", "refresh", "denied", "done", "failed"}

\* From the last signature on.
Signed == {"delete", "create", "created"}
\* Where a call is that has created its session, or none.
After == {"created", "request", "refresh", "denied", "done", "failed"}

Sessions == [address : Addresses, expires : Nat]
Cached == [token : Calls, address : Addresses, expiresAt : Int]

-----------------------------------------------------------------------------
(* The inductive invariant.                                                *)

TypeInv ==
  /\ pc \in [Calls -> PCs]
  /\ session \in [Calls -> Sessions \cup {None}]
  /\ cache \in [Tabs -> Cached \cup {None}]
  /\ inflight \in [Tabs -> [Addresses -> Calls \cup {None}]]
  /\ token \in [Calls -> Calls \cup {None}]
  /\ signer \in [Calls -> Addresses \cup {None}]
  /\ leader \in [Calls -> Calls \cup {None}]
  /\ account \in [Tabs -> Addresses]
  /\ now \in Nat

\* The gateway lets only the address that asked past the signature.
SignedInv == \A c \in Calls : pc[c] \in Signed => signer[c] = AddressOf[c]

\* A session is its call's, whose signature is settled, and never outlives its TTL.
SessionInv == \A c \in Calls : session[c] # None =>
  /\ session[c].address = AddressOf[c]
  /\ signer[c] = AddressOf[c]
  /\ pc[c] \in After
  /\ session[c].expires <= now + SessionTTL

\* The answer with a new token is not late.
CreatedInv == \A c \in Calls : pc[c] = "created" =>
  /\ session[c] # None
  /\ now + SessionTTL - Margin <= session[c].expires

\* Tokens, caches and logins under way are those of the address.
TokenInv == \A c \in Calls : token[c] # None =>
  /\ session[token[c]] # None
  /\ AddressOf[token[c]] = AddressOf[c]
CacheInv == \A t \in Tabs : cache[t] # None =>
  /\ session[cache[t].token] # None
  /\ AddressOf[cache[t].token] = cache[t].address
  /\ cache[t].expiresAt <= session[cache[t].token].expires
LeaderInv == \A c \in Calls : leader[c] # None => AddressOf[leader[c]] = AddressOf[c]
\* A call that waits for a login knows whose.
JoinedInv == \A c \in Calls : pc[c] = "joined" => leader[c] # None
FlightInv == \A t \in Tabs, a \in Addresses :
  inflight[t][a] # None => AddressOf[inflight[t][a]] = a

IInv ==
  /\ TypeInv
  /\ SignedInv
  /\ SessionInv
  /\ CreatedInv
  /\ TokenInv
  /\ CacheInv
  /\ LeaderInv
  /\ JoinedInv
  /\ FlightInv

-----------------------------------------------------------------------------

LEMMA Constants ==
  /\ \A c \in Calls : TabOf[c] \in Tabs /\ AddressOf[c] \in Addresses
  /\ SessionTTL \in Nat /\ Margin \in Nat
  /\ None \notin Calls /\ None \notin Addresses /\ None \notin Sessions
  BY AuthAssumption DEF Sessions

LEMMA InitInv == ASSUME Init PROVE IInv
<1>1. TypeInv
  BY DEF Init, TypeInv, PCs
<1> QED
  BY <1>1 DEF Init, IInv, SignedInv, SessionInv, CreatedInv, TokenInv, CacheInv, LeaderInv,
     JoinedInv, FlightInv, Signed

\* What a change of one call's place needs.
LEMMA Moves ==
  ASSUME TypeInv, NEW c \in Calls, NEW from, NEW to \in PCs, Goes(c, from, to)
  PROVE  /\ pc' \in [Calls -> PCs] /\ pc[c] = from /\ pc'[c] = to
         /\ \A d \in Calls \ {c} : pc'[d] = pc[d]
  BY DEF Goes, TypeInv

\* A login that ends is not under way any more.
LEMMA Released ==
  ASSUME TypeInv, FlightInv, NEW c \in Calls, inflight' = released(c)
  PROVE  inflight' \in [Tabs -> [Addresses -> Calls \cup {None}]] /\ FlightInv'
<1>1. TabOf[c] \in Tabs /\ AddressOf[c] \in Addresses
  BY Constants
<1>2. inflight' \in [Tabs -> [Addresses -> Calls \cup {None}]]
  BY <1>1 DEF TypeInv, released
<1>3. ASSUME NEW t \in Tabs, NEW a \in Addresses
      PROVE  inflight'[t][a] = inflight[t][a] \/ inflight'[t][a] = None
  BY <1>1 DEF TypeInv, released
<1>4. FlightInv'
  BY <1>3 DEF FlightInv
<1> QED
  BY <1>2, <1>4

\* A step that only moves a call forward, and may end the login it has under way.
LEMMA MoveInv ==
  ASSUME IInv, NEW c \in Calls, NEW from, NEW to \in PCs \ (Signed \cup {"joined"}), Goes(c, from, to),
         from \in After => to \in After,
         inflight' \in {inflight, released(c)},
         UNCHANGED <<session, cache, token, signer, leader, account, now>>
  PROVE  IInv'
<1>1. /\ pc' \in [Calls -> PCs] /\ pc[c] = from /\ pc'[c] = to
      /\ \A d \in Calls \ {c} : pc'[d] = pc[d]
  BY Moves DEF IInv
<1>2. inflight' \in [Tabs -> [Addresses -> Calls \cup {None}]] /\ FlightInv'
  <2>1. CASE inflight' = inflight
    BY <2>1 DEF IInv, TypeInv, FlightInv
  <2>2. CASE inflight' = released(c)
    BY <2>2, Released DEF IInv
  <2> QED
    BY <2>1, <2>2
<1>3. TypeInv'
  BY <1>1, <1>2 DEF IInv, TypeInv
<1>4. SignedInv'
  BY <1>1 DEF IInv, SignedInv
<1>5. SessionInv'
  BY <1>1 DEF IInv, SessionInv
<1>6. CreatedInv'
  BY <1>1 DEF IInv, CreatedInv, Signed
<1>7. TokenInv' /\ CacheInv' /\ LeaderInv'
  BY DEF IInv, TokenInv, CacheInv, LeaderInv
<1>8. JoinedInv'
  BY <1>1 DEF IInv, JoinedInv
<1> QED
  BY <1>2, <1>3, <1>4, <1>5, <1>6, <1>7, <1>8 DEF IInv

\* A step that moves no call, nor touches a session, a token or a login.
LEMMA StillInv ==
  ASSUME IInv, account' \in [Tabs -> Addresses],
         UNCHANGED <<session, cache, inflight, pc, token, signer, leader, now>>
  PROVE  IInv'
<1>1. TypeInv'
  BY DEF IInv, TypeInv
<1>2. SignedInv' /\ SessionInv' /\ CreatedInv'
  BY DEF IInv, SignedInv, SessionInv, CreatedInv
<1>3. TokenInv' /\ CacheInv' /\ LeaderInv' /\ JoinedInv' /\ FlightInv'
  BY DEF IInv, TokenInv, CacheInv, LeaderInv, JoinedInv, FlightInv
<1> QED
  BY <1>1, <1>2, <1>3 DEF IInv

\* Sessions that stay or are extended keep what relies on them.
LEMMA SessionsGrow ==
  ASSUME IInv, TypeInv',
         \A c \in Calls : session[c] # None => /\ session'[c] # None
                                               /\ session'[c].expires >= session[c].expires,
         UNCHANGED <<cache, token, leader>>
  PROVE  TokenInv' /\ CacheInv' /\ LeaderInv'
<1>1. TokenInv'
  BY DEF IInv, TypeInv, TokenInv
<1>2. CacheInv'
  <2>1. ASSUME NEW t \in Tabs, cache[t] # None
        PROVE  /\ session'[cache[t].token] # None
               /\ AddressOf[cache[t].token] = cache[t].address
               /\ cache[t].expiresAt <= session'[cache[t].token].expires
    <3>1. cache[t].token \in Calls /\ cache[t].expiresAt \in Int
      BY <2>1 DEF IInv, TypeInv, Cached
    <3>2. session[cache[t].token] # None /\ session'[cache[t].token] # None
      BY <2>1, <3>1 DEF IInv, CacheInv
    <3>3. session[cache[t].token].expires \in Nat /\ session'[cache[t].token].expires \in Nat
      BY <3>1, <3>2 DEF IInv, TypeInv, Sessions
    <3> QED
      BY <2>1, <3>1, <3>2, <3>3 DEF IInv, CacheInv
  <2> QED
    BY <2>1 DEF CacheInv
<1>3. LeaderInv'
  BY DEF IInv, LeaderInv
<1> QED
  BY <1>1, <1>2, <1>3

-----------------------------------------------------------------------------
(* The browser.                                                            *)

LEMMA getOrCreateSessionInv ==
  ASSUME IInv, NEW c \in Calls, getOrCreateSession(c) PROVE IInv'
<1> DEFINE t == TabOf[c]
           a == AddressOf[c]
<1>1. t \in Tabs /\ a \in Addresses
  BY Constants
<1>2. UNCHANGED <<session, cache, signer, account, now>>
  BY DEF getOrCreateSession, redisVars
<1>3. PICK to \in {"request", "joined", "nonce"} :
        Goes(c, "idle", to) /\ (to = "joined" => leader' = [leader EXCEPT ![c] = existing(t, a)]
                                                  /\ existing(t, a) # None)
  BY DEF getOrCreateSession
<1>4. /\ pc' \in [Calls -> PCs] /\ pc[c] = "idle" /\ pc'[c] = to
      /\ \A d \in Calls \ {c} : pc'[d] = pc[d]
  BY <1>3, Moves DEF IInv, PCs
<1>10. JoinedInv'
  <2>1. to # "joined" => pc'[c] # "joined"
    BY <1>4
  <2>2. \A d \in Calls \ {c} : leader'[d] = leader[d]
    BY DEF getOrCreateSession, IInv, TypeInv
  <2>3. to = "joined" => leader'[c] # None
    BY <1>3 DEF IInv, TypeInv
  <2> QED
    BY <1>4, <2>1, <2>2, <2>3 DEF IInv, JoinedInv
<1>5. SignedInv' /\ SessionInv' /\ CreatedInv'
  <2>1. SignedInv'
    BY <1>2, <1>4 DEF IInv, SignedInv, Signed
  <2>2. SessionInv'
    BY <1>2, <1>4 DEF IInv, SessionInv, After
  <2>3. CreatedInv'
    BY <1>2, <1>4 DEF IInv, CreatedInv
  <2> QED
    BY <2>1, <2>2, <2>3
<1>6. CacheInv'
  BY <1>2 DEF IInv, CacheInv
<1>7. CASE /\ loaded(t, a) /\ token' = [token EXCEPT ![c] = cache[t].token]
           /\ UNCHANGED <<inflight, leader>>
  <2>1. cache[t] \in Cached /\ cache[t] # None /\ cache[t].address = a
    BY <1>1, <1>7 DEF loaded, IInv, TypeInv
  <2>2. cache[t].token \in Calls
    BY <2>1 DEF Cached
  <2>3. TypeInv'
    BY <1>2, <1>4, <1>7, <2>2 DEF IInv, TypeInv
  <2>4. session[cache[t].token] # None /\ AddressOf[cache[t].token] = a
    BY <1>1, <2>1 DEF IInv, CacheInv
  <2>5. TokenInv'
    BY <1>2, <1>7, <2>4 DEF IInv, TypeInv, TokenInv
  <2> QED
    BY <1>5, <1>6, <1>7, <1>10, <2>3, <2>5 DEF IInv, LeaderInv, FlightInv
<1>8. CASE /\ existing(t, a) # None /\ leader' = [leader EXCEPT ![c] = existing(t, a)]
           /\ UNCHANGED <<inflight, token>>
  <2>1. existing(t, a) \in Calls /\ AddressOf[existing(t, a)] = a
    BY <1>1, <1>8 DEF existing, IInv, TypeInv, FlightInv
  <2>2. TypeInv'
    BY <1>2, <1>4, <1>8, <2>1 DEF IInv, TypeInv
  <2>3. LeaderInv'
    BY <1>8, <2>1 DEF IInv, TypeInv, LeaderInv
  <2> QED
    BY <1>2, <1>5, <1>6, <1>8, <1>10, <2>2, <2>3 DEF IInv, TokenInv, FlightInv
<1>9. CASE inflight' = [inflight EXCEPT ![t][a] = c] /\ UNCHANGED <<token, leader>>
  <2>1. TypeInv'
    BY <1>1, <1>2, <1>4, <1>9 DEF IInv, TypeInv
  <2>2. FlightInv'
    BY <1>1, <1>9 DEF IInv, TypeInv, FlightInv
  <2> QED
    BY <1>2, <1>5, <1>6, <1>9, <1>10, <2>1, <2>2 DEF IInv, TokenInv, LeaderInv
<1> QED
  BY <1>7, <1>8, <1>9 DEF getOrCreateSession

\* The call that waited for a login has the token of that login.
LEMMA JoinInv == ASSUME IInv, NEW c \in Calls, Join(c) PROVE IInv'
<1> DEFINE l == leader[c]
<1>1. UNCHANGED <<session, cache, inflight, signer, leader, account, now>>
  BY DEF Join, redisVars, tabVars
<1>2. PICK to \in {"request", "failed"} : Goes(c, "joined", to)
  BY DEF Join
<1>3. /\ pc' \in [Calls -> PCs] /\ pc[c] = "joined" /\ pc'[c] = to
      /\ \A d \in Calls \ {c} : pc'[d] = pc[d]
  BY <1>2, Moves DEF IInv, PCs
<1>4. token' = [token EXCEPT ![c] = token[l]] /\ settled(l)
  BY DEF Join
<1>5. l \in Calls /\ AddressOf[l] = AddressOf[c] /\ token[l] \in Calls \cup {None}
  BY <1>3, Constants DEF IInv, JoinedInv, LeaderInv, TypeInv
<1>6. TypeInv'
  BY <1>1, <1>3, <1>4, <1>5 DEF IInv, TypeInv
<1>7. TokenInv'
  BY <1>1, <1>4, <1>5 DEF IInv, TypeInv, TokenInv
<1>8. SignedInv' /\ CreatedInv' /\ JoinedInv'
  BY <1>1, <1>3 DEF IInv, SignedInv, CreatedInv, JoinedInv, Signed
<1>9. SessionInv'
  BY <1>1, <1>3 DEF IInv, SessionInv, After
<1> QED
  BY <1>1, <1>6, <1>7, <1>8, <1>9 DEF IInv, CacheInv, LeaderInv, FlightInv

LEMMA signMessageInv == ASSUME IInv, NEW c \in Calls, signMessage(c) PROVE IInv'
<1>1. UNCHANGED <<session, account, cache, token, leader, now>>
  BY DEF signMessage, redisVars
<1>2. CASE Fails(c, "sign") /\ UNCHANGED signer
  BY <1>1, <1>2, MoveInv DEF Fails, PCs, Signed, After
<1>3. CASE /\ Goes(c, "sign", "session") /\ UNCHANGED inflight
           /\ signer' = [signer EXCEPT ![c] = account[TabOf[c]]]
  <2>1. /\ pc' \in [Calls -> PCs] /\ pc[c] = "sign" /\ pc'[c] = "session"
        /\ \A d \in Calls \ {c} : pc'[d] = pc[d]
    BY <1>3, Moves DEF IInv, PCs
  <2>2. \A d \in Calls \ {c} : signer'[d] = signer[d]
    BY <1>3 DEF IInv, TypeInv
  <2>3. TypeInv'
    BY <1>1, <1>3, <2>1, Constants DEF IInv, TypeInv
  <2>4. SignedInv' /\ CreatedInv' /\ JoinedInv'
    BY <1>1, <2>1, <2>2 DEF IInv, SignedInv, CreatedInv, JoinedInv, Signed
  <2>5. SessionInv'
    BY <1>1, <2>1, <2>2 DEF IInv, SessionInv, After
  <2> QED
    BY <1>1, <1>3, <2>3, <2>4, <2>5 DEF IInv, TokenInv, CacheInv, LeaderInv, FlightInv
<1> QED
  BY <1>2, <1>3 DEF signMessage

\* The browser's margin is what the answer was allowed to take.
LEMMA saveInv == ASSUME IInv, NEW c \in Calls, save(c) PROVE IInv'
<1> DEFINE t == TabOf[c]
           entry == [token |-> c, address |-> AddressOf[c], expiresAt |-> expiresAt]
<1>1. /\ Goes(c, "created", "request") /\ token' = [token EXCEPT ![c] = c]
      /\ cache' = [cache EXCEPT ![t] = entry] /\ inflight' = released(c)
      /\ UNCHANGED <<session, account, signer, leader, now>>
  BY DEF save, redisVars
<1>2. /\ pc' \in [Calls -> PCs] /\ pc[c] = "created" /\ pc'[c] = "request"
      /\ \A d \in Calls \ {c} : pc'[d] = pc[d]
  BY <1>1, Moves DEF IInv, PCs
<1>3. t \in Tabs /\ entry \in Cached
  BY Constants DEF Cached, expiresAt, IInv, TypeInv
<1>4. session[c] # None /\ entry.expiresAt <= session[c].expires
  BY <1>2 DEF IInv, CreatedInv, expiresAt
<1>5. entry.token = c /\ entry.address = AddressOf[c]
  OBVIOUS
<1> HIDE DEF entry
<1>6. inflight' \in [Tabs -> [Addresses -> Calls \cup {None}]] /\ FlightInv'
  BY <1>1, Released DEF IInv
<1>7. TypeInv'
  BY <1>1, <1>2, <1>3, <1>6 DEF IInv, TypeInv
<1>8. TokenInv'
  BY <1>1, <1>4 DEF IInv, TypeInv, TokenInv
<1>9. CacheInv'
  BY <1>1, <1>3, <1>4, <1>5 DEF IInv, TypeInv, CacheInv
<1>10. SignedInv' /\ CreatedInv' /\ JoinedInv'
  BY <1>1, <1>2 DEF IInv, SignedInv, CreatedInv, JoinedInv, Signed
<1>11. SessionInv'
  BY <1>1, <1>2 DEF IInv, SessionInv, After
<1> QED
  BY <1>1, <1>6, <1>7, <1>8, <1>9, <1>10, <1>11 DEF IInv, LeaderInv

LEMMA clearSessionInv == ASSUME IInv, NEW c \in Calls, clearSession(c) PROVE IInv'
<1> DEFINE t == TabOf[c]
<1>1. /\ Goes(c, "denied", "failed") /\ cache' = [cache EXCEPT ![t] = None]
      /\ UNCHANGED <<session, account, inflight, token, signer, leader, now>>
  BY DEF clearSession, redisVars, callVars
<1>2. /\ pc' \in [Calls -> PCs] /\ pc[c] = "denied" /\ pc'[c] = "failed"
      /\ \A d \in Calls \ {c} : pc'[d] = pc[d]
  BY <1>1, Moves DEF IInv, PCs
<1>3. TypeInv'
  BY <1>1, <1>2, Constants DEF IInv, TypeInv
<1>4. CacheInv'
  BY <1>1, Constants DEF IInv, TypeInv, CacheInv
<1>5. SignedInv' /\ CreatedInv' /\ JoinedInv'
  BY <1>1, <1>2 DEF IInv, SignedInv, CreatedInv, JoinedInv, Signed
<1>6. SessionInv'
  BY <1>1, <1>2 DEF IInv, SessionInv, After
<1> QED
  BY <1>1, <1>3, <1>4, <1>5, <1>6 DEF IInv, TokenInv, LeaderInv, FlightInv

LEMMA NetworkFailsInv == ASSUME IInv, NEW c \in Calls, NetworkFails(c) PROVE IInv'
<1>1. PICK from \in {"nonce", "session", "created", "request"} : Fails(c, from)
  BY DEF NetworkFails
<1> QED
  BY <1>1, MoveInv DEF NetworkFails, Fails, redisVars, callVars, PCs, Signed, After

-----------------------------------------------------------------------------
(* The gateway.                                                            *)

\* A call with a signature that the gateway has accepted goes on to its session.
LEMMA SignedMoveInv ==
  ASSUME IInv, NEW c \in Calls, NEW from \in {"session", "delete"}, NEW to \in {"delete", "create"},
         Goes(c, from, to), signer[c] = AddressOf[c],
         UNCHANGED <<session, cache, inflight, token, signer, leader, account, now>>
  PROVE  IInv'
<1>1. /\ pc' \in [Calls -> PCs] /\ pc[c] = from /\ pc'[c] = to
      /\ \A d \in Calls \ {c} : pc'[d] = pc[d]
  BY Moves DEF IInv, PCs
<1>2. TypeInv'
  BY <1>1 DEF IInv, TypeInv
<1>3. SignedInv'
  BY <1>1 DEF IInv, SignedInv
<1>4. SessionInv'
  BY <1>1 DEF IInv, SessionInv, After
<1>5. CreatedInv' /\ JoinedInv'
  BY <1>1 DEF IInv, CreatedInv, JoinedInv
<1> QED
  BY <1>2, <1>3, <1>4, <1>5 DEF IInv, TokenInv, CacheInv, LeaderInv, FlightInv

LEMMA rateLimitedInv == ASSUME IInv, NEW c \in Calls, rateLimited(c) PROVE IInv'
<1>1. UNCHANGED <<session, account, cache, token, signer, leader, now>>
  BY DEF rateLimited, callVars
<1>2. PICK to \in {"expire", "issue", "failed"} :
        Goes(c, "nonce", to) /\ inflight' \in {inflight, released(c)}
  BY DEF rateLimited, Fails
<1> QED
  BY <1>1, <1>2, MoveInv DEF PCs, Signed, After

LEMMA setWindowInv == ASSUME IInv, NEW c \in Calls, setWindow(c) PROVE IInv'
  BY MoveInv DEF setWindow, tabVars, callVars, PCs, Signed, After

LEMMA issueNonceInv == ASSUME IInv, NEW c \in Calls, issueNonce(c) PROVE IInv'
  BY MoveInv DEF issueNonce, tabVars, callVars, PCs, Signed, After

LEMMA verifySignatureInv == ASSUME IInv, NEW c \in Calls, verifySignature(c) PROVE IInv'
<1>1. UNCHANGED <<session, account, cache, token, signer, leader, now>>
  BY DEF verifySignature, redisVars, callVars
<1>2. CASE verify(c) /\ Goes(c, "session", "delete") /\ UNCHANGED inflight
  BY <1>1, <1>2, SignedMoveInv DEF verify
<1>3. CASE Fails(c, "session")
  BY <1>1, <1>3, MoveInv DEF Fails, PCs, Signed, After
<1> QED
  BY <1>2, <1>3 DEF verifySignature

LEMMA deleteNonceInv == ASSUME IInv, NEW c \in Calls, deleteNonce(c) PROVE IInv'
<1>1. Goes(c, "delete", "create") /\ UNCHANGED <<session, cache, inflight, token, signer, leader, account, now>>
  BY DEF deleteNonce, tabVars, callVars
<1>2. signer[c] = AddressOf[c]
  BY <1>1 DEF Goes, IInv, SignedInv, Signed
<1> QED
  BY <1>1, <1>2, SignedMoveInv

LEMMA createSessionInv == ASSUME IInv, NEW c \in Calls, createSession(c) PROVE IInv'
<1> DEFINE new == [address |-> AddressOf[c], expires |-> now + SessionTTL]
<1>1. /\ Goes(c, "create", "created") /\ session' = [session EXCEPT ![c] = new]
      /\ UNCHANGED <<cache, inflight, token, signer, leader, account, now>>
  BY DEF createSession, tabVars, callVars
<1>2. /\ pc' \in [Calls -> PCs] /\ pc[c] = "create" /\ pc'[c] = "created"
      /\ \A d \in Calls \ {c} : pc'[d] = pc[d]
  BY <1>1, Moves DEF IInv, PCs
<1>3. /\ new \in Sessions /\ new # None /\ new.address = AddressOf[c]
      /\ new.expires = now + SessionTTL
  <2>1. new \in Sessions
    BY Constants DEF Sessions, IInv, TypeInv
  <2> QED
    BY <2>1, Constants
<1>4. session[c] = None /\ signer[c] = AddressOf[c]
  BY <1>2 DEF IInv, SessionInv, SignedInv, Signed, After
<1> HIDE DEF new
<1>5. session'[c] = new /\ \A d \in Calls \ {c} : session'[d] = session[d]
  BY <1>1 DEF IInv, TypeInv
<1>6. TypeInv'
  BY <1>1, <1>2, <1>3 DEF IInv, TypeInv
<1>7. SignedInv'
  BY <1>1, <1>2, <1>4 DEF IInv, SignedInv
<1>8. now \in Nat /\ SessionTTL \in Nat /\ Margin \in Nat
  BY Constants DEF IInv, TypeInv
<1>9. SessionInv'
  BY <1>1, <1>2, <1>3, <1>4, <1>5, <1>8 DEF IInv, SessionInv, After
<1>10. CreatedInv'
  BY <1>1, <1>2, <1>3, <1>5, <1>8 DEF IInv, CreatedInv
<1>11. TokenInv' /\ CacheInv'
  BY <1>1, <1>3, <1>4, <1>5, <1>6, SessionsGrow DEF IInv, TypeInv, Sessions
<1>12. JoinedInv'
  BY <1>1, <1>2 DEF IInv, JoinedInv
<1> QED
  BY <1>1, <1>6, <1>7, <1>9, <1>10, <1>11, <1>12 DEF IInv, LeaderInv, FlightInv

LEMMA requireSessionInv == ASSUME IInv, NEW c \in Calls, requireSession(c) PROVE IInv'
<1>1. PICK to \in {"refresh", "denied"} : Goes(c, "request", to)
  BY DEF requireSession
<1> QED
  BY <1>1, MoveInv DEF requireSession, redisVars, tabVars, callVars, PCs, Signed, After

LEMMA refreshSessionInv == ASSUME IInv, NEW c \in Calls, refreshSession(c) PROVE IInv'
<1> DEFINE k == token[c]
<1>1. /\ Goes(c, "refresh", "done")
      /\ UNCHANGED <<cache, inflight, token, signer, leader, account, now>>
  BY DEF refreshSession, tabVars, callVars
<1>2. /\ pc' \in [Calls -> PCs] /\ pc[c] = "refresh" /\ pc'[c] = "done"
      /\ \A d \in Calls \ {c} : pc'[d] = pc[d]
  BY <1>1, Moves DEF IInv, PCs
<1>3. k \in Calls \cup {None} /\ now + SessionTTL \in Nat
  BY Constants DEF IInv, TypeInv
<1>4. \/ session' = session
      \/ live(k) /\ session' = [session EXCEPT ![k].expires = now + SessionTTL]
  BY DEF refreshSession
<1> HIDE DEF k
<1>5. ASSUME NEW d \in Calls
      PROVE  /\ session'[d] \in Sessions \cup {None}
             /\ session[d] = None => session'[d] = None
             /\ session[d] # None => /\ session'[d] # None
                                     /\ session'[d].address = session[d].address
                                     /\ \/ session'[d].expires = session[d].expires
                                        \/ session'[d].expires = now + SessionTTL
  <2>1. session[d] \in Sessions \cup {None}
    BY DEF IInv, TypeInv
  <2>2. CASE session'[d] = session[d]
    BY <2>1, <2>2
  <2>3. CASE d = k /\ live(k) /\ session'[d] = [session[d] EXCEPT !.expires = now + SessionTTL]
    <3>1. session[d] \in Sessions
      BY <2>1, <2>3 DEF live
    <3>2. session'[d] \in Sessions /\ session'[d].address = session[d].address
          /\ session'[d].expires = now + SessionTTL
      BY <1>3, <2>3, <3>1 DEF Sessions
    <3> QED
      BY <2>3, <3>2, Constants DEF live
  <2> QED
    BY <1>3, <1>4, <2>2, <2>3 DEF IInv, TypeInv
<1>6. TypeInv'
  <2>1. session' = [d \in Calls |-> session'[d]]
    BY <1>4 DEF IInv, TypeInv
  <2>2. session' \in [Calls -> Sessions \cup {None}]
    BY <1>5, <2>1
  <2> QED
    BY <1>1, <1>2, <2>2 DEF IInv, TypeInv
<1>7. ASSUME NEW d \in Calls, session[d] # None PROVE session'[d].expires >= session[d].expires
  <2>1. session[d].expires <= now + SessionTTL /\ session[d].expires \in Nat
    BY <1>7 DEF IInv, SessionInv, TypeInv, Sessions
  <2> QED
    BY <1>3, <1>5, <1>7, <2>1
<1>8. SignedInv' /\ JoinedInv'
  BY <1>1, <1>2 DEF IInv, SignedInv, JoinedInv, Signed
<1>9. SessionInv'
  <2>1. ASSUME NEW d \in Calls, session'[d] # None
        PROVE  /\ session'[d].address = AddressOf[d] /\ signer'[d] = AddressOf[d]
               /\ pc'[d] \in After /\ session'[d].expires <= now' + SessionTTL
    <3>1. session[d] # None
      BY <1>5, <2>1
    <3>2. session[d].expires <= now + SessionTTL
      BY <3>1 DEF IInv, SessionInv
    <3> QED
      BY <1>1, <1>2, <1>3, <1>5, <3>1, <3>2 DEF IInv, SessionInv, After
  <2> QED
    BY <2>1 DEF SessionInv
<1>10. CreatedInv'
  <2>1. ASSUME NEW d \in Calls, pc'[d] = "created"
        PROVE  session'[d] # None /\ now' + SessionTTL - Margin <= session'[d].expires
    <3>1. session[d] # None /\ now + SessionTTL - Margin <= session[d].expires
      BY <1>2, <2>1 DEF IInv, CreatedInv
    <3>2. session'[d] # None /\ session'[d].expires >= session[d].expires
      BY <1>5, <1>7, <3>1
    <3>3. session'[d] \in Sessions /\ session[d] \in Sessions
      BY <1>5, <3>1, <3>2 DEF IInv, TypeInv
    <3>4. session'[d].expires \in Nat /\ session[d].expires \in Nat
      BY <3>3 DEF Sessions
    <3>5. now' + SessionTTL - Margin <= session[d].expires /\ now' + SessionTTL - Margin \in Int
      <4>1. now' = now /\ now \in Nat /\ SessionTTL \in Nat /\ Margin \in Nat
        BY <1>1, Constants DEF IInv, TypeInv
      <4> QED
        BY <3>1, <4>1
    <3> QED
      BY <3>2, <3>4, <3>5
  <2> QED
    BY <2>1 DEF CreatedInv
<1>11. TokenInv' /\ CacheInv' /\ LeaderInv'
  BY <1>1, <1>5, <1>6, <1>7, SessionsGrow
<1>12. FlightInv'
  BY <1>1 DEF IInv, FlightInv
<1> QED
  BY <1>6, <1>8, <1>9, <1>10, <1>11, <1>12 DEF IInv

LEMMA GatewayCrashInv == ASSUME IInv, GatewayCrash PROVE IInv'
<1> DEFINE hit == {c \in Calls : pc[c] \in {"expire", "issue", "delete", "create", "refresh"}}
<1>1. /\ pc' = [c \in Calls |-> IF c \in hit THEN "failed" ELSE pc[c]]
      /\ inflight' = [t \in Tabs |-> [a \in Addresses |->
                        IF inflight[t][a] \in hit THEN None ELSE inflight[t][a]]]
      /\ UNCHANGED <<session, cache, token, signer, leader, account, now>>
  BY DEF GatewayCrash, redisVars, callVars
<1>2. TypeInv'
  BY <1>1 DEF IInv, TypeInv, PCs
<1>3. ASSUME NEW c \in Calls PROVE pc'[c] = pc[c] \/ pc'[c] = "failed"
  BY <1>1
<1>4. SignedInv' /\ CreatedInv' /\ JoinedInv'
  BY <1>1, <1>3 DEF IInv, SignedInv, CreatedInv, JoinedInv, Signed
<1>5. SessionInv'
  BY <1>1, <1>3 DEF IInv, SessionInv, After
<1>6. FlightInv'
  BY <1>1 DEF IInv, FlightInv
<1> QED
  BY <1>1, <1>2, <1>4, <1>5, <1>6 DEF IInv, TokenInv, CacheInv, LeaderInv

\* The clock does not overtake an answer that is under way.
LEMMA TickInv == ASSUME IInv, Tick PROVE IInv'
<1>1. /\ now' = now + 1 /\ now \in Nat
      /\ UNCHANGED <<session, cache, inflight, pc, token, signer, leader, account>>
  BY DEF Tick, redisVars, tabVars, callVars, IInv, TypeInv
<1>2. TypeInv'
  BY <1>1 DEF IInv, TypeInv
<1>3. SessionInv'
  <2>1. ASSUME NEW c \in Calls, session[c] # None PROVE session[c].expires <= now' + SessionTTL
    <3>1. session[c].expires \in Nat /\ session[c].expires <= now + SessionTTL
      BY <2>1 DEF IInv, TypeInv, SessionInv, Sessions
    <3> QED
      BY <1>1, <3>1, Constants
  <2> QED
    BY <1>1, <2>1 DEF IInv, SessionInv
<1>4. CreatedInv'
  <2>1. ASSUME NEW c \in Calls, pc[c] = "created"
        PROVE  session[c] # None /\ now' + SessionTTL - Margin <= session[c].expires
    <3>1. session[c] # None /\ now < session[c].expires - SessionTTL + Margin
      BY <2>1 DEF Tick, IInv, CreatedInv
    <3>2. session[c].expires \in Nat
      BY <3>1 DEF IInv, TypeInv, Sessions
    <3> QED
      BY <1>1, <3>1, <3>2, Constants
  <2> QED
    BY <1>1, <2>1 DEF CreatedInv
<1>5. SignedInv' /\ JoinedInv' /\ TokenInv' /\ CacheInv' /\ LeaderInv' /\ FlightInv'
  BY <1>1 DEF IInv, SignedInv, JoinedInv, TokenInv, CacheInv, LeaderInv, FlightInv
<1> QED
  BY <1>2, <1>3, <1>4, <1>5 DEF IInv

-----------------------------------------------------------------------------

LEMMA StepInv == IInv /\ [Next]_vars => IInv'
<1> SUFFICES ASSUME IInv, [Next]_vars PROVE IInv'
  OBVIOUS
<1>1. ASSUME NEW c \in Calls, BrowserStep(c) PROVE IInv'
  BY <1>1, JoinInv, signMessageInv, saveInv, clearSessionInv DEF BrowserStep
<1>2. ASSUME NEW c \in Calls, ServerStep(c) PROVE IInv'
  BY <1>2, rateLimitedInv, setWindowInv, issueNonceInv, verifySignatureInv, deleteNonceInv,
     createSessionInv, requireSessionInv, refreshSessionInv DEF ServerStep
<1>3. ASSUME NEW t \in Tabs, SwitchAccount(t) PROVE IInv'
  BY <1>3, StillInv DEF SwitchAccount, redisVars, callVars, IInv, TypeInv
<1>4. ASSUME NEW a \in Addresses, NonceExpires(a) \/ LimitExpires(a) PROVE IInv'
  BY <1>4, StillInv DEF NonceExpires, LimitExpires, tabVars, callVars, IInv, TypeInv
<1>5. CASE UNCHANGED vars
  BY <1>5, StillInv DEF vars, redisVars, tabVars, callVars, IInv, TypeInv
<1> QED
  BY <1>1, <1>2, <1>3, <1>4, <1>5, getOrCreateSessionInv, NetworkFailsInv, TickInv,
     GatewayCrashInv DEF Next

\* Whatever account the wallet has by then, whatever the tab has cached and
\* whichever login a call joined, its token is of a session of the address the
\* call is made for, which that address signed for.
THEOREM CallersOwnSession == Spec => []ServedAsCaller
<1>1. IInv => ServedAsCaller
  BY DEF IInv, TypeInv, TokenInv, SessionInv, ServedAsCaller
<1> QED
  BY <1>1, InitInv, StepInv, PTL DEF Spec

\* A session the browser has in its cache and takes for current has not expired
\* at the gateway: the margin makes up for the time its answer took.
THEOREM NoStaleCache == Spec => []CachedIsLive
<1>1. ASSUME IInv PROVE CachedIsLive
  <2>1. ASSUME NEW t \in Tabs, cache[t] # None, now < cache[t].expiresAt
        PROVE  live(cache[t].token) /\ session[cache[t].token].address = cache[t].address
    <3>1. cache[t].token \in Calls /\ cache[t].expiresAt \in Int
      BY <1>1, <2>1 DEF IInv, TypeInv, Cached
    <3>2. /\ session[cache[t].token] # None
          /\ session[cache[t].token].address = cache[t].address
          /\ cache[t].expiresAt <= session[cache[t].token].expires
      BY <1>1, <2>1, <3>1 DEF IInv, CacheInv, SessionInv
    <3>3. session[cache[t].token].expires \in Nat /\ now \in Nat
      BY <1>1, <3>1, <3>2 DEF IInv, TypeInv, Sessions
    <3> QED
      BY <2>1, <3>1, <3>2, <3>3 DEF live
  <2> QED
    BY <2>1 DEF CachedIsLive
<1> QED
  BY <1>1, InitInv, StepInv, PTL DEF Spec

-----------------------------------------------------------------------------
(* The list of files.                                                      *)

Ops == [state : {"working"}, tab : Pages, here : BOOLEAN, all : BOOLEAN,
        files : SUBSET Files, waiting : SUBSET Files, failed : SUBSET Files,
        known : SUBSET Files]

Over == [state |-> "done"]

\* The type of what the argument reads.
ListType ==
  /\ list \subseteq Files
  /\ allFiles \in [Pages -> SUBSET Files]
  /\ deletion \in [Deletions -> Ops \cup {NotBegun, Over}]
  /\ uploading \subseteq Files
  /\ disturbed \in BOOLEAN

\* A page counted as fresh knows the list.
FreshKnows == \A t \in fresh : t \in Pages /\ allFiles[t] = list

\* An upload under way has not been answered.
Unanswered == uploading \cap uploaded = {}

\* The deletion under way started from the list as it still is, deletes what it
\* lists, and what it has an answer for is gone or counted as a failure.
Follows(n) ==
  /\ deletion[n].known = list
  /\ deletion[n].files \subseteq list
  /\ \A f \in deletion[n].files \ deletion[n].waiting : f \in stored => f \in deletion[n].failed

\* What holds while nothing was disturbed: one operation at a time.
Orderly ==
  /\ uploading = {} \/ Working = {}
  /\ \A m, n \in Working : m = n
  /\ \A n \in Working : Follows(n)
  /\ cleared \subseteq uploaded

ListInv ==
  /\ ListType
  /\ FreshKnows
  /\ Unanswered
  /\ ~disturbed => Orderly
  /\ ListIsExact
  /\ NothingVanishes

-----------------------------------------------------------------------------

LEMMA NotWorking == NotBegun.state # "working" /\ Over.state # "working"
  BY DEF NotBegun, Over

\* What is working is a deletion with all its fields.
LEMMA WorkingIsOp ==
  ASSUME ListType, NEW n \in Working PROVE n \in Deletions /\ deletion[n] \in Ops
  BY NotWorking DEF ListType, Working

LEMMA ListInitInv == ASSUME ListInit PROVE ListInv
<1>1. Working = {}
  BY NotWorking DEF ListInit, Working
<1>2. ListType
  BY DEF ListInit, ListType
<1> QED
  BY <1>1, <1>2 DEF ListInit, ListInv, FreshKnows, Unanswered, Orderly, ListIsExact, NothingVanishes

\* A step that leaves the list, the deletions, what is stored and what is
\* recorded alone can only disturb what is said of the pages.
LEMMA Quiet ==
  ASSUME ListInv, UNCHANGED <<list, deletion, stored, uploading, uploaded, cleared, reported, disturbed>>,
         allFiles' \in [Pages -> SUBSET Files], FreshKnows'
  PROVE  ListInv'
<1>1. Working' = Working
  BY DEF Working
<1>2. \A n : Follows(n)' = Follows(n)
  BY DEF Follows
<1>3. ListType'
  BY DEF ListInv, ListType, Deletions
<1> QED
  BY <1>1, <1>2, <1>3 DEF ListInv, Unanswered, Orderly, ListIsExact, NothingVanishes

LEMMA MountInv == ASSUME ListInv, NEW t \in Pages, Mount(t) PROVE ListInv'
<1>1. FreshKnows'
  BY DEF ListInv, ListType, FreshKnows, Mount
<1> QED
  BY <1>1, Quiet DEF ListInv, ListType, Mount, buttons

LEMMA OtherActionInv == ASSUME ListInv, NEW t \in Pages, OtherAction(t) PROVE ListInv'
<1>1. FreshKnows'
  BY DEF ListInv, FreshKnows, OtherAction
<1> QED
  BY <1>1, Quiet DEF ListInv, ListType, OtherAction

\* A page that is left changes only where the deletions that began on it are shown.
LEMMA LeaveInv == ASSUME ListInv, NEW t \in Pages, Leave(t) PROVE ListInv'
<1>1. deletion' \in [Deletions -> Ops \cup {NotBegun, Over}]
  <2>1. ASSUME NEW n \in Deletions, n \in Here(t) PROVE [deletion[n] EXCEPT !.here = FALSE] \in Ops
    BY <2>1, WorkingIsOp DEF ListInv, Here, Ops
  <2> QED
    BY <2>1 DEF Leave, ListInv, ListType
<1>2. ASSUME NEW n \in Deletions
      PROVE  /\ deletion'[n].state = deletion[n].state
             /\ n \in Working => /\ deletion'[n].known = deletion[n].known
                                 /\ deletion'[n].files = deletion[n].files
                                 /\ deletion'[n].waiting = deletion[n].waiting
                                 /\ deletion'[n].failed = deletion[n].failed
  <2>1. CASE n \in Here(t)
    <3>1. deletion[n] \in Ops
      BY <2>1, WorkingIsOp DEF ListInv, Here
    <3> QED
      BY <2>1, <3>1 DEF Leave, Ops
  <2>2. CASE n \notin Here(t)
    BY <2>2 DEF Leave
  <2> QED
    BY <2>1, <2>2
<1>3. Working' = Working
  BY <1>2 DEF Working
<1>4. ASSUME NEW n \in Working, Follows(n) PROVE Follows(n)'
  BY <1>2, <1>4 DEF Follows, Leave, Working
<1>5. ListType'
  BY <1>1 DEF ListInv, ListType, Leave
<1>6. FreshKnows' /\ Unanswered' /\ ListIsExact' /\ NothingVanishes'
  BY DEF ListInv, Leave, FreshKnows, Unanswered, ListIsExact, NothingVanishes
<1>7. ~disturbed' => Orderly'
  BY <1>3, <1>4 DEF ListInv, Leave, Orderly
<1> QED
  BY <1>5, <1>6, <1>7 DEF ListInv

-----------------------------------------------------------------------------
(* Uploads.                                                                *)

\* A step of an upload leaves the deletions alone.
LEMMA SameWorking == ASSUME deletion' = deletion PROVE Working' = Working
  BY DEF Working

LEMMA UploadInv == ASSUME ListInv, NEW f \in Files, Upload(f) PROVE ListInv'
<1>1. Working' = Working
  BY SameWorking DEF Upload
<1>2. ListType' /\ FreshKnows' /\ Unanswered' /\ ListIsExact' /\ NothingVanishes'
  BY DEF ListInv, ListType, Upload, buttons, FreshKnows, Unanswered, ListIsExact, NothingVanishes
<1>3. ASSUME ~disturbed' PROVE Orderly'
  <2>1. ~disturbed /\ Working = {}
    BY <1>3 DEF Upload, Idle, ListInv, ListType
  <2> QED
    BY <1>1, <2>1 DEF ListInv, Orderly, Upload
<1> QED
  BY <1>2, <1>3 DEF ListInv

LEMMA UploadAnsweredInv == ASSUME ListInv, NEW f \in Files, UploadAnswered(f) PROVE ListInv'
<1>1. Working' = Working
  BY SameWorking DEF UploadAnswered
<1>2. ListType' /\ FreshKnows' /\ Unanswered'
  BY DEF ListInv, ListType, UploadAnswered, buttons, FreshKnows, Unanswered
<1>3. ASSUME ~disturbed' PROVE Orderly' /\ ListIsExact' /\ NothingVanishes'
  <2>1. ~disturbed /\ Working = {} /\ f \notin uploaded
    BY <1>3 DEF UploadAnswered, ListInv, Orderly, Unanswered
  <2>2. f \notin cleared /\ list = uploaded \ cleared
    BY <2>1 DEF ListInv, Orderly, ListIsExact
  <2>3. Orderly'
    BY <1>1, <2>1 DEF ListInv, Orderly, UploadAnswered
  <2>4. ListIsExact'
    BY <2>2 DEF ListIsExact, UploadAnswered
  <2>5. NothingVanishes'
    BY <2>1 DEF ListInv, NothingVanishes, UploadAnswered
  <2> QED
    BY <2>3, <2>4, <2>5
<1> QED
  BY <1>2, <1>3 DEF ListInv, ListIsExact, NothingVanishes

LEMMA UploadFailsInv == ASSUME ListInv, NEW f \in Files, UploadFails(f) PROVE ListInv'
<1>1. Working' = Working
  BY SameWorking DEF UploadFails
<1>2. ListType' /\ FreshKnows' /\ Unanswered' /\ ListIsExact'
  BY DEF ListInv, ListType, UploadFails, buttons, FreshKnows, Unanswered, ListIsExact
<1>3. ASSUME ~disturbed' PROVE Orderly' /\ NothingVanishes'
  <2>1. ~disturbed /\ Working = {} /\ f \notin uploaded
    BY <1>3 DEF UploadFails, ListInv, Orderly, Unanswered
  <2>2. Orderly'
    BY <1>1, <2>1 DEF ListInv, Orderly, UploadFails
  <2>3. NothingVanishes'
    BY <2>1 DEF ListInv, NothingVanishes, UploadFails
  <2> QED
    BY <2>2, <2>3
<1> QED
  BY <1>2, <1>3 DEF ListInv, NothingVanishes

-----------------------------------------------------------------------------
(* Deletions.                                                              *)

LEMMA BeginInv ==
  ASSUME ListInv, NEW t \in Pages, NEW all \in BOOLEAN, NEW fs, fs \subseteq allFiles[t],
         Begin(t, all, fs)
  PROVE  ListInv'
<1> DEFINE op == [state |-> "working", tab |-> t, here |-> TRUE, all |-> all, files |-> fs,
                  waiting |-> fs, failed |-> {}, known |-> allFiles[t]]
<1>1. PICK n \in Deletions : deletion[n] = NotBegun /\ deletion' = [deletion EXCEPT ![n] = op]
  BY DEF Begin
<1>2. op \in Ops
  BY DEF Ops, ListInv, ListType
<1>3. deletion'[n] = op /\ \A m \in Deletions \ {n} : deletion'[m] = deletion[m]
  BY <1>1 DEF ListInv, ListType
<1>4. Working' = Working \cup {n}
  BY <1>3 DEF Working
<1>5. ListType'
  BY <1>1, <1>2 DEF ListInv, ListType, Begin, Idle
<1>6. FreshKnows' /\ Unanswered' /\ ListIsExact' /\ NothingVanishes'
  BY DEF ListInv, Begin, FreshKnows, Unanswered, ListIsExact, NothingVanishes
<1>7. ASSUME ~disturbed' PROVE Orderly'
  <2>1. ~disturbed /\ Working = {} /\ uploading = {} /\ allFiles[t] = list
    BY <1>7 DEF Begin, Idle, ListInv, FreshKnows
  <2>2. deletion'[n].known = list /\ deletion'[n].files = fs /\ deletion'[n].waiting = fs
    BY <1>3, <2>1
  <2>3. Follows(n)'
    BY <2>1, <2>2 DEF Follows, Begin
  <2> QED
    BY <1>4, <2>1, <2>3 DEF ListInv, Orderly, Begin
<1> QED
  BY <1>5, <1>6, <1>7 DEF ListInv

LEMMA StillOp ==
  ASSUME NEW d \in Ops, NEW w \in SUBSET Files, NEW more \in SUBSET Files
  PROVE  [d EXCEPT !.waiting = w, !.failed = more] \in Ops
  BY DEF Ops

\* An answer, or a failure, which changes only what this deletion waits for.
LEMMA AnswerInv ==
  ASSUME ListInv, NEW n \in Deletions, NEW f \in Files, NEW more \in SUBSET Files,
         n \in Working,
         deletion' = [deletion EXCEPT ![n] =
                        [deletion[n] EXCEPT !.waiting = deletion[n].waiting \ {f}, !.failed = more]],
         deletion[n].failed \subseteq more, stored' \subseteq stored,
         f \in stored' => f \in more,
         UNCHANGED <<list, allFiles, uploading, uploaded, cleared, reported, fresh, disturbed>>
  PROVE  ListInv'
<1>1. deletion[n] \in Ops
  BY WorkingIsOp DEF ListInv
<1>2. deletion'[n] = [deletion[n] EXCEPT !.waiting = deletion[n].waiting \ {f}, !.failed = more]
  BY DEF ListInv, ListType
<1>3. \A m \in Deletions \ {n} : deletion'[m] = deletion[m]
  BY DEF ListInv, ListType
<1>4. /\ deletion'[n].state = "working" /\ deletion[n].state = "working"
      /\ deletion'[n].known = deletion[n].known /\ deletion'[n].files = deletion[n].files
      /\ deletion'[n].waiting = deletion[n].waiting \ {f} /\ deletion'[n].failed = more
  BY <1>1, <1>2 DEF Ops
<1>5. deletion'[n] \in Ops
  <2>1. deletion[n].waiting \ {f} \in SUBSET Files
    BY <1>1 DEF Ops
  <2>2. [deletion[n] EXCEPT !.waiting = deletion[n].waiting \ {f}, !.failed = more] \in Ops
    BY <1>1, <2>1, StillOp
  <2> QED
    BY <1>2, <2>2, Zenon
<1>6. Working' = Working
  BY <1>3, <1>4 DEF Working
<1>7. ListType'
  BY <1>5 DEF ListInv, ListType
<1>8. FreshKnows' /\ Unanswered' /\ ListIsExact' /\ NothingVanishes'
  BY DEF ListInv, FreshKnows, Unanswered, ListIsExact, NothingVanishes
<1>9. ASSUME ~disturbed' PROVE Orderly'
  <2>1. Follows(n) /\ \A m \in Working : m = n
    BY <1>9 DEF ListInv, Orderly
  <2>2. Follows(n)'
    BY <1>4, <2>1 DEF Follows
  <2> QED
    BY <1>6, <1>9, <2>1, <2>2 DEF ListInv, Orderly
<1> QED
  BY <1>7, <1>8, <1>9 DEF ListInv

LEMMA DeleteAnsweredInv ==
  ASSUME ListInv, NEW n \in Deletions, NEW f \in Files, DeleteAnswered(n, f) PROVE ListInv'
<1>1. n \in Working /\ deletion[n] \in Ops
  BY WorkingIsOp DEF ListInv, DeleteAnswered
<1> DEFINE op == [deletion[n] EXCEPT !.waiting = deletion[n].waiting \ {f}]
<1>2. deletion' = [deletion EXCEPT ![n] = op]
  BY DEF DeleteAnswered
<1>3. op = [deletion[n] EXCEPT !.waiting = deletion[n].waiting \ {f}, !.failed = deletion[n].failed]
  BY <1>1 DEF Ops
<1>4. deletion[n].failed \in SUBSET Files
  BY <1>1 DEF Ops
<1>5. /\ stored' \subseteq stored /\ f \notin stored'
      /\ UNCHANGED <<list, allFiles, uploading, uploaded, cleared, reported, fresh, disturbed>>
  BY DEF DeleteAnswered
<1> HIDE DEF op
<1> QED
  BY <1>1, <1>2, <1>3, <1>4, <1>5, AnswerInv

LEMMA DeleteFailsInv ==
  ASSUME ListInv, NEW n \in Deletions, NEW f \in Files, DeleteFails(n, f) PROVE ListInv'
<1>1. n \in Working /\ deletion[n] \in Ops
  BY WorkingIsOp DEF ListInv, DeleteFails
<1> DEFINE more == deletion[n].failed \cup {f}
<1>2. more \in SUBSET Files
  BY <1>1 DEF Ops
<1>3. deletion' = [deletion EXCEPT ![n] =
                     [deletion[n] EXCEPT !.waiting = deletion[n].waiting \ {f}, !.failed = more]]
  BY DEF DeleteFails, failures
<1>4. /\ stored' \subseteq stored
      /\ UNCHANGED <<list, allFiles, uploading, uploaded, cleared, reported, fresh, disturbed>>
  BY DEF DeleteFails
<1> QED
  BY <1>1, <1>2, <1>3, <1>4, AnswerInv

LEMMA EndDeletionInv == ASSUME ListInv, NEW n \in Deletions, EndDeletion(n) PROVE ListInv'
<1> DEFINE op == deletion[n]
           saves == op.all \/ op.failed = {}
<1>1. n \in Working /\ op \in Ops /\ op.waiting = {}
  BY WorkingIsOp DEF ListInv, EndDeletion
<1>2. deletion' = [deletion EXCEPT ![n] = Over]
  BY DEF EndDeletion, Over
<1>3. deletion'[n] = Over /\ \A m \in Deletions \ {n} : deletion'[m] = deletion[m]
  BY <1>2 DEF ListInv, ListType
<1>4. Working' = Working \ {n}
  BY <1>3, NotWorking DEF Working
<1>5. UNCHANGED <<uploading, stored, uploaded, disturbed>>
  BY DEF EndDeletion
<1>6. /\ cleared' = IF saves THEN cleared \cup op.files ELSE cleared
      /\ reported' = reported \cup op.failed
      /\ list' = IF saves THEN op.known \ op.files ELSE list
  BY DEF EndDeletion, remaining
<1>7. op.tab \in Pages /\ op.files \subseteq Files /\ op.known \subseteq Files
  BY <1>1 DEF Ops
<1>8. \/ UNCHANGED <<list, allFiles, fresh>>
      \/ list' = op.known \ op.files /\ UNCHANGED allFiles /\ fresh' = {}
      \/ /\ list' = op.known \ op.files
         /\ allFiles' = [allFiles EXCEPT ![op.tab] = op.known \ op.files]
         /\ fresh' = {op.tab}
  BY DEF EndDeletion, remaining
<1> HIDE DEF op
<1>9. ListType'
  BY <1>2, <1>5, <1>7, <1>8 DEF ListInv, ListType
<1>10. FreshKnows'
  BY <1>7, <1>8 DEF ListInv, ListType, FreshKnows
<1>11. ASSUME ~disturbed' PROVE Orderly' /\ ListIsExact' /\ NothingVanishes'
  <2>1. ~disturbed /\ Follows(n) /\ Working \subseteq {n}
    BY <1>1, <1>5, <1>11 DEF ListInv, Orderly
  <2>2. op.known = list /\ op.files \subseteq list
    BY <2>1 DEF Follows, op
  <2>3. \A f \in op.files : f \in stored => f \in op.failed
    BY <1>1, <2>1 DEF Follows, op
  <2>4. list = uploaded \ cleared /\ cleared \subseteq uploaded
    BY <2>1 DEF ListInv, Orderly, ListIsExact
  <2>5. Working' = {}
    BY <1>4, <2>1
  <2>6. Orderly'
    BY <1>5, <1>6, <2>2, <2>4, <2>5 DEF Orderly
  <2>7. ListIsExact'
    BY <1>5, <1>6, <2>2, <2>4 DEF ListIsExact
  <2>8. NothingVanishes'
    BY <1>5, <1>6, <2>1, <2>2, <2>3 DEF ListInv, NothingVanishes
  <2> QED
    BY <2>6, <2>7, <2>8
<1>12. Unanswered'
  BY <1>5 DEF ListInv, Unanswered
<1> QED
  BY <1>9, <1>10, <1>11, <1>12 DEF ListInv, ListIsExact, NothingVanishes

-----------------------------------------------------------------------------

LEMMA ListStepInv == ListInv /\ [ListNext]_listVars => ListInv'
<1> SUFFICES ASSUME ListInv, [ListNext]_listVars PROVE ListInv'
  OBVIOUS
<1>1. ASSUME NEW t \in Pages, handleDeleteAll(t) PROVE ListInv'
  BY <1>1, BeginInv DEF handleDeleteAll, shownFiles
<1>2. ASSUME NEW t \in Pages, NEW f \in Files, handleDelete(t, f) PROVE ListInv'
  <2>1. {f} \subseteq allFiles[t] /\ Begin(t, FALSE, {f})
    BY <1>2 DEF handleDelete, shownFiles
  <2> QED
    BY <2>1, BeginInv
<1>3. CASE UNCHANGED listVars
  BY <1>3, Quiet DEF listVars, ListInv, ListType, FreshKnows
<1> QED
  BY <1>1, <1>2, <1>3, MountInv, LeaveInv, OtherActionInv, UploadInv, UploadAnsweredInv,
     UploadFailsInv, DeleteAnsweredInv, DeleteFailsInv, EndDeletionInv DEF ListNext

\* While operations neither overlap nor start from an outdated page, the list
\* holds the files whose upload was answered, of every network, less those a
\* deletion removed (EndDeletion's remaining keeps what is not shown).
THEOREM ExactList == ListSpec => []ListIsExact
<1>1. ListInv => ListIsExact
  BY DEF ListInv
<1> QED
  BY <1>1, ListInitInv, ListStepInv, PTL DEF ListSpec

\* Then a stored file that was listed leaves the list only with a failure that
\* Delete All reported.
THEOREM NoSilentLoss == ListSpec => []NothingVanishes
<1>1. ListInv => NothingVanishes
  BY DEF ListInv
<1> QED
  BY <1>1, ListInitInv, ListStepInv, PTL DEF ListSpec
=============================================================================
