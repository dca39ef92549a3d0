---------------------- MODULE SecureDataManagementProofs ----------------------
(***************************************************************************)
(* Theorems about the contract, for every set of files and accounts and    *)
(* every bound.                                                            *)
(***************************************************************************)
EXTENDS SecureDataManagement, FiniteSetTheorems, WellFoundedInduction, TLAPS

-----------------------------------------------------------------------------
(* Type correctness.                                                       *)

LEMMA InitTypeOK == Init => TypeOK
<1> SUFFICES ASSUME Init PROVE TypeOK
  OBVIOUS
<1>1. Blank \in FileRecord
  BY ContractAssumption DEF Blank, FileRecord
<1>2. NONE \in Permission
  BY DEF NONE, FULL, Permission
<1> QED
  BY <1>1, <1>2 DEF Init, TypeOK

LEMMA RegisterTypeOK ==
  ASSUME TypeOK, NEW sender \in Senders, NEW f \in FileIds, NEW chunks \in ChunkLists,
         registerFile(sender, f, chunks)
  PROVE  TypeOK'
<1>1. [owner |-> sender, isActive |-> TRUE] \in FileRecord
  BY DEF Senders, FileRecord
<1>2. files' \in [FileIds -> FileRecord]
  BY <1>1 DEF registerFile, TypeOK
<1>3. chunks \in Seq(Chunks)
  BY ContractAssumption
<1>4. fileChunks' \in [FileIds -> Seq(Chunks)]
  BY <1>3 DEF registerFile, TypeOK
<1>5. FULL \in Permission /\ sender \in Addresses
  BY DEF FULL, NONE, Permission, Senders
<1>6. permissions' \in [FileIds -> [Addresses -> Permission]]
  BY <1>5 DEF registerFile, ownerPermission, TypeOK
<1>7. [name |-> "FileRegistered", fileId |-> f, owner |-> sender] \in Event
  BY DEF Event
<1>8. events' \in Seq(Event)
  BY <1>7 DEF registerFile, TypeOK
<1> QED
  BY <1>2, <1>4, <1>6, <1>8 DEF registerFile, logVars, TypeOK

LEMMA GrantTypeOK ==
  ASSUME TypeOK, NEW sender \in Senders, NEW f \in FileIds, NEW user \in Addresses,
         NEW permission \in Permission, grantAccess(sender, f, user, permission)
  PROVE  TypeOK'
<1>1. user \in Senders
  BY DEF grantAccess, grantable, Senders
<1>2. permissions' \in [FileIds -> [Addresses -> Permission]]
  BY DEF grantAccess, TypeOK
<1>3. [name |-> "AccessGranted", fileId |-> f, user |-> user, permission |-> permission]
        \in Event
  BY <1>1 DEF Event
<1>4. events' \in Seq(Event)
  BY <1>3 DEF grantAccess, TypeOK
<1> QED
  BY <1>2, <1>4 DEF grantAccess, logVars, TypeOK

LEMMA RevokeTypeOK ==
  ASSUME TypeOK, NEW sender \in Senders, NEW f \in FileIds, NEW user \in Addresses,
         revokeAccess(sender, f, user)
  PROVE  TypeOK'
<1>1. NONE \in Permission
  BY DEF NONE, FULL, Permission
<1>2. permissions' \in [FileIds -> [Addresses -> Permission]]
  BY <1>1 DEF revokeAccess, TypeOK
<1>3. [name |-> "AccessRevoked", fileId |-> f, user |-> user] \in Event
  BY DEF Event
<1>4. events' \in Seq(Event)
  BY <1>3 DEF revokeAccess, TypeOK
<1> QED
  BY <1>2, <1>4 DEF revokeAccess, logVars, TypeOK

LEMMA LogTypeOK ==
  ASSUME TypeOK, NEW sender \in Senders, NEW f \in FileIds, NEW anomalyFlag \in BOOLEAN,
         logAccess(sender, f, anomalyFlag)
  PROVE  TypeOK'
<1>1. Len(accessLogs) \in Nat
  BY DEF TypeOK
<1>2. anomalyLogIndices' \in Seq(Nat)
  BY <1>1 DEF logAccess, logIndex, TypeOK
<1>3. [user |-> sender, fileId |-> f, anomalyFlag |-> anomalyFlag] \in AccessLog
  BY DEF AccessLog
<1>4. accessLogs' \in Seq(AccessLog)
  BY <1>3 DEF logAccess, TypeOK
<1> QED
  BY <1>2, <1>4 DEF logAccess, registryVars, TypeOK

LEMMA NextTypeOK == TypeOK /\ [Next]_vars => TypeOK'
<1> SUFFICES ASSUME TypeOK, [Next]_vars PROVE TypeOK'
  OBVIOUS
<1>1. CASE UNCHANGED vars
  BY <1>1 DEF vars, TypeOK
<1>2. CASE Next
  BY <1>2, RegisterTypeOK, GrantTypeOK, RevokeTypeOK, LogTypeOK DEF Next
<1> QED
  BY <1>1, <1>2

\* Every reachable state of the contract is well-typed.
THEOREM TypeCorrect == Spec => []TypeOK
<1> QED
  BY InitTypeOK, NextTypeOK, PTL DEF Spec

-----------------------------------------------------------------------------
(* Registrations are final.                                                *)

\* No transaction changes the owner or the chunk list of a registered file.
THEOREM RegistrationFinal == Spec => RegisteredIsFinal
<1> DEFINE Final == \A f \in FileIds : files[f].isActive =>
                      files'[f] = files[f] /\ fileChunks'[f] = fileChunks[f]
<1>1. TypeOK /\ [Next]_vars => [Final]_vars
  <2> SUFFICES ASSUME TypeOK, Next PROVE Final
    OBVIOUS
  <2>1. ASSUME NEW sender \in Senders, NEW g \in FileIds, NEW chunks \in ChunkLists,
               registerFile(sender, g, chunks)
        PROVE  Final
    BY <2>1 DEF registerFile, unregistered, TypeOK
  <2>2. ASSUME NEW sender \in Senders, NEW g \in FileIds, NEW user \in Addresses,
               NEW permission \in Permission, grantAccess(sender, g, user, permission)
        PROVE  Final
    BY <2>2 DEF grantAccess
  <2>3. ASSUME NEW sender \in Senders, NEW g \in FileIds, NEW user \in Addresses,
               revokeAccess(sender, g, user)
        PROVE  Final
    BY <2>3 DEF revokeAccess
  <2>4. ASSUME NEW sender \in Senders, NEW g \in FileIds, NEW anomalyFlag \in BOOLEAN,
               logAccess(sender, g, anomalyFlag)
        PROVE  Final
    BY <2>4 DEF logAccess, registryVars
  <2> QED
    BY <2>1, <2>2, <2>3, <2>4 DEF Next
<1> QED
  BY <1>1, TypeCorrect, PTL DEF Spec, RegisteredIsFinal

-----------------------------------------------------------------------------
(* The event log explains the permissions.                                 *)

\* EventsExplainPermissions for one file and one user.
Explained(f, user) ==
  LET about == {i \in DOMAIN events : Concerns(events[i], f, user)}
  IN IF about = {}
     THEN permissions[f][user] = NONE
     ELSE \E i \in about :
            /\ \A j \in about : j <= i
            /\ permissions[f][user] = EffectOn(events[i], user)

\* Appending an event about f and user, with its effect written to the
\* permission, explains it whatever came before.
LEMMA NewEventExplains ==
  ASSUME TypeOK, NEW e, events' = Append(events, e), NEW f, NEW user,
         Concerns(e, f, user), permissions'[f][user] = EffectOn(e, user)
  PROVE  Explained(f, user)'
<1> DEFINE n == Len(events) + 1
<1>1. events \in Seq(Event) /\ Len(events) \in Nat
  BY DEF TypeOK
<1>2. DOMAIN events' = 1 .. n /\ events'[n] = e
  BY <1>1
<1>3. n \in {i \in DOMAIN events' : Concerns(events'[i], f, user)}
  BY <1>1, <1>2
<1>4. \A j \in {i \in DOMAIN events' : Concerns(events'[i], f, user)} : j <= n
  BY <1>1, <1>2
<1> QED
  BY <1>2, <1>3, <1>4 DEF Explained, Concerns, EffectOn

\* Appending an event that is not about f and user keeps the explanation.
LEMMA OtherEventKeeps ==
  ASSUME TypeOK, NEW e, events' = Append(events, e), NEW f, NEW user,
         ~Concerns(e, f, user), permissions'[f][user] = permissions[f][user],
         Explained(f, user)
  PROVE  Explained(f, user)'
<1> DEFINE about == {i \in DOMAIN events : Concerns(events[i], f, user)}
<1> DEFINE about2 == {i \in DOMAIN events' : Concerns(events'[i], f, user)}
<1>1. events \in Seq(Event) /\ Len(events) \in Nat
  BY DEF TypeOK
<1>2. /\ DOMAIN events = 1 .. Len(events)
      /\ DOMAIN events' = 1 .. (Len(events) + 1)
      /\ events'[Len(events) + 1] = e
      /\ \A i \in 1 .. Len(events) : events'[i] = events[i]
  BY <1>1
<1>3. about2 = about
  BY <1>1, <1>2
<1>4. \A i \in about : events'[i] = events[i]
  BY <1>2
<1>5. Explained(f, user)' = IF about2 = {}
                            THEN permissions'[f][user] = NONE
                            ELSE \E i \in about2 :
                                   /\ \A j \in about2 : j <= i
                                   /\ permissions'[f][user] = EffectOn(events'[i], user)
  BY DEF Explained, Concerns, EffectOn
<1> HIDE DEF about, about2
<1>6. CASE about = {}
  BY <1>3, <1>5, <1>6 DEF Explained, about
<1>7. CASE about # {}
  <2>1. PICK i \in about : /\ \A j \in about : j <= i
                           /\ permissions[f][user] = EffectOn(events[i], user)
    BY <1>7 DEF Explained, about
  <2>2. permissions'[f][user] = EffectOn(events'[i], user)
    BY <2>1, <1>4
  <2> QED
    BY <1>3, <1>5, <1>7, <2>1, <2>2
<1> QED
  BY <1>6, <1>7

LEMMA NextExplained ==
  ASSUME TypeOK, EventsExplainPermissions, [Next]_vars
  PROVE  EventsExplainPermissions'
<1> SUFFICES ASSUME NEW f \in FileIds, NEW user \in Addresses PROVE Explained(f, user)'
  BY DEF Explained, EventsExplainPermissions
<1>1. Explained(f, user)
  BY DEF Explained, EventsExplainPermissions
<1>2. ASSUME NEW sender \in Senders, NEW g \in FileIds, NEW chunks \in ChunkLists,
             registerFile(sender, g, chunks)
      PROVE  Explained(f, user)'
  <2> DEFINE e == [name |-> "FileRegistered", fileId |-> g, owner |-> sender]
  <2>1. events' = Append(events, e) /\ permissions' = ownerPermission(g, sender)
    BY <1>2 DEF registerFile
  <2>2. Concerns(e, f, user) <=> f = g /\ user = sender
    BY DEF Concerns
  <2>3. EffectOn(e, user) = FULL
    BY DEF EffectOn
  <2>4. permissions'[f][user] = IF f = g /\ user = sender THEN FULL ELSE permissions[f][user]
    BY <2>1 DEF ownerPermission, TypeOK, Senders
  <2> HIDE DEF e
  <2>5. CASE f = g /\ user = sender
    BY <2>1, <2>2, <2>3, <2>4, <2>5, NewEventExplains
  <2>6. CASE ~(f = g /\ user = sender)
    BY <2>1, <2>2, <2>4, <2>6, <1>1, OtherEventKeeps
  <2> QED
    BY <2>5, <2>6
<1>3. ASSUME NEW sender \in Senders, NEW g \in FileIds, NEW u \in Addresses,
             NEW permission \in Permission, grantAccess(sender, g, u, permission)
      PROVE  Explained(f, user)'
  <2> DEFINE e == [name |-> "AccessGranted", fileId |-> g, user |-> u,
                   permission |-> permission]
  <2>1. events' = Append(events, e)
    BY <1>3 DEF grantAccess
  <2>2. Concerns(e, f, user) <=> f = g /\ user = u
    BY DEF Concerns
  <2>3. EffectOn(e, user) = permission
    BY DEF EffectOn
  <2>4. permissions'[f][user] = IF f = g /\ user = u THEN permission ELSE permissions[f][user]
    BY <1>3 DEF grantAccess, TypeOK
  <2> HIDE DEF e
  <2>5. CASE f = g /\ user = u
    BY <2>1, <2>2, <2>3, <2>4, <2>5, NewEventExplains
  <2>6. CASE ~(f = g /\ user = u)
    BY <2>1, <2>2, <2>4, <2>6, <1>1, OtherEventKeeps
  <2> QED
    BY <2>5, <2>6
<1>4. ASSUME NEW sender \in Senders, NEW g \in FileIds, NEW u \in Addresses,
             revokeAccess(sender, g, u)
      PROVE  Explained(f, user)'
  <2> DEFINE e == [name |-> "AccessRevoked", fileId |-> g, user |-> u]
  <2>1. events' = Append(events, e)
    BY <1>4 DEF revokeAccess
  <2>2. Concerns(e, f, user) <=> f = g /\ user = u
    BY DEF Concerns
  <2>3. EffectOn(e, user) = NONE
    BY DEF EffectOn
  <2>4. permissions'[f][user] = IF f = g /\ user = u THEN NONE ELSE permissions[f][user]
    BY <1>4 DEF revokeAccess, TypeOK
  <2> HIDE DEF e
  <2>5. CASE f = g /\ user = u
    BY <2>1, <2>2, <2>3, <2>4, <2>5, NewEventExplains
  <2>6. CASE ~(f = g /\ user = u)
    BY <2>1, <2>2, <2>4, <2>6, <1>1, OtherEventKeeps
  <2> QED
    BY <2>5, <2>6
<1>5. ASSUME UNCHANGED <<permissions, events>>
      PROVE  Explained(f, user)'
  BY <1>1, <1>5 DEF Explained, Concerns, EffectOn
<1>6. ASSUME NEW sender \in Senders, NEW g \in FileIds, NEW anomalyFlag \in BOOLEAN,
             logAccess(sender, g, anomalyFlag)
      PROVE  Explained(f, user)'
  BY <1>5, <1>6 DEF logAccess, registryVars
<1>7. CASE UNCHANGED vars
  BY <1>5, <1>7 DEF vars
<1> QED
  BY <1>2, <1>3, <1>4, <1>6, <1>7 DEF Next

\* The permissions can always be rebuilt from the events alone.
THEOREM EventsExplain == Spec => []EventsExplainPermissions
<1>1. Init => EventsExplainPermissions
  BY DEF Init, EventsExplainPermissions
<1>2. TypeOK /\ EventsExplainPermissions /\ [Next]_vars => EventsExplainPermissions'
  BY NextExplained
<1> QED
  BY <1>1, <1>2, TypeCorrect, PTL DEF Spec

-----------------------------------------------------------------------------
(* The anomaly index is exact.                                             *)

LEMMA NextIndexExact ==
  ASSUME TypeOK, AnomalyIndexExact, [Next]_vars
  PROVE  AnomalyIndexExact'
<1>1. ASSUME UNCHANGED logVars
      PROVE  AnomalyIndexExact'
  BY <1>1 DEF logVars, AnomalyIndexExact, IndicesInRange, IndexedAreFlagged,
     FlaggedAreIndexed, IndicesIncrease
<1>2. ASSUME NEW sender \in Senders, NEW f \in FileIds, NEW anomalyFlag \in BOOLEAN,
             logAccess(sender, f, anomalyFlag)
      PROVE  AnomalyIndexExact'
  <2> DEFINE n == Len(accessLogs)
             m == Len(anomalyLogIndices)
             entry == [user |-> sender, fileId |-> f, anomalyFlag |-> anomalyFlag]
  <2>1. /\ accessLogs \in Seq(AccessLog) /\ n \in Nat
        /\ anomalyLogIndices \in Seq(Nat) /\ m \in Nat
    BY DEF TypeOK
  <2>2. accessLogs' = Append(accessLogs, entry)
    BY <1>2 DEF logAccess
  <2>3. /\ DOMAIN accessLogs = 1 .. n /\ DOMAIN accessLogs' = 1 .. (n + 1)
        /\ accessLogs'[n + 1].anomalyFlag = anomalyFlag
        /\ \A i \in 1 .. n : accessLogs'[i] = accessLogs[i]
    BY <2>1, <2>2
  <2>4. DOMAIN anomalyLogIndices = 1 .. m
    BY <2>1
  <2>5. \A k \in 1 .. m : anomalyLogIndices[k] \in Nat /\ anomalyLogIndices[k] + 1 \in 1 .. n
    BY <2>1, <2>3, <2>4 DEF AnomalyIndexExact, IndicesInRange
  <2>6. \A k \in 1 .. m : accessLogs'[anomalyLogIndices[k] + 1].anomalyFlag
    <3>1. \A k \in 1 .. m : accessLogs[anomalyLogIndices[k] + 1].anomalyFlag
      BY <2>4 DEF AnomalyIndexExact, IndexedAreFlagged
    <3> QED
      BY <2>3, <2>5, <3>1
  <2>7. \A i \in 1 .. n : accessLogs'[i].anomalyFlag =>
           \E k \in 1 .. m : anomalyLogIndices[k] = i - 1
    BY <2>3, <2>4 DEF AnomalyIndexExact, FlaggedAreIndexed
  <2>8. \A j, k \in 1 .. m : j < k => anomalyLogIndices[j] < anomalyLogIndices[k]
    BY <2>4 DEF AnomalyIndexExact, IndicesIncrease
  <2>9. CASE ~anomalyFlag
    <3>1. anomalyLogIndices' = anomalyLogIndices
      BY <1>2, <2>9 DEF logAccess
    <3>2. ~accessLogs'[n + 1].anomalyFlag
      BY <2>3, <2>9
    <3>3. \A k \in 1 .. m : anomalyLogIndices[k] + 1 \in 1 .. (n + 1)
      BY <2>1, <2>5
    <3>4. \A i \in 1 .. (n + 1) : accessLogs'[i].anomalyFlag => i \in 1 .. n
      BY <2>1, <3>2
    <3> QED
      <4>1. IndicesInRange' /\ IndicesIncrease'
        BY <2>3, <2>4, <2>8, <3>1, <3>3 DEF IndicesInRange, IndicesIncrease
      <4>2. IndexedAreFlagged'
        BY <2>4, <2>6, <3>1 DEF IndexedAreFlagged
      <4>3. FlaggedAreIndexed'
        BY <2>3, <2>4, <2>7, <3>1, <3>4, Zenon DEF FlaggedAreIndexed
      <4> QED
        BY <4>1, <4>2, <4>3 DEF AnomalyIndexExact
  <2>10. CASE anomalyFlag
    <3>1. anomalyLogIndices' = Append(anomalyLogIndices, n)
      BY <1>2, <2>10 DEF logAccess, logIndex
    <3>2. /\ DOMAIN anomalyLogIndices' = 1 .. (m + 1)
          /\ anomalyLogIndices'[m + 1] = n
          /\ \A k \in 1 .. m : anomalyLogIndices'[k] = anomalyLogIndices[k]
      BY <2>1, <3>1
    <3>3. accessLogs'[n + 1].anomalyFlag
      BY <2>3, <2>10
    <3>4. \A k \in 1 .. (m + 1) : k \in 1 .. m \/ k = m + 1
      BY <2>1
    <3>5. \A k \in 1 .. (m + 1) : anomalyLogIndices'[k] + 1 \in 1 .. (n + 1)
      BY <2>1, <2>5, <3>2, <3>4
    <3>6. \A k \in 1 .. (m + 1) : accessLogs'[anomalyLogIndices'[k] + 1].anomalyFlag
      <4>1. accessLogs'[anomalyLogIndices'[m + 1] + 1].anomalyFlag
        BY <3>2, <3>3
      <4>2. \A k \in 1 .. m : accessLogs'[anomalyLogIndices'[k] + 1].anomalyFlag
        BY <2>6, <3>2
      <4> QED
        BY <3>4, <4>1, <4>2, Zenon
    <3>7. \A i \in 1 .. (n + 1) : accessLogs'[i].anomalyFlag =>
             \E k \in 1 .. (m + 1) : anomalyLogIndices'[k] = i - 1
      <4>1. \E k \in 1 .. (m + 1) : anomalyLogIndices'[k] = (n + 1) - 1
        BY <2>1, <3>2
      <4>2. ASSUME NEW i \in 1 .. n, accessLogs'[i].anomalyFlag
            PROVE  \E k \in 1 .. (m + 1) : anomalyLogIndices'[k] = i - 1
        <5>1. PICK k \in 1 .. m : anomalyLogIndices[k] = i - 1
          BY <2>7, <4>2
        <5> QED
          BY <2>1, <3>2, <5>1
      <4>3. \A i \in 1 .. (n + 1) : i \in 1 .. n \/ i = n + 1
        BY <2>1
      <4> QED
        BY <4>1, <4>2, <4>3, Zenon
    <3>8. \A j, k \in 1 .. (m + 1) :
             j < k => anomalyLogIndices'[j] < anomalyLogIndices'[k]
      <4> SUFFICES ASSUME NEW j \in 1 .. (m + 1), NEW k \in 1 .. (m + 1), j < k
                   PROVE  anomalyLogIndices'[j] < anomalyLogIndices'[k]
        OBVIOUS
      <4>1. j \in 1 .. m /\ anomalyLogIndices[j] \in Nat /\ anomalyLogIndices[j] < n
        BY <2>1, <2>5
      <4>2. CASE k = m + 1
        BY <3>2, <4>1, <4>2
      <4>3. CASE k \in 1 .. m
        BY <2>8, <3>2, <4>1, <4>3
      <4> QED
        BY <3>4, <4>2, <4>3
    <3>9. IndicesInRange' /\ IndicesIncrease'
      BY <2>3, <3>2, <3>5, <3>8 DEF IndicesInRange, IndicesIncrease
    <3>10. IndexedAreFlagged'
      BY <3>2, <3>6 DEF IndexedAreFlagged
    <3>11. FlaggedAreIndexed'
      BY <2>3, <3>2, <3>7, Zenon DEF FlaggedAreIndexed
    <3> QED
      BY <3>9, <3>10, <3>11 DEF AnomalyIndexExact
  <2> QED
    BY <2>9, <2>10
<1>3. CASE UNCHANGED vars
  BY <1>1, <1>3 DEF vars, logVars
<1>4. CASE Next
  BY <1>1, <1>2, <1>4 DEF Next, registerFile, grantAccess, revokeAccess
<1> QED
  BY <1>3, <1>4

\* The anomaly index lists the flagged entries exactly, however long the log.
THEOREM IndexExact == Spec => []AnomalyIndexExact
<1>1. Init => AnomalyIndexExact
  BY DEF Init, AnomalyIndexExact, IndicesInRange, IndexedAreFlagged,
     FlaggedAreIndexed, IndicesIncrease
<1>2. TypeOK /\ AnomalyIndexExact /\ [Next]_vars => AnomalyIndexExact'
  BY NextIndexExact
<1> QED
  BY <1>1, <1>2, TypeCorrect, PTL DEF Spec

-----------------------------------------------------------------------------
(* The paginated views.  A view copies the positions whose ranks are on the *)
(* page, so the lemmas count positions.                                    *)

\* A set of numbers that is not empty has a smallest one.
LEMMA LeastOf ==
  ASSUME NEW S, S \subseteq Nat, S # {}
  PROVE  \E x \in S : \A y \in S : x <= y
<1> DEFINE R == OpToRel(<, Nat)
<1>1. IsWellFoundedOn(R, Nat)
  BY NatLessThanWellFounded
<1>2. R = {r \in Nat \X Nat : r[1] < r[2]}
  BY DEF OpToRel
<1> HIDE DEF R
<1>3. PICK x \in S : \A y \in S : <<y, x>> \notin R
  BY <1>1, WFMin
<1>4. \A y \in S : ~(y < x)
  BY <1>2, <1>3
<1> QED
  BY <1>3, <1>4

\* S is a set of positions in a log.
Positions(S) == \E n \in Nat : S \subseteq 1 .. n

LEMMA SubsetPositions ==
  ASSUME NEW S, Positions(S), NEW T, T \subseteq S
  PROVE  Positions(T)
  BY DEF Positions

LEMMA RankType ==
  ASSUME NEW S, Positions(S)
  PROVE  /\ \A i \in S : i \in Nat /\ 0 < i
         /\ IsFiniteSet(S) /\ Cardinality(S) \in Nat
         /\ \A i \in Nat : /\ IsFiniteSet({j \in S : j <= i})
                           /\ Rank(S, i) \in Nat /\ Rank(S, i) <= Cardinality(S)
         /\ Rank(S, 0) = 0
         /\ \E n \in Nat : Rank(S, n) = Cardinality(S)
<1>1. PICK n \in Nat : S \subseteq 1 .. n
  BY DEF Positions
<1>2. IsFiniteSet(1 .. n) /\ S \in SUBSET (1 .. n)
  BY <1>1, FS_Interval
<1>3. IsFiniteSet(S)
  BY <1>2, FS_Subset
<1>4. Cardinality(S) \in Nat
  BY <1>3, FS_CardinalityType
<1>5. ASSUME NEW i \in Nat
      PROVE  /\ IsFiniteSet({j \in S : j <= i})
             /\ Rank(S, i) \in Nat /\ Rank(S, i) <= Cardinality(S)
  <2> DEFINE T == {j \in S : j <= i}
  <2>1. T \in SUBSET S
    OBVIOUS
  <2>2. IsFiniteSet(T) /\ Cardinality(T) <= Cardinality(S)
    BY <1>3, <2>1, FS_Subset
  <2>3. Cardinality(T) \in Nat
    BY <2>2, FS_CardinalityType
  <2> QED
    BY <1>4, <2>2, <2>3 DEF Rank
<1>6. \A i \in S : i \in Nat /\ 0 < i /\ i <= n
  BY <1>1
<1>7. {j \in S : j <= 0} = {} /\ {j \in S : j <= n} = S
  <2>1. \A j \in S : ~(j <= 0)
    BY <1>6
  <2>2. {j \in S : j <= n} = S
    BY <1>6
  <2> QED
    BY <2>1, <2>2
<1>8. Rank(S, 0) = 0 /\ Rank(S, n) = Cardinality(S)
  BY <1>7, FS_EmptySet DEF Rank
<1> QED
  BY <1>3, <1>4, <1>5, <1>6, <1>8

\* A rank grows by one at each position of the set and nowhere else.
LEMMA RankNext ==
  ASSUME NEW S, Positions(S), NEW i \in Nat
  PROVE  Rank(S, i + 1) = IF i + 1 \in S THEN Rank(S, i) + 1 ELSE Rank(S, i)
<1> DEFINE T == {j \in S : j <= i}
<1>1. IsFiniteSet(T) /\ i + 1 \notin T
  BY RankType
<1>2. \A j \in S : j <= i + 1 <=> j <= i \/ j = i + 1
  BY RankType
<1>3. {j \in S : j <= i + 1} = IF i + 1 \in S THEN T \cup {i + 1} ELSE T
  BY <1>2
<1>4. Cardinality(T \cup {i + 1}) = Cardinality(T) + 1
  BY <1>1, FS_AddElement
<1> QED
  BY <1>3, <1>4 DEF Rank

LEMMA RankGrows ==
  ASSUME NEW S, Positions(S), NEW i \in Nat, NEW j \in S, i < j
  PROVE  Rank(S, i) < Rank(S, j)
<1> DEFINE T == {k \in S : k <= i}
           U == {k \in S : k <= j}
<1>1. j \in Nat
  BY RankType
<1>2. IsFiniteSet(U) /\ Rank(S, i) \in Nat /\ Rank(S, j) \in Nat
  BY <1>1, RankType
<1>3. T \in SUBSET U /\ j \in U /\ j \notin T
  <2>1. \A k \in S : k \in Nat
    BY RankType
  <2>2. \A k \in S : k <= i => k <= j
    BY <1>1, <2>1
  <2>3. j <= j /\ ~(j <= i)
    BY <1>1
  <2> QED
    BY <2>2, <2>3
<1>4. Cardinality(T) <= Cardinality(U) /\ Cardinality(T) # Cardinality(U)
  BY <1>2, <1>3, FS_Subset
<1> QED
  BY <1>2, <1>4 DEF Rank

LEMMA RankUnique ==
  ASSUME NEW S, Positions(S), NEW i \in S, NEW j \in S
  PROVE  /\ i <= j <=> Rank(S, i) <= Rank(S, j)
         /\ Rank(S, i) = Rank(S, j) => i = j
<1>1. i \in Nat /\ j \in Nat
  BY RankType
<1>2. Rank(S, i) \in Nat /\ Rank(S, j) \in Nat
  BY <1>1, RankType
<1>3. (i < j => Rank(S, i) < Rank(S, j)) /\ (j < i => Rank(S, j) < Rank(S, i))
  BY <1>1, RankGrows
<1> QED
  BY <1>1, <1>2, <1>3

\* Every number up to the size is the rank of a position: that of the first
\* position with this rank.
LEMMA RankFound ==
  ASSUME NEW S, Positions(S), NEW k \in 1 .. Cardinality(S)
  PROVE  \E i \in S : Rank(S, i) = k
<1> DEFINE Reached == {i \in Nat : Rank(S, i) >= k}
<1>1. Reached # {} /\ 0 \notin Reached /\ Cardinality(S) \in Nat
  BY RankType
<1>2. PICK i \in Reached : \A j \in Reached : i <= j
  BY <1>1, LeastOf
<1>3. i \in Nat /\ i - 1 \in Nat /\ i - 1 \notin Reached /\ (i - 1) + 1 = i
  BY <1>1, <1>2
<1>4. Rank(S, i - 1) \in Nat /\ Rank(S, i - 1) < k
  <2>1. Rank(S, i - 1) \in Nat
    BY <1>3, RankType
  <2> QED
    BY <1>1, <1>3, <2>1
<1>5. Rank(S, i) = IF i \in S THEN Rank(S, i - 1) + 1 ELSE Rank(S, i - 1)
  BY <1>3, RankNext
<1> QED
  BY <1>2, <1>4, <1>5

\* The positions with the ranks a + 1 to b are b - a positions.
LEMMA RanksBetween ==
  ASSUME NEW S, Positions(S),
         NEW a \in Nat, NEW b \in Nat, a <= b, b <= Cardinality(S)
  PROVE  Cardinality({i \in S : Rank(S, i) \in a + 1 .. b}) = b - a
<1> DEFINE T == {i \in S : Rank(S, i) \in a + 1 .. b}
           f == [i \in T |-> Rank(S, i)]
<1>1. IsFiniteSet(T)
  BY RankType, FS_Subset
<1>2. f \in Injection(T, a + 1 .. b)
  BY RankUnique DEF Injection, IsInjective
<1>3. \A k \in a + 1 .. b : \E i \in T : f[i] = k
  BY RankType, RankFound
<1>4. ExistsBijection(T, a + 1 .. b)
  BY <1>2, <1>3 DEF ExistsBijection, Bijection, Surjection, Injection
<1>5. Cardinality(a + 1 .. b) = Cardinality(T)
  BY <1>1, <1>4, FS_Bijection
<1>6. Cardinality(a + 1 .. b) = b - a
  <2>1. a + 1 \in Int /\ b \in Int
    OBVIOUS
  <2>2. Cardinality(a + 1 .. b) = IF a + 1 > b THEN 0 ELSE b - (a + 1) + 1
    BY <2>1, FS_Interval
  <2> QED
    BY <2>2
<1> QED
  BY <1>5, <1>6

LEMMA RankInterval ==
  ASSUME NEW n \in Nat, NEW i \in 1 .. n
  PROVE  Rank(1 .. n, i) = i /\ Cardinality(1 .. n) = n
<1>1. {j \in 1 .. n : j <= i} = 1 .. i
  OBVIOUS
<1>2. ASSUME NEW k \in Nat \ {0} PROVE Cardinality(1 .. k) = k
  BY FS_Interval
<1>3. i \in Nat \ {0} /\ n \in Nat \ {0}
  OBVIOUS
<1> QED
  BY <1>1, <1>2, <1>3 DEF Rank

LEMMA SliceAt ==
  ASSUME NEW S, Positions(S), NEW s, NEW i \in S
  PROVE  Slice(s, S)[Rank(S, i)] = s[i]
<1>1. i \in Nat /\ 0 < i
  BY RankType
<1>2. /\ Rank(S, i) \in Nat /\ Rank(S, i) <= Cardinality(S) /\ Rank(S, 0) = 0
      /\ Cardinality(S) \in Nat
  BY <1>1, RankType
<1>3. Rank(S, 0) < Rank(S, i)
  BY <1>1, RankGrows
<1>4. Rank(S, i) \in 1 .. Cardinality(S)
  BY <1>2, <1>3
<1>5. (CHOOSE j \in S : Rank(S, j) = Rank(S, i)) = i
  BY RankUnique
<1> QED
  BY <1>4, <1>5 DEF Slice

LEMMA PageBounds ==
  ASSUME NEW total \in Nat, NEW page \in Nat, NEW pageSize \in Nat \ {0}
  PROVE  \E a, b \in Nat :
           /\ a <= b /\ b <= total /\ b - a <= pageSize
           /\ PageSlice(total, page, pageSize) = a + 1 .. b
           /\ a < b => a = page * pageSize
           /\ \A k \in 1 .. pageSize : k <= b - a <=> page * pageSize + k <= total
<1> DEFINE start == page * pageSize
           end == IF start + pageSize > total THEN total ELSE start + pageSize
<1>1. start \in Nat
  OBVIOUS
<1>2. PageSlice(total, page, pageSize) = IF start >= total THEN 1 .. 0 ELSE start + 1 .. end
  BY DEF PageSlice
<1> SUFFICES \E a, b \in Nat :
           /\ a <= b /\ b <= total /\ b - a <= pageSize
           /\ PageSlice(total, page, pageSize) = a + 1 .. b
           /\ a < b => a = start
           /\ \A k \in 1 .. pageSize : k <= b - a <=> start + k <= total
  OBVIOUS
<1> HIDE DEF start
<1>3. CASE start >= total
  <2>1. PageSlice(total, page, pageSize) = 0 + 1 .. 0
    BY <1>2, <1>3
  <2>2. \A k \in 1 .. pageSize : ~(k <= 0 - 0) /\ ~(start + k <= total)
    BY <1>1, <1>3
  <2> QED
    BY <2>1, <2>2
<1>4. CASE start < total
  <2>1. /\ end \in Nat /\ start <= end /\ end <= total /\ end - start <= pageSize
        /\ \A k \in 1 .. pageSize : k <= end - start <=> start + k <= total
    BY <1>1, <1>4
  <2>2. PageSlice(total, page, pageSize) = start + 1 .. end
    BY <1>1, <1>2, <1>4
  <2> HIDE DEF end
  <2> QED
    BY <1>1, <2>1, <2>2
<1> QED
  BY <1>1, <1>3, <1>4

\* Copying the positions whose ranks are on page p gives page p.
LEMMA PageAt ==
  ASSUME NEW S, Positions(S), NEW s,
         NEW page \in Nat, NEW pageSize \in Nat \ {0}, NEW T,
         T = {i \in S : Rank(S, i) \in PageSlice(Cardinality(S), page, pageSize)}
  PROVE  IsPage(Slice(s, T), s, S, page, pageSize)
<1>1. Cardinality(S) \in Nat
  BY RankType
<1>2. PICK a \in Nat, b \in Nat :
        /\ a <= b /\ b <= Cardinality(S) /\ b - a <= pageSize
        /\ PageSlice(Cardinality(S), page, pageSize) = a + 1 .. b
        /\ a < b => a = page * pageSize
        /\ \A k \in 1 .. pageSize : k <= b - a <=> page * pageSize + k <= Cardinality(S)
  BY <1>1, PageBounds
<1> DEFINE start == page * pageSize
<1>3. start \in Nat
  OBVIOUS
<1> HIDE DEF start
<1>4. T = {i \in S : Rank(S, i) \in a + 1 .. b} /\ Positions(T)
  BY <1>2, SubsetPositions
<1>5. DOMAIN Slice(s, T) = 1 .. (b - a)
  <2>1. Cardinality(T) = b - a
    BY <1>2, <1>4, RanksBetween
  <2> QED
    BY <2>1 DEF Slice
<1>6. ASSUME NEW k \in 1 .. pageSize, NEW i \in S, Rank(S, i) = start + k
      PROVE  Slice(s, T)[k] = s[i]
  <2>1. Rank(S, i) <= Cardinality(S)
    <3>1. i \in Nat
      BY RankType
    <3> QED
      BY <3>1, RankType
  <2>2. start + k <= Cardinality(S)
    BY <1>6, <2>1
  <2>3. k <= b - a
    BY <1>2, <2>2 DEF start
  <2>4. a = start
    BY <1>2, <2>3 DEF start
  <2>5. start + k \in a + 1 .. b /\ i \in T
    BY <1>3, <1>4, <1>6, <2>3, <2>4
  <2>6. {j \in T : j <= i} = {j \in S : Rank(S, j) \in a + 1 .. (start + k)}
    <3>1. \A j \in S : /\ Rank(S, j) \in Nat
                       /\ j <= i <=> Rank(S, j) <= start + k
      <4> SUFFICES ASSUME NEW j \in S
                   PROVE  Rank(S, j) \in Nat /\ (j <= i <=> Rank(S, j) <= start + k)
        OBVIOUS
      <4>1. j \in Nat
        BY RankType
      <4>2. Rank(S, j) \in Nat
        BY <4>1, RankType
      <4>3. j <= i <=> Rank(S, j) <= Rank(S, i)
        BY RankUnique
      <4> QED
        BY <1>6, <4>2, <4>3
    <3>2. start + k <= b /\ start + k \in Nat
      BY <1>3, <2>3, <2>4
    <3> QED
      BY <1>4, <3>1, <3>2
  <2>7. Cardinality({j \in T : j <= i}) = (start + k) - a
    BY <1>3, <2>2, <2>4, <2>6, RanksBetween
  <2>8. Rank(T, i) = k
    BY <1>3, <2>4, <2>7 DEF Rank
  <2> QED
    BY <1>4, <2>5, <2>8, SliceAt
<1>7. \A k \in 1 .. pageSize : k \in 1 .. (b - a) <=> start + k <= Cardinality(S)
  BY <1>2 DEF start
<1>8. 1 .. (b - a) \subseteq 1 .. pageSize
  BY <1>2
<1> QED
  BY <1>5, <1>6, <1>7, <1>8 DEF IsPage, start

LEMMA PageOfInterval ==
  ASSUME NEW n \in Nat, NEW page \in Nat, NEW pageSize \in Nat \ {0}
  PROVE  PageSlice(n, page, pageSize) =
           {i \in 1 .. n : Rank(1 .. n, i) \in PageSlice(Cardinality(1 .. n), page, pageSize)}
<1>1. Cardinality(1 .. n) = n
  BY FS_Interval
<1>2. PageSlice(n, page, pageSize) \subseteq 1 .. n
  <2> DEFINE start == page * pageSize
             end == IF start + pageSize > n THEN n ELSE start + pageSize
  <2>1. start \in Nat
    OBVIOUS
  <2>2. PageSlice(n, page, pageSize) = IF start >= n THEN 1 .. 0 ELSE start + 1 .. end
    BY DEF PageSlice
  <2> HIDE DEF start
  <2> QED
    BY <2>1, <2>2
<1> QED
  BY <1>1, <1>2, RankInterval

\* The index of an anomaly has the rank of the flagged entry it points to.
LEMMA FlaggedRanks ==
  ASSUME TypeOK, AnomalyIndexExact, NEW flagged,
         flagged = {i \in DOMAIN accessLogs : accessLogs[i].anomalyFlag}
  PROVE  /\ Cardinality(flagged) = Len(anomalyLogIndices)
         /\ \A r \in 1 .. Len(anomalyLogIndices) :
              /\ anomalyLogIndices[r] + 1 \in flagged
              /\ Rank(flagged, anomalyLogIndices[r] + 1) = r
<1> DEFINE n == Len(accessLogs)
           m == Len(anomalyLogIndices)
           at == [r \in 1 .. m |-> anomalyLogIndices[r] + 1]
<1>1. n \in Nat /\ m \in Nat /\ DOMAIN accessLogs = 1 .. n /\ DOMAIN anomalyLogIndices = 1 .. m
  BY DEF TypeOK
<1>2. flagged \subseteq 1 .. n /\ Positions(flagged)
  BY <1>1 DEF Positions
<1>3. \A r \in 1 .. m : anomalyLogIndices[r] \in Nat /\ at[r] \in flagged
  <2> SUFFICES ASSUME NEW r \in 1 .. m PROVE anomalyLogIndices[r] \in Nat /\ at[r] \in flagged
    OBVIOUS
  <2>1. anomalyLogIndices[r] \in Nat
    BY DEF TypeOK
  <2>2. anomalyLogIndices[r] + 1 \in DOMAIN accessLogs
    BY <1>1 DEF AnomalyIndexExact, IndicesInRange
  <2>3. accessLogs[anomalyLogIndices[r] + 1].anomalyFlag
    BY <1>1 DEF AnomalyIndexExact, IndexedAreFlagged
  <2> QED
    BY <2>1, <2>2, <2>3
<1>4. \A i \in flagged : \E r \in 1 .. m : at[r] = i
  <2> SUFFICES ASSUME NEW i \in flagged PROVE \E r \in 1 .. m : at[r] = i
    OBVIOUS
  <2>1. i \in Nat
    BY <1>2
  <2>2. PICK r \in 1 .. m : anomalyLogIndices[r] = i - 1
    BY <1>1 DEF AnomalyIndexExact, FlaggedAreIndexed
  <2> QED
    BY <2>1, <2>2
<1>5. \A q, r \in 1 .. m : q < r => at[q] < at[r]
  <2> SUFFICES ASSUME NEW q \in 1 .. m, NEW r \in 1 .. m, q < r PROVE at[q] < at[r]
    OBVIOUS
  <2>1. anomalyLogIndices[q] < anomalyLogIndices[r]
    BY <1>1 DEF AnomalyIndexExact, IndicesIncrease
  <2> QED
    BY <1>3, <2>1
<1> HIDE DEF at, n, m
<1>6. ASSUME NEW r \in 0 .. m, NEW T, T = {at[q] : q \in 1 .. r}
      PROVE  Cardinality(T) = r
  <2> DEFINE f == [q \in 1 .. r |-> at[q]]
  <2>1. \A q \in 1 .. r : q \in 1 .. m
    BY <1>1
  <2>2. \A p, q \in 1 .. r : f[p] = f[q] => p = q
    <3>1. \A p, q \in 1 .. r : p < q \/ q < p \/ p = q
      BY <1>1
    <3>2. \A p \in 1 .. r : at[p] \in Nat
      BY <1>2, <1>3, <2>1
    <3> QED
      BY <1>5, <2>1, <3>1, <3>2
  <2>3. f \in Bijection(1 .. r, T)
    BY <1>6, <2>2 DEF Bijection, Injection, Surjection, IsInjective
  <2> QED
    BY <1>1, <2>3, FS_CountingElements DEF ExistsBijection
<1>7. Cardinality(flagged) = m
  <2>1. flagged = {at[q] : q \in 1 .. m}
    BY <1>3, <1>4
  <2> QED
    BY <1>1, <1>6, <2>1
<1>8. ASSUME NEW r \in 1 .. m PROVE Rank(flagged, at[r]) = r
  <2>1. {j \in flagged : j <= at[r]} = {at[q] : q \in 1 .. r}
    <3>1. \A q \in 1 .. m : at[q] \in Nat
      BY <1>2, <1>3
    <3>2. \A q \in 1 .. m : q \in 1 .. r <=> q <= r
      BY <1>1
    <3>3. \A q \in 1 .. r : q \in 1 .. m
      BY <1>1
    <3>4. \A q \in 1 .. m : at[q] <= at[r] <=> q <= r
      BY <1>1, <1>5, <3>1
    <3> QED
      BY <1>3, <1>4, <3>2, <3>3, <3>4
  <2> QED
    BY <1>1, <1>6, <2>1 DEF Rank
<1> QED
  BY <1>3, <1>7, <1>8 DEF at, m

LEMMA AllPage ==
  ASSUME TypeOK, NEW p \in Nat, NEW pageSize \in Nat \ {0}
  PROVE  IsPage(getAllAccessLogs(p, pageSize), accessLogs, DOMAIN accessLogs, p, pageSize)
<1> DEFINE n == Len(accessLogs)
<1>1. n \in Nat /\ DOMAIN accessLogs = 1 .. n /\ Positions(1 .. n)
  BY DEF TypeOK, Positions
<1>2. getAllAccessLogs(p, pageSize) = Slice(accessLogs, PageSlice(n, p, pageSize))
  BY DEF getAllAccessLogs
<1> HIDE DEF n
<1> QED
  BY <1>1, <1>2, PageOfInterval, PageAt

LEMMA FilePage ==
  ASSUME TypeOK, NEW p \in Nat, NEW pageSize \in Nat \ {0}, NEW f,
         NEW matches, matches = {i \in DOMAIN accessLogs : accessLogs[i].fileId = f}
  PROVE  IsPage(getAccessLogs(f, p, pageSize), accessLogs, matches, p, pageSize)
<1> DEFINE n == Len(accessLogs)
           wanted == PageSlice(Cardinality(matches), p, pageSize)
           T == {i \in matches : Rank(matches, i) \in wanted}
<1>1. Positions(matches)
  <2>1. n \in Nat /\ DOMAIN accessLogs = 1 .. n
    BY DEF TypeOK
  <2>2. matches \subseteq 1 .. n
    BY <2>1
  <2> QED
    BY <2>1, <2>2 DEF Positions
<1>2. \A i \in matches : Cardinality({j \in matches : j < i}) + 1 = Rank(matches, i)
  <2> SUFFICES ASSUME NEW i \in matches
               PROVE  Cardinality({j \in matches : j < i}) + 1 = Rank(matches, i)
    OBVIOUS
  <2>1. i - 1 \in Nat /\ (i - 1) + 1 = i
    BY <1>1, RankType
  <2>2. \A j \in matches : j < i <=> j <= i - 1
    <3>1. \A j \in matches : j \in Nat
      BY <1>1, RankType
    <3> QED
      BY <3>1
  <2>3. Cardinality({j \in matches : j < i}) = Rank(matches, i - 1)
    BY <2>2 DEF Rank
  <2>4. Rank(matches, (i - 1) + 1) = Rank(matches, i - 1) + 1
    BY <1>1, <2>1, RankNext
  <2> QED
    BY <2>1, <2>3, <2>4
<1>3. getAccessLogs(f, p, pageSize) =
        Slice(accessLogs, {i \in matches : Cardinality({j \in matches : j < i}) + 1 \in wanted})
  BY DEF getAccessLogs
<1>4. getAccessLogs(f, p, pageSize) = Slice(accessLogs, T)
  BY <1>2, <1>3
<1> QED
  BY <1>1, <1>4, PageAt

LEMMA AnomalyPage ==
  ASSUME TypeOK, AnomalyIndexExact, NEW p \in Nat, NEW pageSize \in Nat \ {0},
         NEW flagged, flagged = {i \in DOMAIN accessLogs : accessLogs[i].anomalyFlag}
  PROVE  IsPage(getAnomalyLogs(p, pageSize), accessLogs, flagged, p, pageSize)
<1> DEFINE n == Len(accessLogs)
           m == Len(anomalyLogIndices)
           indices == Slice(anomalyLogIndices, PageSlice(m, p, pageSize))
<1>1. m \in Nat /\ Positions(flagged) /\ Positions(1 .. m)
  <2>1. n \in Nat /\ DOMAIN accessLogs = 1 .. n /\ m \in Nat
    BY DEF TypeOK
  <2>2. flagged \subseteq 1 .. n
    BY <2>1
  <2> QED
    BY <2>1, <2>2 DEF Positions
<1>2. getAnomalyLogs(p, pageSize) = [k \in DOMAIN indices |-> accessLogs[indices[k] + 1]]
  BY DEF getAnomalyLogs
<1>3. /\ Cardinality(flagged) = m
      /\ \A r \in 1 .. m : /\ anomalyLogIndices[r] + 1 \in flagged
                           /\ Rank(flagged, anomalyLogIndices[r] + 1) = r
  BY FlaggedRanks
<1> HIDE DEF n, m
<1>4. IsPage(indices, anomalyLogIndices, 1 .. m, p, pageSize)
  BY <1>1, PageOfInterval, PageAt
<1>5. Cardinality(1 .. m) = m
  BY <1>1, FS_Interval
<1> HIDE DEF indices
<1>6. ASSUME NEW k \in 1 .. pageSize, NEW i \in flagged, Rank(flagged, i) = p * pageSize + k
      PROVE  getAnomalyLogs(p, pageSize)[k] = accessLogs[i]
  <2> DEFINE r == p * pageSize + k
  <2>1. r \in Nat /\ r >= 1
    OBVIOUS
  <2>2. r <= m
    BY <1>1, <1>3, <1>6, RankType
  <2> HIDE DEF r
  <2>3. r \in 1 .. m
    BY <1>1, <2>1, <2>2
  <2>4. anomalyLogIndices[r] + 1 = i
    <3>1. Rank(flagged, i) = Rank(flagged, anomalyLogIndices[r] + 1)
      BY <1>3, <1>6, <2>3 DEF r
    <3> QED
      BY <1>1, <1>3, <2>3, <3>1, RankUnique
  <2>5. k \in DOMAIN indices /\ indices[k] = anomalyLogIndices[r]
    BY <1>1, <1>4, <2>2, <2>3, RankInterval DEF IsPage, r
  <2> QED
    BY <1>2, <2>4, <2>5
<1> QED
  BY <1>2, <1>3, <1>4, <1>5, <1>6 DEF IsPage

\* Reading the three paginated views page by page shows every matching entry
\* once, in order, and nothing else, for every page size and any length of the
\* log.
THEOREM PagesComplete == Spec => []PagesCoverLogs
<1>1. TypeOK /\ AnomalyIndexExact => PagesCoverLogs
  <2> SUFFICES ASSUME TypeOK, AnomalyIndexExact,
                      NEW pageSize \in 1 .. MaxPageSize, NEW p \in 0 .. Len(accessLogs)
               PROVE  LET isPage(page, shown) == IsPage(page, accessLogs, shown, p, pageSize) IN
                      /\ isPage(getAllAccessLogs(p, pageSize), DOMAIN accessLogs)
                      /\ isPage(getAnomalyLogs(p, pageSize),
                                {i \in DOMAIN accessLogs : accessLogs[i].anomalyFlag})
                      /\ \A f \in FileIds :
                           isPage(getAccessLogs(f, p, pageSize),
                                  {i \in DOMAIN accessLogs : accessLogs[i].fileId = f})
    BY DEF PagesCoverLogs
  <2>1. p \in Nat /\ pageSize \in Nat \ {0}
    BY ContractAssumption DEF TypeOK
  <2> QED
    BY <2>1, AllPage, AnomalyPage, FilePage
<1> QED
  BY <1>1, TypeCorrect, IndexExact, PTL
=============================================================================
