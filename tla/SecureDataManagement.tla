------------------------ MODULE SecureDataManagement ------------------------
(***************************************************************************)
(* The on-chain registry of blockchain/contracts/SecureDataManagement.sol: *)
(* file records, their chunk lists, per-file permissions, the access log   *)
(* with its anomaly index, and the events the transactions emit.           *)
(*                                                                         *)
(* A transaction is one action, since the EVM runs a transaction to its    *)
(* end or reverts it; a reverted transaction changes nothing and is the    *)
(* stuttering step.  Hashes, names, sizes, IP addresses and timestamps are *)
(* left out: no property tells them apart.  The four chunk arrays of a     *)
(* registration are one sequence, which is what the length check at        *)
(* lines 135-140 makes of them.                                            *)
(***************************************************************************)
EXTENDS Integers, Sequences, FiniteSets

CONSTANTS
  FileIds,       \* file identifiers, the empty string among them
  EmptyId,       \* the empty string
  Addresses,     \* account addresses, the zero address among them
  ZeroAddress,   \* address(0), the owner of a record never written
  Chunks,        \* chunk descriptors
  ChunkLists,    \* the chunk lists a registration may carry
  MaxPageSize,   \* the largest page a caller may ask for (200 in the code)
  MaxAclTx,      \* bound: transactions on records and permissions
  MaxLogs        \* bound: entries of the access log

ASSUME ContractAssumption ==
  /\ EmptyId \in FileIds
  /\ ZeroAddress \in Addresses
  /\ ChunkLists \subseteq Seq(Chunks)
  /\ MaxPageSize \in Nat \ {0}
  /\ MaxAclTx \in Nat
  /\ MaxLogs \in Nat

VARIABLES
  files,              \* mapping fileId => record
  fileChunks,         \* mapping fileId => ChunkInfo[]
  permissions,        \* mapping fileId => address => Permission
  accessLogs,         \* AccessLog[]
  anomalyLogIndices,  \* uint256[], zero-based positions in accessLogs
  events              \* the event log of the contract

vars == <<files, fileChunks, permissions, accessLogs, anomalyLogIndices, events>>
registryVars == <<files, fileChunks, permissions>>
logVars == <<accessLogs, anomalyLogIndices>>

\* enum Permission, compared as uint8
NONE == 0
READ == 1
WRITE == 2
FULL == 3
Permission == NONE .. FULL

Senders == Addresses \ {ZeroAddress}

FileRecord == [owner : Addresses, isActive : BOOLEAN]
AccessLog == [user : Senders, fileId : FileIds, anomalyFlag : BOOLEAN]
Event ==
  [name : {"FileRegistered"}, fileId : FileIds, owner : Senders]
    \cup
  [name : {"AccessGranted"}, fileId : FileIds, user : Senders, permission : Permission]
    \cup
  [name : {"AccessRevoked"}, fileId : FileIds, user : Addresses]

Blank == [owner |-> ZeroAddress, isActive |-> FALSE]

Init ==
  /\ files = [f \in FileIds |-> Blank]
  /\ fileChunks = [f \in FileIds |-> <<>>]
  /\ permissions = [f \in FileIds |-> [a \in Addresses |-> NONE]]
  /\ accessLogs = <<>>
  /\ anomalyLogIndices = <<>>
  /\ events = <<>>

-----------------------------------------------------------------------------
(* Transactions.                                                           *)

onlyOwner(sender, f) == files[f].owner = sender
fileExists(f) == files[f].isActive

unregistered(f) == ~files[f].isActive

ownerPermission_Forgotten(f, sender) == permissions
ownerPermission(f, sender) == [permissions EXCEPT ![f][sender] = FULL]

registerFile(sender, f, chunks) ==
  /\ Len(events) < MaxAclTx
  /\ f # EmptyId
  /\ unregistered(f)
  /\ files' = [files EXCEPT ![f] = [owner |-> sender, isActive |-> TRUE]]
  /\ fileChunks' = [fileChunks EXCEPT ![f] = @ \o chunks]
  /\ permissions' = ownerPermission(f, sender)
  /\ events' = Append(events,
       [name |-> "FileRegistered", fileId |-> f, owner |-> sender])
  /\ UNCHANGED logVars

grantable_AnyAddress(user) == TRUE
grantable(user) == user # ZeroAddress

grantAccess(sender, f, user, permission) ==
  /\ Len(events) < MaxAclTx
  /\ onlyOwner(sender, f)
  /\ fileExists(f)
  /\ grantable(user)
  /\ permissions' = [permissions EXCEPT ![f][user] = permission]
  /\ events' = Append(events,
       [name |-> "AccessGranted", fileId |-> f, user |-> user, permission |-> permission])
  /\ UNCHANGED <<files, fileChunks, logVars>>

revokeAccess(sender, f, user) ==
  /\ Len(events) < MaxAclTx
  /\ onlyOwner(sender, f)
  /\ fileExists(f)
  /\ user # files[f].owner
  /\ permissions' = [permissions EXCEPT ![f][user] = NONE]
  /\ events' = Append(events,
       [name |-> "AccessRevoked", fileId |-> f, user |-> user])
  /\ UNCHANGED <<files, fileChunks, logVars>>

logIndex_AfterPush == Len(accessLogs) + 1
logIndex_LastEntry == Len(accessLogs) - 1
logIndex == Len(accessLogs)

\* AccessLogged and AnomalyDetected repeat what the two arrays hold and are
\* not kept in events.
logAccess(sender, f, anomalyFlag) ==
  /\ Len(accessLogs) < MaxLogs
  /\ anomalyLogIndices' = IF anomalyFlag THEN Append(anomalyLogIndices, logIndex)
                                          ELSE anomalyLogIndices
  /\ accessLogs' = Append(accessLogs,
       [user |-> sender, fileId |-> f, anomalyFlag |-> anomalyFlag])
  /\ UNCHANGED <<registryVars, events>>

Next ==
  \E sender \in Senders, f \in FileIds :
    \/ \E chunks \in ChunkLists : registerFile(sender, f, chunks)
    \/ \E user \in Addresses, permission \in Permission :
         grantAccess(sender, f, user, permission)
    \/ \E user \in Addresses : revokeAccess(sender, f, user)
    \/ \E anomalyFlag \in BOOLEAN : logAccess(sender, f, anomalyFlag)

Spec == Init /\ [][Next]_vars

-----------------------------------------------------------------------------
(* View functions.                                                         *)

checkPermission(f, user, required) ==
  \/ files[f].owner = user
  \/ permissions[f][user] >= required

\* The slice every paginated view returns: entries start+1 .. end of total.
PageSlice_FixedStride(total, page, pageSize) ==
  LET start == page * MaxPageSize
      end == IF start + pageSize > total THEN total ELSE start + pageSize
  IN IF start >= total THEN 1 .. 0 ELSE (start + 1) .. end
PageSlice(total, page, pageSize) ==
  LET start == page * pageSize
      end == IF start + pageSize > total THEN total ELSE start + pageSize
  IN IF start >= total THEN 1 .. 0 ELSE (start + 1) .. end

\* The how many-th i is among the positions in places.
Rank(places, i) == Cardinality({j \in places : j <= i})

Slice(s, from) ==
  [i \in 1 .. Cardinality(from) |-> s[CHOOSE j \in from : Rank(from, j) = i]]

getAllAccessLogs(page, pageSize) ==
  Slice(accessLogs, PageSlice(Len(accessLogs), page, pageSize))

getAnomalyLogs(page, pageSize) ==
  LET indices == Slice(anomalyLogIndices,
                       PageSlice(Len(anomalyLogIndices), page, pageSize))
  IN [i \in DOMAIN indices |-> accessLogs[indices[i] + 1]]

\* Two passes: count the matches, then copy the matches number start .. end-1.
getAccessLogs(f, page, pageSize) ==
  LET matches == {i \in DOMAIN accessLogs : accessLogs[i].fileId = f}
      count(i) == Cardinality({j \in matches : j < i})
      wanted == PageSlice(Cardinality(matches), page, pageSize)
  IN Slice(accessLogs, {i \in matches : count(i) + 1 \in wanted})

-----------------------------------------------------------------------------
(* Properties.                                                             *)

TypeOK ==
  /\ files \in [FileIds -> FileRecord]
  /\ fileChunks \in [FileIds -> Seq(Chunks)]
  /\ permissions \in [FileIds -> [Addresses -> Permission]]
  /\ accessLogs \in Seq(AccessLog)
  /\ anomalyLogIndices \in Seq(Nat)
  /\ events \in Seq(Event)

\* What the last event about f and user leaves the user with.
EffectOn(e, user) ==
  CASE e.name = "FileRegistered" -> FULL
    [] e.name = "AccessGranted"  -> e.permission
    [] e.name = "AccessRevoked"  -> NONE

Concerns(e, f, user) ==
  /\ e.fileId = f
  /\ IF e.name = "FileRegistered" THEN e.owner = user ELSE e.user = user

\* An indexer that only reads the events knows every permission: the stored
\* permission of a user is the effect of the last event about the user and
\* the file, and NONE when there is none.
EventsExplainPermissions ==
  \A f \in FileIds, user \in Addresses :
    LET about == {i \in DOMAIN events : Concerns(events[i], f, user)}
    IN IF about = {}
       THEN permissions[f][user] = NONE
       ELSE \E i \in about :
              /\ \A j \in about : j <= i
              /\ permissions[f][user] = EffectOn(events[i], user)

IndicesInRange == \A k \in DOMAIN anomalyLogIndices :
  anomalyLogIndices[k] + 1 \in DOMAIN accessLogs
IndexedAreFlagged == \A k \in DOMAIN anomalyLogIndices :
  accessLogs[anomalyLogIndices[k] + 1].anomalyFlag
FlaggedAreIndexed == \A i \in DOMAIN accessLogs : accessLogs[i].anomalyFlag =>
  \E k \in DOMAIN anomalyLogIndices : anomalyLogIndices[k] = i - 1
IndicesIncrease == \A j, k \in DOMAIN anomalyLogIndices :
  j < k => anomalyLogIndices[j] < anomalyLogIndices[k]

\* The anomaly index lists exactly the flagged entries of the access log, in
\* the order they were logged and each once: getAnomalyLogs neither misses a
\* flagged access nor repeats one.
AnomalyIndexExact ==
  IndicesInRange /\ IndexedAreFlagged /\ FlaggedAreIndexed /\ IndicesIncrease

\* Once a file is registered its owner and its chunk list never change: no
\* later transaction, of any sender, takes a registered identifier over or
\* extends its chunk list.
RegisteredIsFinal ==
  [][\A f \in FileIds : files[f].isActive =>
       files'[f] = files[f] /\ fileChunks'[f] = fileChunks[f]]_vars

\* page is page number p of the entries of s at shown: its place k holds entry
\* number p * pageSize + k of them, and it has no place for more.
IsPage(page, s, shown, p, pageSize) ==
  /\ DOMAIN page \subseteq 1 .. pageSize
  /\ \A k \in 1 .. pageSize :
       /\ k \in DOMAIN page <=> p * pageSize + k <= Cardinality(shown)
       /\ \A i \in shown : Rank(shown, i) = p * pageSize + k => page[k] = s[i]

\* Reading the pages in order gives every matching entry once and in order, and
\* nothing else, for each of the three paginated views and every legal page size.
PagesCoverLogs ==
  \A pageSize \in 1 .. MaxPageSize, p \in 0 .. Len(accessLogs) :
    LET isPage(page, shown) == IsPage(page, accessLogs, shown, p, pageSize) IN
    /\ isPage(getAllAccessLogs(p, pageSize), DOMAIN accessLogs)
    /\ isPage(getAnomalyLogs(p, pageSize), {i \in DOMAIN accessLogs : accessLogs[i].anomalyFlag})
    /\ \A f \in FileIds :
         isPage(getAccessLogs(f, p, pageSize), {i \in DOMAIN accessLogs : accessLogs[i].fileId = f})
=============================================================================
