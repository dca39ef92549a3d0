----------------------------- MODULE GatewayFiles -----------------------------
(***************************************************************************)
(* The gateway's file routes, backend/gateway/routes_files.py, with what   *)
(* they drive: the storage service, the blockchain service and, through    *)
(* the module SecureDataManagement, the contract.                          *)
(*                                                                         *)
(* Each request is a chain of calls with a timeout.  When a call fails or  *)
(* times out the gateway goes on or answers, and the service it called     *)
(* goes on with the work: jobs at the storage service and transactions in  *)
(* the node's pool outlive the request that started them.  The blockchain  *)
(* service signs every transaction with its one account, Service, while    *)
(* permissions are checked for the user of the session.                    *)
(*                                                                         *)
(* Storage is the chunks present per file, each with the upload that put   *)
(* it; puts, removals and reads are steps of their own.  The form may name *)
(* the file id of an upload: two uploads may share one, and the chunks of  *)
(* the later replace those of the earlier.  A file above                   *)
(* LARGE_FILE_THRESHOLD, which equals CHUNK_SIZE, has at least two chunks  *)
(* and is registered by a reference to their number.                       *)
(***************************************************************************)
EXTENDS Integers, Sequences, FiniteSets

CONSTANTS
  Uploads, Downloads, Deletes,  \* requests of the three routes
  UserOf,         \* the session user of a request
  FileOf,         \* the file of a request; for an upload from the form, or uuid4
  NumChunksOf,    \* [Uploads -> chunks of the file]
  MaxChunks,      \* the chunks of MAX_UPLOAD_FILE_BYTES, the largest upload
  EmptyId, Addresses, ZeroAddress,
  Service,        \* the account behind PRIVATE_KEY
  MaxShares,      \* bound: grants and revocations that are requested
  MaxAclTx        \* bound: transactions that take effect (contract)

Requests == Uploads \cup Downloads \cup Deletes
FileIds == {FileOf[r] : r \in Requests} \cup {EmptyId}

\* A chunk descriptor of a registration: "ref:n" or the one chunk itself, 0.
Chunks == 0 .. MaxChunks
ChunkLists == {<<c>> : c \in Chunks}
MaxPageSize == 1
MaxLogs == 0

ASSUME GatewayAssumption ==
  /\ Uploads \cap Downloads = {} /\ Uploads \cap Deletes = {} /\ Downloads \cap Deletes = {}
  /\ ZeroAddress \in Addresses /\ Service \in Addresses \ {ZeroAddress}
  /\ \A r \in Requests : UserOf[r] \in Addresses \ {ZeroAddress}
  /\ \A r \in Requests : FileOf[r] # EmptyId
  /\ MaxChunks \in Nat \ {0}
  /\ NumChunksOf \in [Uploads -> 1 .. MaxChunks]
  /\ MaxShares \in Nat

VARIABLES
  files, fileChunks, permissions, accessLogs, anomalyLogIndices, events,  \* the contract
  mempool,   \* transactions the node has accepted, in nonce order
  stored,    \* [file -> chunks in the bucket]
  job,       \* [request -> its work at the storage service]
  todo,      \* [request -> numbers of the chunks the job has still to put or to remove]
  settled,   \* [delete -> uploads that had ended when it listed the chunks] (history)
  sent,      \* [upload -> its call of /register]
  pc,        \* where the handler is, or how it answered
  asked,     \* [download -> num_chunks]
  metadata,  \* [download -> whether GET /file has answered]
  served,    \* [download -> chunks read]
  checked,   \* [download, delete -> events there were when its permission was checked] (history)
  audited,   \* [request -> the audit entry it handed to blockchain_log]
  shares

chainVars == <<files, fileChunks, permissions, accessLogs, anomalyLogIndices, events>>
storageVars == <<stored, job, todo, settled>>
readVars == <<asked, metadata, served, checked>>
vars == <<chainVars, mempool, storageVars, sent, pc, readVars, audited, shares>>

Contract == INSTANCE SecureDataManagement

NoEntry == [action |-> "none", success |-> FALSE]
Entries == [action : {"upload", "upload_blocked", "download", "download_denied",
                      "download_blocked", "delete"},
            success : BOOLEAN]
Answers == {"200", "401", "403", "500", "503"}
Ended == Answers \cup {"lost"}

AllChunks(u) == 0 .. NumChunksOf[u] - 1

\* A chunk in the bucket: file_id/chunk_i, as the upload put it.
Pieces == [by : Uploads, index : 0 .. MaxChunks - 1]
Indices(pieces) == {c.index : c \in pieces}

Init ==
  /\ Contract!Init
  /\ mempool = <<>>
  /\ stored = [f \in FileIds |-> {}]
  /\ job = [r \in Uploads \cup Deletes |-> "none"]
  /\ todo = [r \in Uploads \cup Deletes |-> {}]
  /\ settled = [x \in Deletes |-> {}]
  /\ sent = [u \in Uploads |-> "none"]
  /\ pc = [r \in Requests |-> "idle"]
  /\ asked = [d \in Downloads |-> 0]
  /\ metadata = [d \in Downloads |-> "unread"]
  /\ served = [d \in Downloads |-> {}]
  /\ checked = [r \in Downloads \cup Deletes |-> 0]
  /\ audited = [r \in Requests |-> NoEntry]
  /\ shares = 0

Answer(r, code) == pc' = [pc EXCEPT ![r] = code]
Audit(r, action, success) ==
  audited' = [audited EXCEPT ![r] = [action |-> action, success |-> success]]

\* require_session fails.
Unauthorized(r) == Answer(r, "401") /\ UNCHANGED audited

\* The answers that follow an audit entry.
Replies == [succeeding |-> "200", refusing |-> "403", failing |-> "500"]

Reply(r) ==
  /\ pc[r] \in DOMAIN Replies
  /\ Answer(r, Replies[pc[r]])
  /\ UNCHANGED <<chainVars, mempool, storageVars, sent, readVars, audited, shares>>

-----------------------------------------------------------------------------
(* POST /files/upload                                                      *)

StartStore(u) ==
  /\ Answer(u, "storing")
  /\ job' = [job EXCEPT ![u] = "running"]
  /\ todo' = [todo EXCEPT ![u] = AllChunks(u)]
  /\ UNCHANGED audited

\* The scans either block the upload, or pass it; a scan that fails or times
\* out counts as passed.
Scan(u) ==
  /\ pc[u] = "idle"
  /\ \/ Unauthorized(u) /\ UNCHANGED <<job, todo>>
     \/ Answer(u, "refusing") /\ Audit(u, "upload_blocked", FALSE) /\ UNCHANGED <<job, todo>>
     \/ StartStore(u)
  /\ UNCHANGED <<chainVars, mempool, stored, settled, sent, readVars, shares>>

\* What the gateway does when the storage service answered.
storeAnswered_Unchecked(u) == Answer(u, "registering") /\ UNCHANGED audited
storeAnswered(u) ==
  \/ job[u] = "ok" /\ Answer(u, "registering") /\ UNCHANGED audited
  \/ job[u] = "failed" /\ Answer(u, "failing") /\ Audit(u, "upload", FALSE)

StoreAnswered(u) ==
  /\ pc[u] = "storing"
  /\ job[u] # "running"
  /\ storeAnswered(u)
  /\ UNCHANGED <<chainVars, mempool, storageVars, sent, readVars, shares>>

\* The handler's own except clause: the answer was lost or took too long.
CallLost(r) ==
  /\ pc[r] \in {"storing", "fetching", "deleting"}
  /\ Answer(r, "500")
  /\ UNCHANGED <<chainVars, mempool, storageVars, sent, readVars, audited, shares>>

CallRegister(u) ==
  /\ pc[u] = "registering"
  /\ sent[u] = "none"
  /\ sent' = [sent EXCEPT ![u] = "called"]
  /\ UNCHANGED <<chainVars, mempool, storageVars, pc, readVars, audited, shares>>

\* The entry of a stored upload, written after the try around the registration.
uploadEntry_InsideTry(u) ==
  IF sent[u] = "submitted" THEN Audit(u, "upload", TRUE) ELSE UNCHANGED audited
uploadEntry(u) == Audit(u, "upload", TRUE)

\* Whatever became of the registration, the upload has succeeded.
UploadEnds(u) ==
  /\ pc[u] = "registering"
  /\ sent[u] # "none"
  /\ Answer(u, "succeeding")
  /\ uploadEntry(u)
  /\ UNCHANGED <<chainVars, mempool, storageVars, sent, readVars, shares>>

-----------------------------------------------------------------------------
(* POST /files/download/<file_id>                                          *)

\* checkPermission looks at the chain as it is now.
Checks(r) == checked' = [checked EXCEPT ![r] = Len(events)]

CheckRead(d) ==
  /\ pc[d] = "idle"
  /\ \/ Unauthorized(d) /\ UNCHANGED checked
     \/ Answer(d, "503") /\ UNCHANGED <<checked, audited>>
     \/ /\ ~Contract!checkPermission(FileOf[d], UserOf[d], Contract!READ)
        /\ Answer(d, "refusing")
        /\ Audit(d, "download_denied", FALSE)
        /\ Checks(d)
     \/ /\ Contract!checkPermission(FileOf[d], UserOf[d], Contract!READ)
        /\ Answer(d, "reading")
        /\ Checks(d)
        /\ UNCHANGED audited
  /\ UNCHANGED <<chainVars, mempool, storageVars, sent, asked, metadata, served, shares>>

\* num_chunks from the chunk list on the chain.
chunkCount_IgnoreReference(f) == IF fileChunks[f] = <<>> THEN 1 ELSE Len(fileChunks[f])
chunkCount(f) ==
  IF Len(fileChunks[f]) = 1 /\ fileChunks[f][1] > 0 THEN fileChunks[f][1]
  ELSE IF fileChunks[f] = <<>> THEN 1 ELSE Len(fileChunks[f])

\* GET /file answers; or it answers with an error, and num_chunks keeps its
\* default; or it does not answer.
ReadMetadata(d) ==
  /\ pc[d] = "reading"
  /\ \/ /\ asked' = [asked EXCEPT ![d] = chunkCount(FileOf[d])]
        /\ metadata' = [metadata EXCEPT ![d] = "read"]
        /\ Answer(d, "serving")
     \/ /\ asked' = [asked EXCEPT ![d] = 1]
        /\ metadata' = [metadata EXCEPT ![d] = "failed"]
        /\ Answer(d, "serving")
     \/ Answer(d, "503") /\ UNCHANGED <<asked, metadata>>
  /\ UNCHANGED <<chainVars, mempool, storageVars, sent, served, checked, audited, shares>>

\* Behavioural detection blocks the download, or lets it pass.
Detect(d) ==
  /\ pc[d] = "serving"
  /\ \/ Answer(d, "refusing") /\ Audit(d, "download_blocked", FALSE)
     \/ Answer(d, "fetching") /\ UNCHANGED audited
  /\ UNCHANGED <<chainVars, mempool, storageVars, sent, readVars, shares>>

\* The storage service reads one of the chunks 0 .. num_chunks - 1.
Fetch(d) ==
  /\ pc[d] = "fetching"
  /\ \E c \in stored[FileOf[d]] :
       /\ c.index \in 0 .. asked[d] - 1
       /\ c.index \notin Indices(served[d])
       /\ served' = [served EXCEPT ![d] = @ \cup {c}]
  /\ UNCHANGED <<chainVars, mempool, storageVars, sent, pc, asked, metadata, checked, audited, shares>>

\* It has them all; or it failed on one.
FetchAnswered(d) ==
  /\ pc[d] = "fetching"
  /\ \/ /\ Indices(served[d]) = 0 .. asked[d] - 1
        /\ Answer(d, "succeeding")
        /\ Audit(d, "download", TRUE)
     \/ Answer(d, "failing") /\ Audit(d, "download", FALSE)
  /\ UNCHANGED <<chainVars, mempool, storageVars, sent, readVars, shares>>

-----------------------------------------------------------------------------
(* DELETE /files/<file_id>                                                 *)

requiredToDelete_Read == Contract!READ
requiredToDelete == Contract!FULL

CheckFull(x) ==
  /\ pc[x] = "idle"
  /\ \/ Unauthorized(x) /\ UNCHANGED <<job, checked>>
     \/ /\ Answer(x, "503")
        /\ UNCHANGED <<job, checked, audited>>
     \/ /\ ~Contract!checkPermission(FileOf[x], UserOf[x], requiredToDelete)
        /\ Answer(x, "403")
        /\ Checks(x)
        /\ UNCHANGED <<job, audited>>
     \/ /\ Contract!checkPermission(FileOf[x], UserOf[x], requiredToDelete)
        /\ Answer(x, "deleting")
        /\ Checks(x)
        /\ job' = [job EXCEPT ![x] = "called"]
        /\ UNCHANGED audited
  /\ UNCHANGED <<chainVars, mempool, stored, todo, settled, sent, asked, metadata, served, shares>>

deleteAnswered_Unchecked(x) == Answer(x, "succeeding") /\ Audit(x, "delete", TRUE)
deleteAnswered_EntryFirst(x) ==
  Audit(x, "delete", TRUE) /\ Answer(x, IF job[x] = "ok" THEN "succeeding" ELSE "500")
deleteAnswered(x) ==
  \/ job[x] = "ok" /\ Answer(x, "succeeding") /\ Audit(x, "delete", TRUE)
  \/ job[x] = "failed" /\ Answer(x, "500") /\ UNCHANGED audited

DeleteAnswered(x) ==
  /\ pc[x] = "deleting"
  /\ job[x] \notin {"called", "running"}
  /\ deleteAnswered(x)
  /\ UNCHANGED <<chainVars, mempool, storageVars, sent, readVars, shares>>

-----------------------------------------------------------------------------
(* The storage service at work.                                            *)

\* A deletion lists the chunks of the file.
DeleteBegins(x) ==
  /\ job[x] = "called"
  /\ job' = [job EXCEPT ![x] = "running"]
  /\ todo' = [todo EXCEPT ![x] = Indices(stored[FileOf[x]])]
  /\ settled' = [settled EXCEPT ![x] =
       {u \in Uploads : FileOf[u] = FileOf[x] /\ job[u] \in {"ok", "failed"}}]
  /\ UNCHANGED <<chainVars, mempool, stored, sent, pc, readVars, audited, shares>>

\* A put replaces the chunk of its number, a removal leaves none.
replaced(f, index, pieces) == {c \in stored[f] : c.index # index} \cup pieces

StorageStep(r, index) ==
  /\ job[r] = "running"
  /\ index \in todo[r]
  /\ stored' = [stored EXCEPT ![FileOf[r]] = replaced(FileOf[r], index,
                  IF r \in Uploads THEN {[by |-> r, index |-> index]} ELSE {})]
  /\ todo' = [todo EXCEPT ![r] = @ \ {index}]
  /\ UNCHANGED <<chainVars, mempool, job, settled, sent, pc, readVars, audited, shares>>

StorageEnds(r) ==
  /\ \/ /\ job[r] = "running" /\ todo[r] = {}
        /\ job' = [job EXCEPT ![r] = "ok"]
     \/ /\ job[r] \in {"called", "running"}
        /\ job' = [job EXCEPT ![r] = "failed"]
  /\ UNCHANGED <<chainVars, mempool, stored, todo, settled, sent, pc, readVars, audited, shares>>

-----------------------------------------------------------------------------
(* The blockchain service and the chain.                                   *)

\* The descriptor list the gateway registers.
descriptors_CountFromOne(u) == <<IF NumChunksOf[u] > 1 THEN NumChunksOf[u] + 1 ELSE 0>>
descriptors(u) == <<IF NumChunksOf[u] > 1 THEN NumChunksOf[u] ELSE 0>>

\* POST /register: send_transaction submits the transaction, or fails.
SubmitRegister(u) ==
  /\ sent[u] = "called"
  /\ \/ /\ sent' = [sent EXCEPT ![u] = "submitted"]
        /\ mempool' = Append(mempool,
             [op |-> "register", file |-> FileOf[u], chunks |-> descriptors(u)])
     \/ sent' = [sent EXCEPT ![u] = "failed"] /\ UNCHANGED mempool
  /\ UNCHANGED <<chainVars, storageVars, pc, readVars, audited, shares>>

\* POST /files/<file_id>/access/grant and revoke.
Share(f, user, permission) ==
  /\ shares < MaxShares
  /\ shares' = shares + 1
  /\ mempool' = Append(mempool,
       [op |-> "grant", file |-> f, user |-> user, permission |-> permission])
  /\ UNCHANGED <<chainVars, storageVars, sent, pc, readVars, audited>>

Unshare(f, user) ==
  /\ shares < MaxShares
  /\ shares' = shares + 1
  /\ mempool' = Append(mempool, [op |-> "revoke", file |-> f, user |-> user])
  /\ UNCHANGED <<chainVars, storageVars, sent, pc, readVars, audited>>

Execute(tx) ==
  CASE tx.op = "register" -> Contract!registerFile(Service, tx.file, tx.chunks)
    [] tx.op = "grant"    -> Contract!grantAccess(Service, tx.file, tx.user, tx.permission)
    [] tx.op = "revoke"   -> Contract!revokeAccess(Service, tx.file, tx.user)

\* The next transaction is executed, reverted or evicted.
Mine ==
  /\ mempool # <<>>
  /\ mempool' = Tail(mempool)
  /\ Execute(Head(mempool)) \/ UNCHANGED chainVars
  /\ UNCHANGED <<storageVars, sent, pc, readVars, audited, shares>>

\* The gateway restarts: its requests are lost, the calls they made are not.
GatewayCrash ==
  /\ \E r \in Requests : pc[r] \notin Ended \cup {"idle"}
  /\ pc' = [r \in Requests |-> IF pc[r] \in Ended \cup {"idle"} THEN pc[r] ELSE "lost"]
  /\ UNCHANGED <<chainVars, mempool, storageVars, sent, readVars, audited, shares>>

-----------------------------------------------------------------------------

UploadStep(u) ==
  Scan(u) \/ StoreAnswered(u) \/ CallRegister(u) \/ UploadEnds(u) \/ SubmitRegister(u)
DownloadStep(d) ==
  CheckRead(d) \/ ReadMetadata(d) \/ Detect(d) \/ Fetch(d) \/ FetchAnswered(d)
DeleteStep(x) == CheckFull(x) \/ DeleteBegins(x) \/ DeleteAnswered(x)

Next ==
  \/ \E u \in Uploads : UploadStep(u)
  \/ \E d \in Downloads : DownloadStep(d)
  \/ \E x \in Deletes : DeleteStep(x)
  \/ \E r \in Requests : Reply(r) \/ CallLost(r)
  \/ \E r \in Uploads \cup Deletes :
       StorageEnds(r) \/ \E index \in 0 .. MaxChunks - 1 : StorageStep(r, index)
  \/ \E f \in FileIds \ {EmptyId}, user \in Addresses \ {ZeroAddress} :
       Unshare(f, user) \/ \E p \in Contract!Permission : Share(f, user, p)
  \/ Mine
  \/ GatewayCrash

Spec == Init /\ [][Next]_vars

-----------------------------------------------------------------------------
(* Properties.                                                             *)

Transactions ==
  [op : {"register"}, file : FileIds, chunks : ChunkLists]
    \cup
  [op : {"grant"}, file : FileIds, user : Addresses, permission : Contract!Permission]
    \cup
  [op : {"revoke"}, file : FileIds, user : Addresses]

TypeOK ==
  /\ Contract!TypeOK
  /\ mempool \in Seq(Transactions)
  /\ stored \in [FileIds -> SUBSET Pieces]
  /\ job \in [Uploads \cup Deletes -> {"none", "called", "running", "ok", "failed"}]
  /\ todo \in [Uploads \cup Deletes -> SUBSET (0 .. MaxChunks - 1)]
  /\ settled \in [Deletes -> SUBSET Uploads]
  /\ sent \in [Uploads -> {"none", "called", "submitted", "failed"}]
  /\ pc \in [Requests -> {"idle", "storing", "registering", "reading", "serving", "fetching",
                           "deleting", "succeeding", "refusing", "failing"} \cup Ended]
  /\ asked \in [Downloads -> 0 .. MaxChunks]
  /\ metadata \in [Downloads -> {"unread", "read", "failed"}]
  /\ served \in [Downloads -> SUBSET Pieces]
  /\ checked \in [Downloads \cup Deletes -> 0 .. Len(events)]
  /\ audited \in [Requests -> Entries \cup {NoEntry}]
  /\ shares \in 0 .. MaxShares

DeletionBegun(f) == \E x \in Deletes : FileOf[x] = f /\ job[x] \notin {"none", "called"}

\* u is the only upload under its file id that was ever stored.
Alone(u) == \A v \in Uploads : FileOf[v] = FileOf[u] /\ job[v] # "none" => v = u
ChunksOf(u) == {[by |-> u, index |-> i] : i \in AllChunks(u)}

\* A file on the chain is there for an upload that the storage service stored
\* to the end, and counts its chunks: none of them is missing from the bucket
\* until a deletion begins, though another upload under the same id may have
\* replaced some; when none has, the bucket holds this upload and nothing else.
\* No upload that failed, was lost or is still being stored gets on the chain.
RegisteredIsStored ==
  \A f \in FileIds : files[f].isActive /\ ~DeletionBegun(f) =>
    \E u \in Uploads :
      /\ FileOf[u] = f /\ job[u] = "ok" /\ chunkCount(f) = NumChunksOf[u]
      /\ AllChunks(u) \subseteq Indices(stored[f])
      /\ Alone(u) => stored[f] = ChunksOf(u)

\* Once a delete was answered with success nothing is left of the uploads that
\* had ended when it listed the chunks, and nothing of them comes back.  What
\* a later or an unfinished upload under the same id puts is not deleted.
DeletedStaysGone ==
  \A x \in Deletes : pc[x] = "200" =>
    \A c \in stored[FileOf[x]] : c.by \notin settled[x]

\* A successful download that could read the metadata returns as many chunks
\* as the registered upload has, by whichever form of registration, even when
\* a deletion removes chunks meanwhile; one that could not returns the first
\* chunk alone.  They are the chunks of that upload, unless another one was
\* stored under the same id.
DownloadIsWholeOrFirst ==
  \A d \in Downloads : pc[d] = "200" =>
    \E u \in Uploads :
      /\ FileOf[u] = FileOf[d] /\ sent[u] = "submitted"
      /\ Indices(served[d]) = IF metadata[d] = "read" THEN AllChunks(u) ELSE {0}
      /\ \A c \in served[d] : FileOf[c.by] = FileOf[d] /\ (Alone(u) => c.by = u)

\* Among the first n events the last about f and user grants the permission.
Granted(f, user, required, n) ==
  \E i \in 1 .. n :
    /\ events[i].name = "AccessGranted" /\ Contract!Concerns(events[i], f, user)
    /\ events[i].permission >= required
    /\ \A j \in i + 1 .. n : ~Contract!Concerns(events[j], f, user)

\* Who reads or deletes a file is the service's own account or held the
\* permission on the chain when it was checked, granted and neither revoked nor
\* lowered since; the uploader included.  A revocation that is mined between
\* the check and the answer comes too late for this request.
OnlyGranteesAreServed ==
  \A r \in Downloads \cup Deletes :
    (pc[r] = "200" /\ UserOf[r] # Service) =>
      Granted(FileOf[r], UserOf[r],
              IF r \in Deletes THEN Contract!FULL ELSE Contract!READ, checked[r])

WorkDone(r) ==
  IF r \in Downloads THEN Indices(served[r]) = 0 .. asked[r] - 1 ELSE job[r] = "ok"

\* The audit log agrees with what the clients were told: an answer of success
\* has left an entry that says so, and an entry of success is only left by a
\* request whose work at the storage service is done, which is answered with
\* success unless the gateway restarts between the entry and the answer.
AuditAgreesWithAnswer ==
  \A r \in Requests :
    /\ pc[r] = "200" => audited[r].success
    /\ audited[r].success => pc[r] \in {"succeeding", "200", "lost"} /\ WorkDone(r)

-----------------------------------------------------------------------------
(* What the user interface says, and the code does not do.                 *)

\* "Download complete!" (frontend/app/files/_hooks/useFiles.ts:134): a
\* download that is answered with success has returned every chunk of an upload.
DownloadIsComplete ==
  \A d \in Downloads : pc[d] = "200" =>
    \E u \in Uploads : FileOf[u] = FileOf[d] /\ Indices(served[d]) = AllChunks(u)
=============================================================================
