--------------------------- MODULE GatewayFilesProofs ---------------------------
(***************************************************************************)
(* That what the gateway shows on the chain, serves, deletes and enters    *)
(* into the audit log agrees with the storage, the permissions and its     *)
(* answers, for any number of requests, files, users, shared permissions,  *)
(* uploads under one file id, lost calls and restarts.  The contract is    *)
(* that of SecureDataManagement, driven through the pool of pending        *)
(* transactions.                                                           *)
(***************************************************************************)
EXTENDS GatewayFiles, TLAPS

Work == Uploads \cup Deletes
Checking == Downloads \cup Deletes
Numbers == 0 .. MaxChunks - 1

PCs == {"idle", "storing", "registering", "reading", "serving", "fetching",
        "deleting", "succeeding", "refusing", "failing"} \cup Ended
Jobs == {"none", "called", "running", "ok", "failed"}
Actions == {"upload", "upload_blocked", "download", "download_denied",
            "download_blocked", "delete"}

\* Where a download or a delete is once its permission was checked, where a
\* download is once it knows how many chunks to ask for, and where a request is
\* once its entry of success is written.
Passed == {"reading", "serving", "fetching", "deleting", "succeeding", "200"}
Counted == {"serving", "fetching", "succeeding", "200"}
Successes == {"succeeding", "200", "lost"}

Required(r) == IF r \in Deletes THEN Contract!FULL ELSE Contract!READ

-----------------------------------------------------------------------------
(* Transactions in the pool.                                               *)

Registration(u) == [op |-> "register", file |-> FileOf[u], chunks |-> descriptors(u)]
Grants == [op : {"grant"}, file : FileIds, user : Addresses \ {ZeroAddress},
           permission : Contract!Permission]
Revocations == [op : {"revoke"}, file : FileIds, user : Addresses \ {ZeroAddress}]
Txs == {Registration(u) : u \in Uploads} \cup Grants \cup Revocations

-----------------------------------------------------------------------------
(* The inductive invariant.                                                *)

ChainType ==
  /\ files \in [FileIds -> Contract!FileRecord]
  /\ fileChunks = [f \in FileIds |-> fileChunks[f]]
  /\ permissions \in [FileIds -> [Addresses -> Contract!Permission]]
  /\ events \in Seq(Contract!Event)

WorkType ==
  /\ stored \in [FileIds -> SUBSET Pieces]
  /\ job \in [Work -> Jobs]
  /\ todo \in [Work -> SUBSET Numbers]
  /\ settled \in [Deletes -> SUBSET Uploads]

HandlerType ==
  /\ sent \in [Uploads -> {"none", "called", "submitted", "failed"}]
  /\ pc \in [Requests -> PCs]
  /\ asked = [d \in Downloads |-> asked[d]]
  /\ metadata \in [Downloads -> {"unread", "read", "failed"}]
  /\ served \in [Downloads -> SUBSET Pieces]
  /\ checked \in [Checking -> Nat]
  /\ audited \in [Requests -> Entries \cup {NoEntry}]

\* A registration in the pool was submitted for an upload.
PoolInv ==
  /\ mempool \in Seq(Txs)
  /\ \A i \in DOMAIN mempool : mempool[i].op = "register" =>
       \E u \in Uploads : mempool[i] = Registration(u) /\ sent[u] = "submitted"

\* What is registered was submitted by an upload, in the name of the service.
ActiveInv == \A f \in FileIds : files[f].isActive =>
  \E u \in Uploads : /\ FileOf[u] = f /\ sent[u] = "submitted"
                     /\ fileChunks[f] = descriptors(u) /\ files[f].owner = Service

\* What is not has neither owner, chunks nor permissions.
BlankInv == \A f \in FileIds : ~ files[f].isActive =>
  /\ files[f].owner = ZeroAddress /\ fileChunks[f] = <<>>
  /\ \A a \in Addresses : permissions[f][a] = 0

\* The events explain every permission but the service's own.
GrantedInv == \A f \in FileIds, a \in Addresses \ {Service} :
  permissions[f][a] > 0 => Granted(f, a, permissions[f][a], Len(events))

\* An upload is registered after its chunks were put.
OrderInv ==
  /\ \A r \in Work : pc[r] = "idle" => job[r] = "none"
  /\ \A u \in Uploads : pc[u] = "registering" \/ sent[u] # "none" => job[u] = "ok"

\* The work at the storage service: what is in the bucket was put by an upload
\* of the file; of what an upload has put each number is still there, as long as
\* nothing is deleted, though the chunk may be another upload's; and of the
\* uploads that had ended when a deletion listed the chunks, which put nothing
\* any more, nothing is there but what the deletion has still to remove.
PartsInv ==
  /\ \A u \in Uploads : todo[u] \subseteq AllChunks(u)
  /\ \A f \in FileIds : \A c \in stored[f] :
       FileOf[c.by] = f /\ job[c.by] # "none" /\ c.index \in AllChunks(c.by)
FinishedInv == \A r \in Work : job[r] = "ok" => todo[r] = {}
UploadInv == \A u \in Uploads : job[u] # "none" /\ ~DeletionBegun(FileOf[u]) =>
  AllChunks(u) \ todo[u] \subseteq Indices(stored[FileOf[u]])
DeleteInv == \A x \in Deletes :
  /\ \A u \in settled[x] : job[u] \in {"ok", "failed"}
  /\ job[x] \in {"running", "ok"} =>
       \A c \in stored[FileOf[x]] : c.by \in settled[x] => c.index \in todo[x]

\* A download goes on for a registered file only, asks for its chunks, and reads
\* chunks of its uploads.
ReadInv == \A d \in Downloads :
  /\ pc[d] = "reading" => files[FileOf[d]].isActive
  /\ pc[d] \in Counted => metadata[d] # "unread"
  /\ metadata[d] # "unread" =>
       \E u \in Uploads : /\ FileOf[u] = FileOf[d] /\ sent[u] = "submitted"
                          /\ asked[d] = IF metadata[d] = "read" THEN NumChunksOf[u] ELSE 1
  /\ \A c \in served[d] : FileOf[c.by] = FileOf[d] /\ job[c.by] # "none"

\* Who got past the check of permission had it then.
AllowedInv == \A r \in Checking :
  /\ checked[r] <= Len(events)
  /\ pc[r] \in Passed /\ UserOf[r] # Service =>
       Granted(FileOf[r], UserOf[r], Required(r), checked[r])

\* An entry of success and the work it stands for.
AuditInv == \A r \in Requests :
  /\ pc[r] \in {"succeeding", "200"} => audited[r].success
  /\ audited[r].success => pc[r] \in Successes /\ WorkDone(r)

StorageInv == OrderInv /\ PartsInv /\ FinishedInv /\ UploadInv /\ DeleteInv

IInv ==
  /\ ChainType /\ WorkType /\ HandlerType
  /\ PoolInv /\ ActiveInv /\ BlankInv /\ GrantedInv
  /\ StorageInv /\ ReadInv /\ AllowedInv /\ AuditInv

-----------------------------------------------------------------------------

LEMMA Constants ==
  /\ \A u \in Uploads : /\ u \notin Downloads /\ u \notin Deletes
                        /\ u \in Requests /\ u \in Work /\ u \notin Checking
  /\ \A d \in Downloads : /\ d \notin Uploads /\ d \notin Deletes
                          /\ d \in Requests /\ d \notin Work /\ d \in Checking
  /\ \A x \in Deletes : /\ x \notin Uploads /\ x \notin Downloads
                        /\ x \in Requests /\ x \in Work /\ x \in Checking
  /\ \A r \in Requests : FileOf[r] \in FileIds /\ UserOf[r] \in Addresses \ {ZeroAddress}
  /\ Service \in Addresses \ {ZeroAddress}
  BY GatewayAssumption DEF Requests, Work, Checking, FileIds

LEMMA Counts ==
  ASSUME NEW u \in Uploads
  PROVE  /\ NumChunksOf[u] \in 1 .. MaxChunks /\ AllChunks(u) \subseteq Numbers
         /\ descriptors(u) \in ChunkLists /\ descriptors(u) \in Seq(Chunks)
<1>1. NumChunksOf[u] \in 1 .. MaxChunks /\ MaxChunks \in Nat
  BY GatewayAssumption
<1>2. AllChunks(u) \subseteq Numbers
  BY <1>1 DEF AllChunks, Numbers
<1>3. PICK c \in Chunks : descriptors(u) = <<c>>
  BY <1>1 DEF descriptors, Chunks
<1> QED
  BY <1>1, <1>2, <1>3 DEF ChunkLists

LEMMA InitInv == ASSUME Init PROVE IInv
<1>1. ChainType
  BY GatewayAssumption
     DEF Init, Contract!Init, ChainType, Contract!FileRecord, Contract!Blank, Contract!NONE,
         Contract!Permission, Contract!FULL
<1>2. WorkType /\ HandlerType
  BY DEF Init, WorkType, HandlerType, Work, PCs, Jobs, Checking
<1>3. PoolInv /\ ActiveInv /\ BlankInv /\ GrantedInv
  BY DEF Init, Contract!Init, PoolInv, ActiveInv, BlankInv, GrantedInv, Contract!Blank, Contract!NONE
<1>4. OrderInv /\ FinishedInv /\ UploadInv /\ DeleteInv
  BY Constants DEF Init, OrderInv, FinishedInv, UploadInv, DeleteInv, Work
<1>5. PartsInv
  BY Constants DEF Init, PartsInv
<1>6. ReadInv
  BY Constants DEF Init, ReadInv, Counted
<1>7. AllowedInv
  <2>1. events = <<>>
    BY DEF Init, Contract!Init
  <2>2. \A r \in Checking : checked[r] = 0 /\ pc[r] = "idle"
    BY Constants DEF Init, Checking
  <2> QED
    BY <2>1, <2>2 DEF AllowedInv, Passed
<1>8. AuditInv
  BY DEF Init, AuditInv, NoEntry
<1> QED
  BY <1>1, <1>2, <1>3, <1>4, <1>5, <1>6, <1>7, <1>8 DEF IInv, StorageInv

-----------------------------------------------------------------------------
(* Parts of the invariant a step does not touch.                           *)

\* The chain and the pool stay, and what was submitted stays submitted.
LEMMA ChainFrame ==
  ASSUME IInv, UNCHANGED <<chainVars, mempool>>,
         \A u \in Uploads : sent[u] = "submitted" => sent'[u] = "submitted"
  PROVE  ChainType' /\ PoolInv' /\ ActiveInv' /\ BlankInv' /\ GrantedInv'
<1>1. UNCHANGED <<files, fileChunks, permissions, events>>
  BY DEF chainVars
<1>2. ChainType' /\ BlankInv' /\ GrantedInv'
  BY <1>1 DEF IInv, ChainType, BlankInv, GrantedInv, Granted
<1>3. PoolInv'
  BY DEF IInv, PoolInv
<1>4. ActiveInv'
  BY <1>1 DEF IInv, ActiveInv
<1> QED
  BY <1>2, <1>3, <1>4

\* The storage stays, but for deletions it is called for, and a handler moves in
\* step with it.
LEMMA StorageFrame ==
  ASSUME IInv, UNCHANGED <<stored, todo, settled>>, job' \in [Work -> Jobs],
         \A u \in Uploads : job'[u] = job[u],
         \A x \in Deletes : job'[x] = job[x] \/ (job[x] = "none" /\ job'[x] = "called"),
         \A r \in Work : pc'[r] = "idle" => pc[r] = "idle" /\ job'[r] = job[r],
         \A u \in Uploads : pc'[u] = "registering" \/ sent'[u] # "none" => job[u] = "ok"
  PROVE  WorkType' /\ StorageInv'
<1>1. WorkType'
  BY DEF IInv, WorkType
<1>2. OrderInv'
  BY Constants DEF IInv, StorageInv, OrderInv
<1>3. PartsInv'
  <2>1. \A f \in FileIds : \A c \in stored[f] : c.by \in Uploads
    BY DEF IInv, WorkType, Pieces
  <2> QED
    BY <2>1 DEF IInv, StorageInv, PartsInv
<1>4. FinishedInv'
  BY DEF IInv, StorageInv, FinishedInv, Work
<1>5. UploadInv'
  BY DEF IInv, StorageInv, UploadInv, DeletionBegun
<1>6. DeleteInv'
  <2>1. \A x \in Deletes : \A u \in settled[x] : u \in Uploads
    BY DEF IInv, WorkType
  <2> QED
    BY <2>1 DEF IInv, StorageInv, DeleteInv
<1> QED
  BY <1>1, <1>2, <1>3, <1>4, <1>5, <1>6 DEF StorageInv

\* No download starts or reads, and none gets to know the number of chunks.
LEMMA ReadFrame ==
  ASSUME IInv, UNCHANGED <<asked, metadata, served>>,
         \A f \in FileIds : files[f].isActive => files'[f].isActive,
         \A u \in Uploads : /\ sent[u] = "submitted" => sent'[u] = "submitted"
                            /\ job[u] # "none" => job'[u] # "none",
         \A d \in Downloads : \/ pc'[d] = pc[d]
                              \/ pc'[d] \notin Counted \cup {"reading"}
                              \/ pc[d] \in Counted /\ pc'[d] \in Counted
  PROVE  ReadInv'
<1> SUFFICES ASSUME NEW d \in Downloads
             PROVE  /\ pc'[d] = "reading" => files'[FileOf[d]].isActive
                    /\ pc'[d] \in Counted => metadata[d] # "unread"
                    /\ metadata[d] # "unread" =>
                         \E u \in Uploads :
                           /\ FileOf[u] = FileOf[d] /\ sent'[u] = "submitted"
                           /\ asked[d] = IF metadata[d] = "read" THEN NumChunksOf[u] ELSE 1
                    /\ \A c \in served[d] : FileOf[c.by] = FileOf[d] /\ job'[c.by] # "none"
  BY DEF ReadInv
<1>1. pc'[d] = "reading" => files'[FileOf[d]].isActive
  BY Constants DEF IInv, ReadInv, Counted
<1>2. pc'[d] \in Counted => metadata[d] # "unread"
  BY DEF IInv, ReadInv
<1>3. metadata[d] # "unread" =>
        \E u \in Uploads : /\ FileOf[u] = FileOf[d] /\ sent'[u] = "submitted"
                           /\ asked[d] = IF metadata[d] = "read" THEN NumChunksOf[u] ELSE 1
  BY DEF IInv, ReadInv
<1>4. \A c \in served[d] : FileOf[c.by] = FileOf[d] /\ job'[c.by] # "none"
  <2>1. \A c \in served[d] : c.by \in Uploads
    BY DEF IInv, HandlerType, Pieces
  <2> QED
    BY <2>1 DEF IInv, ReadInv
<1> QED
  BY <1>1, <1>2, <1>3, <1>4

\* What the first n events say does not change when more come.
LEMMA GrantedStays ==
  ASSUME events \in Seq(Contract!Event),
         UNCHANGED events \/ \E e : events' = Append(events, e),
         NEW f, NEW user, NEW required, NEW n \in Nat, n <= Len(events),
         Granted(f, user, required, n)
  PROVE  Granted(f, user, required, n)'
<1>1. \A i \in 1 .. n : events'[i] = events[i]
  OBVIOUS
<1>2. \A i \in 1 .. n : i + 1 .. n \subseteq 1 .. n
  OBVIOUS
<1> QED
  BY <1>1, <1>2 DEF Granted, Contract!Concerns

LEMMA AllowedFrame ==
  ASSUME IInv, UNCHANGED checked, UNCHANGED events \/ \E e : events' = Append(events, e),
         \A r \in Checking : pc'[r] \in Passed => pc[r] \in Passed
  PROVE  AllowedInv'
<1>1. events \in Seq(Contract!Event) /\ Len(events) \in Nat
  BY DEF IInv, ChainType
<1>2. Len(events') >= Len(events) /\ Len(events') \in Nat
  BY <1>1
<1> SUFFICES ASSUME NEW r \in Checking
             PROVE  /\ checked[r] <= Len(events')
                    /\ pc'[r] \in Passed /\ UserOf[r] # Service =>
                         Granted(FileOf[r], UserOf[r], Required(r), checked[r])'
  BY DEF AllowedInv, Required
<1>3. checked[r] \in Nat /\ checked[r] <= Len(events)
  BY DEF IInv, HandlerType, AllowedInv
<1>4. ASSUME pc'[r] \in Passed, UserOf[r] # Service
      PROVE  Granted(FileOf[r], UserOf[r], Required(r), checked[r])'
  <2>1. Granted(FileOf[r], UserOf[r], Required(r), checked[r])
    BY <1>4 DEF IInv, AllowedInv
  <2> DEFINE n == checked[r]
             required == Required(r)
  <2>2. \A i \in 1 .. n : events'[i] = events[i]
    BY <1>1, <1>3
  <2>3. checked'[r] = checked[r]
    OBVIOUS
  <2>4. \A i \in 1 .. n : i + 1 .. n \subseteq 1 .. n
    BY <1>3
  <2> QED
    BY <2>1, <2>2, <2>3, <2>4 DEF Granted, Contract!Concerns, Required
<1> QED
  BY <1>1, <1>2, <1>3, <1>4

\* No entry is written, nobody gets to a success but by way of one, and work
\* that is done stays done.
LEMMA AuditFrame ==
  ASSUME IInv, UNCHANGED audited,
         \A r \in Requests : \/ pc'[r] = pc[r]
                             \/ pc[r] \notin Successes /\ pc'[r] \notin {"succeeding", "200"}
                             \/ pc[r] = "succeeding" /\ pc'[r] \in {"200", "lost"},
         \A r \in Work : job[r] = "ok" => job'[r] = "ok",
         \A d \in Downloads : UNCHANGED <<asked[d], served[d]>> \/ pc[d] \notin Successes
  PROVE  AuditInv'
<1> SUFFICES ASSUME NEW r \in Requests
             PROVE  /\ pc'[r] \in {"succeeding", "200"} => audited[r].success
                    /\ audited[r].success => pc'[r] \in Successes /\ WorkDone(r)'
  BY DEF AuditInv
<1>1. /\ pc[r] \in {"succeeding", "200"} => audited[r].success
      /\ audited[r].success => pc[r] \in Successes /\ WorkDone(r)
  BY DEF IInv, AuditInv
<1>2. pc[r] \in Successes /\ WorkDone(r) => WorkDone(r)'
  <2>1. CASE r \in Downloads
    BY <2>1 DEF WorkDone, Indices
  <2>2. CASE r \notin Downloads
    BY <2>2 DEF WorkDone, Work, Requests
  <2> QED
    BY <2>1, <2>2
<1> QED
  BY <1>1, <1>2 DEF Successes

\* What an answer does to the handlers.
LEMMA Answers1 ==
  ASSUME IInv, NEW r \in Requests, NEW code \in PCs, Answer(r, code)
  PROVE  /\ pc' \in [Requests -> PCs] /\ pc'[r] = code
         /\ \A q \in Requests \ {r} : pc'[q] = pc[q]
  BY DEF Answer, IInv, HandlerType

\* And to the log, with an entry or without: one of success is written when the
\* work is done, on the way to the answer.
LEMMA Entered ==
  ASSUME IInv, NEW r \in Requests, NEW code \in PCs, Answer(r, code),
         \/ /\ UNCHANGED audited
            /\ \/ pc[r] \notin Successes /\ code \notin {"succeeding", "200"}
               \/ pc[r] = "succeeding" /\ code = "200"
         \/ \E action \in Actions :
              \/ Audit(r, action, TRUE) /\ code = "succeeding" /\ WorkDone(r)
              \/ Audit(r, action, FALSE) /\ code \notin {"succeeding", "200"},
         \A q \in Work : job[q] = "ok" => job'[q] = "ok",
         UNCHANGED <<asked, served>>
  PROVE  audited' \in [Requests -> Entries \cup {NoEntry}] /\ AuditInv'
<1>1. /\ pc'[r] = code
      /\ \A q \in Requests \ {r} : pc'[q] = pc[q]
  BY Answers1
<1>2. CASE /\ UNCHANGED audited
           /\ \/ pc[r] \notin Successes /\ code \notin {"succeeding", "200"}
              \/ pc[r] = "succeeding" /\ code = "200"
  BY <1>1, <1>2, AuditFrame DEF IInv, HandlerType
<1>3. ASSUME NEW action \in Actions, NEW success \in BOOLEAN, Audit(r, action, success),
             IF success THEN code = "succeeding" /\ WorkDone(r)
                        ELSE code \notin {"succeeding", "200"}
      PROVE  audited' \in [Requests -> Entries \cup {NoEntry}] /\ AuditInv'
  <2> DEFINE e == [action |-> action, success |-> success]
  <2>1. e \in Entries /\ e.success = success
    BY DEF Entries, Actions
  <2>2. audited' = [audited EXCEPT ![r] = e]
    BY <1>3 DEF Audit
  <2> HIDE DEF e
  <2>3. audited' \in [Requests -> Entries \cup {NoEntry}]
    BY <2>1, <2>2 DEF IInv, HandlerType
  <2>4. audited'[r] = e /\ \A q \in Requests \ {r} : audited'[q] = audited[q]
    BY <2>2 DEF IInv, HandlerType
  <2>5. \A q \in Requests : WorkDone(q) => WorkDone(q)'
    BY DEF WorkDone, Work, Requests, Indices
  <2>6. /\ pc'[r] \in {"succeeding", "200"} => audited'[r].success
        /\ audited'[r].success => pc'[r] \in Successes /\ WorkDone(r)'
    <3>1. CASE success
      BY <1>1, <1>3, <2>1, <2>4, <2>5, <3>1 DEF Successes
    <3>2. CASE ~success
      BY <1>1, <1>3, <2>1, <2>4, <3>2
    <3> QED
      BY <3>1, <3>2
  <2>7. \A q \in Requests \ {r} :
          /\ pc'[q] \in {"succeeding", "200"} => audited'[q].success
          /\ audited'[q].success => pc'[q] \in Successes /\ WorkDone(q)'
    BY <1>1, <2>4, <2>5 DEF IInv, AuditInv
  <2>8. AuditInv'
    BY <2>6, <2>7 DEF AuditInv
  <2> QED
    BY <2>3, <2>8
<1> QED
  BY <1>2, <1>3

-----------------------------------------------------------------------------
(* A handler's step that leaves the chain, the storage and the calls alone, *)
(* and gets no download or delete past its checks.                         *)

LEMMA Moves ==
  ASSUME IInv, NEW r \in Requests, NEW code \in PCs \ {"idle", "reading"}, Answer(r, code),
         code = "registering" => r \in Uploads /\ job[r] = "ok",
         r \in Checking /\ code \in Passed => pc[r] \in Passed,
         r \in Downloads /\ code \in Counted => pc[r] \in Counted,
         UNCHANGED <<chainVars, mempool, storageVars, sent, readVars>>,
         \/ /\ UNCHANGED audited
            /\ \/ pc[r] \notin Successes /\ code \notin {"succeeding", "200"}
               \/ pc[r] = "succeeding" /\ code = "200"
         \/ \E action \in Actions :
              \/ Audit(r, action, TRUE) /\ code = "succeeding" /\ WorkDone(r)
              \/ Audit(r, action, FALSE) /\ code \notin {"succeeding", "200"}
  PROVE  IInv'
<1>1. /\ pc' \in [Requests -> PCs] /\ pc'[r] = code
      /\ \A q \in Requests \ {r} : pc'[q] = pc[q]
  BY Answers1
<1>2. UNCHANGED <<files, events, stored, job, todo, settled, asked, metadata, served, checked>>
  BY DEF chainVars, storageVars, readVars
<1>3. ChainType' /\ PoolInv' /\ ActiveInv' /\ BlankInv' /\ GrantedInv'
  BY ChainFrame
<1>4. WorkType' /\ StorageInv'
  <2>1. \A q \in Work : pc'[q] = "idle" => pc[q] = "idle"
    BY <1>1, Constants DEF Work
  <2>2. \A u \in Uploads : pc'[u] = "registering" \/ sent'[u] # "none" => job[u] = "ok"
    BY <1>1, Constants DEF IInv, StorageInv, OrderInv
  <2>3. job' \in [Work -> Jobs]
    BY <1>2 DEF IInv, WorkType
  <2> QED
    BY <1>2, <2>1, <2>2, <2>3, StorageFrame
<1>5. ReadInv'
  <2>1. \A d \in Downloads : \/ pc'[d] = pc[d]
                             \/ pc'[d] \notin Counted \cup {"reading"}
                             \/ pc[d] \in Counted /\ pc'[d] \in Counted
    BY <1>1, Constants
  <2> QED
    BY <1>2, <2>1, ReadFrame
<1>6. AllowedInv'
  <2>1. \A q \in Checking : pc'[q] \in Passed => pc[q] \in Passed
    BY <1>1, Constants DEF Checking
  <2> QED
    BY <1>2, <2>1, AllowedFrame
<1>7. audited' \in [Requests -> Entries \cup {NoEntry}] /\ AuditInv'
  BY <1>2, Entered
<1>8. HandlerType'
  BY <1>1, <1>2, <1>7 DEF IInv, HandlerType
<1> QED
  BY <1>3, <1>4, <1>5, <1>6, <1>7, <1>8 DEF IInv

-----------------------------------------------------------------------------
(* One lemma per action: uploads.                                          *)

\* The storage service is called for an upload.
LEMMA StartStoreInv ==
  ASSUME IInv, NEW u \in Uploads, pc[u] = "idle", StartStore(u),
         UNCHANGED <<chainVars, mempool, stored, settled, sent, readVars>>
  PROVE  IInv'
<1>1. /\ u \in Requests /\ u \in Work /\ job[u] = "none"
      /\ UNCHANGED <<files, events, stored, settled, sent, asked, metadata, served, checked, audited>>
  BY Constants DEF StartStore, IInv, StorageInv, OrderInv, chainVars, readVars
<1>2. /\ pc' \in [Requests -> PCs] /\ pc'[u] = "storing"
      /\ \A q \in Requests \ {u} : pc'[q] = pc[q]
  BY <1>1, Answers1 DEF StartStore, PCs
<1>3. /\ job' \in [Work -> Jobs] /\ job'[u] = "running"
      /\ \A q \in Work \ {u} : job'[q] = job[q]
  BY <1>1 DEF StartStore, IInv, WorkType, Jobs
<1>4. /\ todo' \in [Work -> SUBSET Numbers] /\ todo'[u] = AllChunks(u)
      /\ \A q \in Work \ {u} : todo'[q] = todo[q]
  BY <1>1, Counts DEF StartStore, IInv, WorkType
<1>5. ChainType' /\ PoolInv' /\ ActiveInv' /\ BlankInv' /\ GrantedInv'
  BY <1>1, ChainFrame
<1>6. WorkType'
  BY <1>1, <1>3, <1>4 DEF IInv, WorkType
<1>7. OrderInv'
  <2>1. \A q \in Work : pc'[q] = "idle" => job'[q] = "none"
    BY <1>1, <1>2, <1>3, Constants DEF IInv, StorageInv, OrderInv, Work
  <2>2. \A v \in Uploads : pc'[v] = "registering" \/ sent'[v] # "none" => job'[v] = "ok"
    BY <1>1, <1>2, <1>3, Constants DEF IInv, StorageInv, OrderInv
  <2> QED
    BY <2>1, <2>2 DEF OrderInv
<1>8. \A v \in Uploads : job[v] # "none" => job'[v] # "none"
  BY <1>1, <1>3, Constants DEF Jobs
<1>9. PartsInv'
  <2>1. \A f \in FileIds : \A c \in stored[f] : c.by \in Uploads
    BY DEF IInv, WorkType, Pieces
  <2>2. \A v \in Uploads : todo'[v] \subseteq AllChunks(v)
    BY <1>4, Constants DEF IInv, StorageInv, PartsInv
  <2> QED
    BY <1>1, <1>8, <2>1, <2>2 DEF IInv, StorageInv, PartsInv
<1>10. FinishedInv'
  BY <1>1, <1>3, <1>4 DEF IInv, StorageInv, FinishedInv
<1>11. UploadInv'
  <2>1. \A v \in Uploads : DeletionBegun(FileOf[v])' <=> DeletionBegun(FileOf[v])
    BY <1>3, Constants DEF DeletionBegun
  <2> QED
    BY <1>1, <1>3, <1>4, <2>1, Constants DEF IInv, StorageInv, UploadInv
<1>12. DeleteInv'
  <2>1. \A x \in Deletes : \A v \in settled[x] : v \in Uploads /\ v # u
    BY <1>1 DEF IInv, WorkType, StorageInv, DeleteInv
  <2> QED
    BY <1>1, <1>3, <1>4, <2>1, Constants DEF IInv, StorageInv, DeleteInv
<1>13. \A q \in Checking : pc'[q] = pc[q]
  BY <1>2, Constants DEF Checking
<1>14. ReadInv' /\ AllowedInv'
  BY <1>1, <1>8, <1>13, ReadFrame, AllowedFrame DEF Checking
<1>15. AuditInv'
  <2>1. \A q \in Work : job[q] = "ok" => job'[q] = "ok"
    BY <1>1, <1>3
  <2>2. \A q \in Requests : \/ pc'[q] = pc[q]
                            \/ pc[q] \notin Successes /\ pc'[q] \notin {"succeeding", "200"}
    BY <1>2 DEF Successes
  <2> QED
    BY <1>1, <2>1, <2>2, AuditFrame
<1>16. HandlerType'
  BY <1>1, <1>2 DEF IInv, HandlerType
<1> QED
  BY <1>5, <1>6, <1>7, <1>9, <1>10, <1>11, <1>12, <1>14, <1>15, <1>16 DEF IInv, StorageInv

LEMMA ScanInv == ASSUME IInv, NEW u \in Uploads, Scan(u) PROVE IInv'
<1>1. /\ u \in Requests /\ u \notin Checking /\ pc[u] = "idle"
      /\ UNCHANGED <<chainVars, mempool, stored, settled, sent, readVars, shares>>
  BY Constants DEF Scan
<1>2. CASE Unauthorized(u) /\ UNCHANGED <<job, todo>>
  BY <1>1, <1>2, Moves, Constants DEF Unauthorized, storageVars, Answers, PCs, Ended, Successes
<1>3. CASE Answer(u, "refusing") /\ Audit(u, "upload_blocked", FALSE) /\ UNCHANGED <<job, todo>>
  BY <1>1, <1>3, Moves, Constants DEF storageVars, PCs, Actions
<1>4. CASE StartStore(u)
  BY <1>1, <1>4, StartStoreInv
<1> QED
  BY <1>2, <1>3, <1>4 DEF Scan

LEMMA StoreAnsweredInv == ASSUME IInv, NEW u \in Uploads, StoreAnswered(u) PROVE IInv'
<1>1. /\ u \in Requests /\ u \notin Checking /\ u \notin Downloads /\ pc[u] \notin Successes
      /\ UNCHANGED <<chainVars, mempool, storageVars, sent, readVars, shares>>
  BY Constants DEF StoreAnswered, Successes
<1>2. CASE job[u] = "ok" /\ Answer(u, "registering") /\ UNCHANGED audited
  BY <1>1, <1>2, Moves DEF PCs
<1>3. CASE job[u] = "failed" /\ Answer(u, "failing") /\ Audit(u, "upload", FALSE)
  BY <1>1, <1>3, Moves DEF PCs, Actions
<1> QED
  BY <1>2, <1>3 DEF StoreAnswered, storeAnswered

LEMMA CallLostInv == ASSUME IInv, NEW r \in Requests, CallLost(r) PROVE IInv'
<1>1. /\ "500" \in PCs \ {"idle", "reading"} /\ "500" \notin Passed \cup Counted
      /\ pc[r] \notin Successes
  BY DEF CallLost, PCs, Ended, Answers, Passed, Counted, Successes
<1> QED
  BY <1>1, Moves DEF CallLost

LEMMA UploadEndsInv == ASSUME IInv, NEW u \in Uploads, UploadEnds(u) PROVE IInv'
<1>1. /\ u \in Requests /\ u \notin Checking /\ u \notin Downloads
      /\ UNCHANGED <<chainVars, mempool, storageVars, sent, readVars>>
      /\ Answer(u, "succeeding") /\ Audit(u, "upload", TRUE)
  BY Constants DEF UploadEnds, uploadEntry
<1>2. WorkDone(u)
  BY <1>1 DEF UploadEnds, WorkDone, IInv, StorageInv, OrderInv
<1> QED
  BY <1>1, <1>2, Moves DEF PCs, Actions

LEMMA ReplyInv == ASSUME IInv, NEW r \in Requests, Reply(r) PROVE IInv'
<1>1. UNCHANGED <<chainVars, mempool, storageVars, sent, readVars, audited>>
  BY DEF Reply
<1>2. CASE pc[r] = "succeeding" /\ Answer(r, "200")
  BY <1>1, <1>2, Moves DEF PCs, Ended, Answers, Passed, Counted
<1>3. ASSUME NEW code \in {"403", "500"}, pc[r] \in {"refusing", "failing"}, Answer(r, code)
      PROVE  IInv'
  BY <1>1, <1>3, Moves DEF PCs, Ended, Answers, Passed, Counted, Successes
<1> QED
  BY <1>2, <1>3 DEF Reply, Replies

\* Only the call to /register moves: it is made for a stored upload, and a
\* submitted one stays submitted.
LEMMA RegisterFrame ==
  ASSUME IInv, NEW u \in Uploads,
         NEW to \in {"called", "submitted", "failed"}, sent' = [sent EXCEPT ![u] = to],
         job[u] = "ok", sent[u] # "submitted",
         UNCHANGED <<chainVars, storageVars, pc, readVars, audited>>
  PROVE  /\ sent'[u] = to /\ \A v \in Uploads \ {u} : sent'[v] = sent[v]
         /\ WorkType' /\ HandlerType' /\ StorageInv' /\ ReadInv' /\ AllowedInv' /\ AuditInv'
<1>1. /\ sent' \in [Uploads -> {"none", "called", "submitted", "failed"}]
      /\ sent'[u] = to /\ \A v \in Uploads \ {u} : sent'[v] = sent[v]
  BY DEF IInv, HandlerType
<1>2. UNCHANGED <<files, events, stored, job, todo, settled, asked, metadata, served, checked>>
  BY DEF chainVars, storageVars, readVars
<1>3. WorkType' /\ StorageInv'
  <2>1. job' \in [Work -> Jobs]
    BY <1>2 DEF IInv, WorkType
  <2>2. \A v \in Uploads : pc'[v] = "registering" \/ sent'[v] # "none" => job[v] = "ok"
    BY <1>1 DEF IInv, StorageInv, OrderInv
  <2> QED
    BY <1>2, <2>1, <2>2, StorageFrame
<1>4. ReadInv' /\ AllowedInv' /\ AuditInv'
  BY <1>1, <1>2, ReadFrame, AllowedFrame, AuditFrame
<1>5. HandlerType'
  BY <1>1, <1>2 DEF IInv, HandlerType
<1> QED
  BY <1>1, <1>3, <1>4, <1>5

LEMMA CallRegisterInv == ASSUME IInv, NEW u \in Uploads, CallRegister(u) PROVE IInv'
<1>1. job[u] = "ok" /\ sent[u] = "none"
  BY DEF CallRegister, IInv, StorageInv, OrderInv
<1>2. /\ sent'[u] = "called" /\ \A v \in Uploads \ {u} : sent'[v] = sent[v]
      /\ WorkType' /\ HandlerType' /\ StorageInv' /\ ReadInv' /\ AllowedInv' /\ AuditInv'
  BY <1>1, RegisterFrame DEF CallRegister
<1>3. ChainType' /\ PoolInv' /\ ActiveInv' /\ BlankInv' /\ GrantedInv'
  BY <1>1, <1>2, ChainFrame DEF CallRegister
<1> QED
  BY <1>2, <1>3 DEF IInv

\* What the pool gains is a grant, a revocation or what an upload submits.
LEMMA PoolGains ==
  ASSUME IInv, NEW tx \in Txs, mempool' = Append(mempool, tx),
         \A v \in Uploads : sent[v] = "submitted" => sent'[v] = "submitted",
         tx.op = "register" => \E v \in Uploads : tx = Registration(v) /\ sent'[v] = "submitted"
  PROVE  PoolInv'
<1>1. mempool' \in Seq(Txs)
  BY DEF IInv, PoolInv
<1>2. ASSUME NEW i \in DOMAIN mempool', mempool'[i].op = "register"
      PROVE  \E v \in Uploads : mempool'[i] = Registration(v) /\ sent'[v] = "submitted"
  <2>1. (i \in DOMAIN mempool /\ mempool'[i] = mempool[i]) \/ mempool'[i] = tx
    BY DEF IInv, PoolInv
  <2> QED
    BY <1>2, <2>1 DEF IInv, PoolInv
<1> QED
  BY <1>1, <1>2 DEF PoolInv

LEMMA SubmitRegisterInv == ASSUME IInv, NEW u \in Uploads, SubmitRegister(u) PROVE IInv'
<1>1. job[u] = "ok" /\ sent[u] = "called"
  BY DEF SubmitRegister, IInv, StorageInv, OrderInv
<1>2. CASE sent' = [sent EXCEPT ![u] = "submitted"] /\ mempool' = Append(mempool, Registration(u))
  <2>1. /\ sent'[u] = "submitted" /\ \A v \in Uploads \ {u} : sent'[v] = sent[v]
        /\ WorkType' /\ HandlerType' /\ StorageInv' /\ ReadInv' /\ AllowedInv' /\ AuditInv'
    BY <1>1, <1>2, RegisterFrame DEF SubmitRegister
  <2>2. PoolInv'
    <3>1. Registration(u) \in Txs
      BY DEF Txs
    <3> QED
      BY <1>2, <2>1, <3>1, PoolGains
  <2>3. ChainType' /\ ActiveInv' /\ BlankInv' /\ GrantedInv'
    <3>1. UNCHANGED <<files, fileChunks, permissions, events>>
      BY DEF SubmitRegister, chainVars
    <3>2. ChainType' /\ BlankInv' /\ GrantedInv'
      BY <3>1 DEF IInv, ChainType, BlankInv, GrantedInv, Granted
    <3>3. ActiveInv'
      BY <2>1, <3>1 DEF IInv, ActiveInv
    <3> QED
      BY <3>2, <3>3
  <2> QED
    BY <2>1, <2>2, <2>3 DEF IInv
<1>3. CASE sent' = [sent EXCEPT ![u] = "failed"] /\ UNCHANGED mempool
  <2>1. /\ sent'[u] = "failed" /\ \A v \in Uploads \ {u} : sent'[v] = sent[v]
        /\ WorkType' /\ HandlerType' /\ StorageInv' /\ ReadInv' /\ AllowedInv' /\ AuditInv'
    BY <1>1, <1>3, RegisterFrame DEF SubmitRegister
  <2>2. ChainType' /\ PoolInv' /\ ActiveInv' /\ BlankInv' /\ GrantedInv'
    BY <1>1, <1>3, <2>1, ChainFrame DEF SubmitRegister
  <2> QED
    BY <2>1, <2>2 DEF IInv
<1> QED
  BY <1>2, <1>3 DEF SubmitRegister, Registration

\* A grant or a revocation is requested.
LEMMA SharesInv ==
  ASSUME IInv, NEW tx \in Grants \cup Revocations, mempool' = Append(mempool, tx),
         UNCHANGED <<chainVars, storageVars, sent, pc, readVars, audited>>
  PROVE  IInv'
<1>1. PoolInv'
  <2>1. tx.op # "register"
    BY DEF Grants, Revocations
  <2>2. tx \in Txs
    BY DEF Txs
  <2> QED
    BY <2>1, <2>2, PoolGains
<1>2. /\ UNCHANGED <<files, fileChunks, permissions, events>>
      /\ UNCHANGED <<stored, job, todo, settled, asked, metadata, served, checked>>
  BY DEF chainVars, storageVars, readVars
<1>3. ChainType' /\ ActiveInv' /\ BlankInv' /\ GrantedInv'
  BY <1>2 DEF IInv, ChainType, ActiveInv, BlankInv, GrantedInv, Granted
<1>4. WorkType' /\ StorageInv'
  BY <1>2, StorageFrame DEF IInv, StorageInv, OrderInv, WorkType
<1>5. ReadInv' /\ AllowedInv' /\ AuditInv'
  BY <1>2, ReadFrame, AllowedFrame, AuditFrame
<1>6. HandlerType'
  BY <1>2 DEF IInv, HandlerType
<1> QED
  BY <1>1, <1>3, <1>4, <1>5, <1>6 DEF IInv

LEMMA ShareInv ==
  ASSUME IInv, NEW f \in FileIds, NEW user \in Addresses \ {ZeroAddress},
         \/ Unshare(f, user)
         \/ \E p \in Contract!Permission : Share(f, user, p)
  PROVE  IInv'
<1>1. CASE Unshare(f, user)
  <2>1. [op |-> "revoke", file |-> f, user |-> user] \in Revocations
    BY DEF Revocations
  <2> QED
    BY <1>1, <2>1, SharesInv DEF Unshare
<1>2. ASSUME NEW p \in Contract!Permission, Share(f, user, p)
      PROVE  IInv'
  <2>1. [op |-> "grant", file |-> f, user |-> user, permission |-> p] \in Grants
    BY DEF Grants
  <2> QED
    BY <1>2, <2>1, SharesInv DEF Share
<1> QED
  BY <1>1, <1>2

-----------------------------------------------------------------------------
(* Downloads and deletes.                                                  *)

\* checkPermission lets pass the service, which owns every file, and whoever
\* the events give the permission; and nobody while the file is not registered.
LEMMA PermittedIsGranted ==
  ASSUME IInv, NEW f \in FileIds, NEW user \in Addresses \ {ZeroAddress},
         NEW required \in {Contract!READ, Contract!FULL},
         Contract!checkPermission(f, user, required)
  PROVE  /\ files[f].isActive
         /\ user # Service => Granted(f, user, required, Len(events))
<1>1. required \in Nat /\ required > 0
  BY DEF Contract!READ, Contract!FULL
<1>2. \A a \in Addresses : permissions[f][a] \in Nat
  BY DEF IInv, ChainType, Contract!Permission, Contract!NONE, Contract!FULL
<1>3. files[f].isActive
  BY <1>1 DEF IInv, BlankInv, Contract!checkPermission
<1>4. ASSUME user # Service PROVE Granted(f, user, required, Len(events))
  <2>1. files[f].owner = Service
    BY <1>3 DEF IInv, ActiveInv
  <2>2. permissions[f][user] >= required
    BY <1>4, <2>1 DEF Contract!checkPermission
  <2>3. Granted(f, user, permissions[f][user], Len(events))
    BY <1>1, <1>2, <1>4, <2>2 DEF IInv, GrantedInv
  <2>4. PICK i \in 1 .. Len(events) :
          /\ events[i].name = "AccessGranted" /\ Contract!Concerns(events[i], f, user)
          /\ events[i].permission >= permissions[f][user]
          /\ \A j \in i + 1 .. Len(events) : ~Contract!Concerns(events[j], f, user)
    BY <2>3 DEF Granted
  <2>5. events[i].permission \in Nat
    BY <2>4 DEF IInv, ChainType, Contract!Event, Contract!Permission, Contract!NONE, Contract!FULL
  <2>6. events[i].permission >= required
    BY <1>1, <1>2, <2>2, <2>4, <2>5
  <2> QED
    BY <2>4, <2>6 DEF Granted
<1> QED
  BY <1>3, <1>4

\* The permission is checked: the request is turned away, or goes on with it.
LEMMA CheckedInv ==
  ASSUME IInv, NEW r \in Checking, pc[r] = "idle", Checks(r),
         NEW code \in {"refusing", "403", "reading", "deleting"}, Answer(r, code),
         code \in {"reading", "deleting"} =>
           Contract!checkPermission(FileOf[r], UserOf[r], Required(r)),
         code = "reading" => r \in Downloads,
         IF code = "deleting" THEN r \in Deletes /\ job' = [job EXCEPT ![r] = "called"]
                              ELSE UNCHANGED job,
         \/ UNCHANGED audited
         \/ \E action \in Actions : Audit(r, action, FALSE),
         UNCHANGED <<chainVars, mempool, stored, todo, settled, sent, asked, metadata, served>>
  PROVE  IInv'
<1>1. /\ r \in Requests /\ code \in PCs /\ UNCHANGED <<files, events>>
  BY Constants DEF Checking, PCs, Ended, Answers, chainVars
<1>2. /\ pc' \in [Requests -> PCs] /\ pc'[r] = code
      /\ \A q \in Requests \ {r} : pc'[q] = pc[q]
  BY <1>1, Answers1
<1>3. /\ checked' \in [Checking -> Nat] /\ checked'[r] = Len(events)
      /\ \A q \in Checking \ {r} : checked'[q] = checked[q]
  BY DEF Checks, IInv, HandlerType, ChainType
<1>4. /\ job' \in [Work -> Jobs]
      /\ \A q \in Work : job'[q] = job[q] \/ (job[q] = "none" /\ job'[q] = "called" /\ q = r)
      /\ \A u \in Uploads : job'[u] = job[u]
  <2>1. r \in Work => job[r] = "none"
    BY DEF IInv, StorageInv, OrderInv
  <2> QED
    BY <2>1, Constants DEF IInv, WorkType, Jobs, Work
<1>5. ChainType' /\ PoolInv' /\ ActiveInv' /\ BlankInv' /\ GrantedInv'
  BY ChainFrame
<1>6. WorkType' /\ StorageInv'
  <2>1. \A q \in Work : pc'[q] = "idle" => pc[q] = "idle" /\ job'[q] = job[q]
    BY <1>2, <1>4, Constants DEF Work
  <2>2. \A u \in Uploads : pc'[u] = "registering" \/ sent'[u] # "none" => job[u] = "ok"
    BY <1>2, Constants DEF IInv, StorageInv, OrderInv
  <2>3. \A x \in Deletes : job'[x] = job[x] \/ (job[x] = "none" /\ job'[x] = "called")
    BY <1>4, Constants
  <2> QED
    BY <1>4, <2>1, <2>2, <2>3, StorageFrame
<1>7. code \in {"reading", "deleting"} =>
        /\ files[FileOf[r]].isActive
        /\ UserOf[r] # Service => Granted(FileOf[r], UserOf[r], Required(r), Len(events))
  <2>1. Required(r) \in {Contract!READ, Contract!FULL}
    BY DEF Required
  <2> QED
    BY <1>1, <2>1, PermittedIsGranted, Constants
<1>8. ReadInv'
  <2> SUFFICES ASSUME NEW d \in Downloads
               PROVE  /\ pc'[d] = "reading" => files[FileOf[d]].isActive
                      /\ pc'[d] \in Counted => metadata[d] # "unread"
                      /\ metadata[d] # "unread" =>
                           \E u \in Uploads :
                             /\ FileOf[u] = FileOf[d] /\ sent[u] = "submitted"
                             /\ asked[d] = IF metadata[d] = "read" THEN NumChunksOf[u] ELSE 1
                      /\ \A c \in served[d] : FileOf[c.by] = FileOf[d] /\ job'[c.by] # "none"
    BY <1>1 DEF ReadInv
  <2>1. pc'[d] = "reading" => files[FileOf[d]].isActive
    BY <1>2, <1>7, Constants DEF IInv, ReadInv
  <2>2. pc'[d] \in Counted => metadata[d] # "unread"
    BY <1>2, Constants DEF IInv, ReadInv, Counted
  <2>3. \A c \in served[d] : c.by \in Uploads
    BY DEF IInv, HandlerType, Pieces
  <2> QED
    BY <1>4, <2>1, <2>2, <2>3 DEF IInv, ReadInv
<1>9. AllowedInv'
  <2> SUFFICES ASSUME NEW q \in Checking
               PROVE  /\ checked'[q] <= Len(events)
                      /\ pc'[q] \in Passed /\ UserOf[q] # Service =>
                           Granted(FileOf[q], UserOf[q], Required(q), checked'[q])
    BY <1>1 DEF AllowedInv, Granted, Required
  <2>1. CASE q = r
    <3>1. code \in Passed => code \in {"reading", "deleting"}
      BY DEF Passed
    <3>2. Len(events) <= Len(events)
      BY DEF IInv, ChainType
    <3> QED
      BY <1>2, <1>3, <1>7, <2>1, <3>1, <3>2, Constants DEF Checking
  <2>2. CASE q # r
    <3>1. q \in Requests
      BY Constants DEF Checking
    <3> QED
      BY <1>2, <1>3, <2>2, <3>1 DEF IInv, AllowedInv
  <2> QED
    BY <2>1, <2>2
<1>10. audited' \in [Requests -> Entries \cup {NoEntry}] /\ AuditInv'
  <2>1. \A q \in Work : job[q] = "ok" => job'[q] = "ok"
    BY <1>4
  <2>2. pc[r] \notin Successes /\ code \notin {"succeeding", "200"}
    BY DEF Successes
  <2> QED
    BY <1>1, <2>1, <2>2, Entered
<1>11. HandlerType'
  BY <1>2, <1>3, <1>10 DEF IInv, HandlerType
<1> QED
  BY <1>5, <1>6, <1>8, <1>9, <1>10, <1>11 DEF IInv

LEMMA CheckReadInv == ASSUME IInv, NEW d \in Downloads, CheckRead(d) PROVE IInv'
<1>1. /\ d \in Requests /\ d \in Checking /\ d \notin Deletes /\ d \notin Uploads /\ pc[d] = "idle"
      /\ UNCHANGED <<chainVars, mempool, storageVars, sent, asked, metadata, served, shares>>
  BY Constants DEF CheckRead
<1>2. UNCHANGED <<stored, job, todo, settled>>
  BY <1>1 DEF storageVars
<1>3. ASSUME NEW code \in {"401", "503"}, Answer(d, code), UNCHANGED <<checked, audited>>
      PROVE  IInv'
  <2>1. /\ code \in PCs \ {"idle", "reading"} /\ code \notin Passed \cup Counted
        /\ code \notin {"registering", "succeeding", "200"} /\ pc[d] \notin Successes
    BY <1>1 DEF PCs, Ended, Answers, Passed, Counted, Successes
  <2> QED
    BY <1>1, <1>3, <2>1, Moves DEF readVars
<1>4. CASE Answer(d, "refusing") /\ Audit(d, "download_denied", FALSE) /\ Checks(d)
  BY <1>1, <1>2, <1>4, CheckedInv DEF Actions
<1>5. CASE /\ Contract!checkPermission(FileOf[d], UserOf[d], Contract!READ)
           /\ Answer(d, "reading") /\ Checks(d) /\ UNCHANGED audited
  <2>1. Required(d) = Contract!READ
    BY <1>1 DEF Required
  <2> QED
    BY <1>1, <1>2, <1>5, <2>1, CheckedInv
<1> QED
  BY <1>3, <1>4, <1>5 DEF CheckRead, Unauthorized

LEMMA CheckFullInv == ASSUME IInv, NEW x \in Deletes, CheckFull(x) PROVE IInv'
<1>1. /\ x \in Requests /\ x \in Checking /\ x \notin Uploads /\ x \notin Downloads
      /\ pc[x] = "idle"
      /\ UNCHANGED <<chainVars, mempool, stored, todo, settled, sent, asked, metadata, served, shares>>
  BY Constants DEF CheckFull
<1>2. ASSUME NEW code \in {"401", "503"}, Answer(x, code), UNCHANGED <<job, checked, audited>>
      PROVE  IInv'
  <2>1. /\ code \in PCs \ {"idle", "reading"} /\ code \notin Passed \cup Counted
        /\ code \notin {"registering", "succeeding", "200"} /\ pc[x] \notin Successes
    BY <1>1 DEF PCs, Ended, Answers, Passed, Counted, Successes
  <2> QED
    BY <1>1, <1>2, <2>1, Moves DEF readVars, storageVars
<1>3. CASE Answer(x, "403") /\ Checks(x) /\ UNCHANGED <<job, audited>>
  BY <1>1, <1>3, CheckedInv
<1>4. CASE /\ Contract!checkPermission(FileOf[x], UserOf[x], requiredToDelete)
           /\ Answer(x, "deleting") /\ Checks(x)
           /\ job' = [job EXCEPT ![x] = "called"] /\ UNCHANGED audited
  <2>1. Required(x) = requiredToDelete
    BY DEF Required, requiredToDelete
  <2> QED
    BY <1>1, <1>4, <2>1, CheckedInv
<1> QED
  BY <1>2, <1>3, <1>4 DEF CheckFull, Unauthorized

\* The registration says how many chunks an upload of the file has.
LEMMA CountIsExact ==
  ASSUME IInv, NEW f \in FileIds, files[f].isActive
  PROVE  \E u \in Uploads : /\ FileOf[u] = f /\ sent[u] = "submitted"
                            /\ chunkCount(f) = NumChunksOf[u]
<1>1. PICK u \in Uploads : FileOf[u] = f /\ sent[u] = "submitted" /\ fileChunks[f] = descriptors(u)
  BY DEF IInv, ActiveInv
<1>2. NumChunksOf[u] \in Nat \ {0}
  BY GatewayAssumption
<1>3. CASE NumChunksOf[u] > 1
  <2>1. fileChunks[f] = <<NumChunksOf[u]>>
    BY <1>1, <1>3 DEF descriptors
  <2>2. chunkCount(f) = NumChunksOf[u]
    BY <1>2, <1>3, <2>1 DEF chunkCount
  <2> QED
    BY <1>1, <2>2
<1>4. CASE ~ (NumChunksOf[u] > 1)
  <2>1. fileChunks[f] = <<0>> /\ NumChunksOf[u] = 1
    BY <1>1, <1>2, <1>4 DEF descriptors
  <2>2. chunkCount(f) = NumChunksOf[u]
    BY <2>1 DEF chunkCount
  <2> QED
    BY <1>1, <2>2
<1> QED
  BY <1>3, <1>4

\* A download's own step that leaves the chain, the calls and the storage alone.
LEMMA DownloadFrame ==
  ASSUME IInv, NEW d \in Downloads,
         UNCHANGED <<chainVars, mempool, storageVars, sent, checked, audited>>,
         pc' \in [Requests -> PCs], \A q \in Requests \ {d} : pc'[q] = pc[q],
         pc[d] \in Passed, pc'[d] \in Passed \ {"succeeding", "200"}, pc[d] \notin Successes,
         \A e \in Downloads \ {d} : UNCHANGED <<asked[e], served[e]>>
  PROVE  /\ ChainType' /\ PoolInv' /\ ActiveInv' /\ BlankInv' /\ GrantedInv'
         /\ WorkType' /\ StorageInv' /\ AllowedInv' /\ AuditInv'
<1>1. UNCHANGED <<files, events, stored, job, todo, settled>>
  BY DEF chainVars, storageVars
<1>2. ChainType' /\ PoolInv' /\ ActiveInv' /\ BlankInv' /\ GrantedInv'
  BY ChainFrame
<1>3. WorkType' /\ StorageInv'
  <2>1. \A q \in Work : pc'[q] = pc[q]
    BY Constants DEF Work
  <2>2. \A u \in Uploads : pc'[u] = "registering" \/ sent'[u] # "none" => job[u] = "ok"
    BY <2>1 DEF IInv, StorageInv, OrderInv, Work
  <2>3. job' \in [Work -> Jobs]
    BY <1>1 DEF IInv, WorkType
  <2> QED
    BY <1>1, <2>1, <2>2, <2>3, StorageFrame
<1>4. AllowedInv'
  <2>1. \A q \in Checking : pc'[q] \in Passed => pc[q] \in Passed
    BY Constants DEF Checking
  <2> QED
    BY <1>1, <2>1, AllowedFrame
<1>5. AuditInv'
  <2>1. \A q \in Requests : \/ pc'[q] = pc[q]
                            \/ pc[q] \notin Successes /\ pc'[q] \notin {"succeeding", "200"}
    OBVIOUS
  <2>2. \A e \in Downloads : UNCHANGED <<asked[e], served[e]>> \/ pc[e] \notin Successes
    OBVIOUS
  <2> QED
    BY <1>1, <2>1, <2>2, AuditFrame
<1> QED
  BY <1>2, <1>3, <1>4, <1>5

LEMMA ReadMetadataInv == ASSUME IInv, NEW d \in Downloads, ReadMetadata(d) PROVE IInv'
<1>1. /\ d \in Requests /\ d \notin Uploads /\ pc[d] = "reading"
      /\ FileOf[d] \in FileIds /\ files[FileOf[d]].isActive
      /\ UNCHANGED <<chainVars, mempool, storageVars, sent, served, checked, audited, shares>>
  BY Constants DEF ReadMetadata, IInv, ReadInv
<1>2. CASE Answer(d, "503") /\ UNCHANGED <<asked, metadata>>
  BY <1>1, <1>2, Moves DEF readVars, PCs, Ended, Answers, Passed, Counted, Successes
<1>3. ASSUME NEW n, NEW how \in {"read", "failed"}, Answer(d, "serving"),
             asked' = [asked EXCEPT ![d] = n], metadata' = [metadata EXCEPT ![d] = how],
             n = IF how = "read" THEN chunkCount(FileOf[d]) ELSE 1
      PROVE  IInv'
  <2>1. /\ pc' \in [Requests -> PCs] /\ pc'[d] = "serving"
        /\ \A q \in Requests \ {d} : pc'[q] = pc[q]
    BY <1>1, <1>3, Answers1 DEF PCs
  <2>2. /\ asked' = [e \in Downloads |-> asked'[e]] /\ asked'[d] = n
        /\ \A e \in Downloads \ {d} : asked'[e] = asked[e]
    BY <1>3 DEF IInv, HandlerType
  <2>3. /\ metadata' \in [Downloads -> {"unread", "read", "failed"}] /\ metadata'[d] = how
        /\ \A e \in Downloads \ {d} : metadata'[e] = metadata[e]
    BY <1>3 DEF IInv, HandlerType
  <2>4. /\ ChainType' /\ PoolInv' /\ ActiveInv' /\ BlankInv' /\ GrantedInv'
        /\ WorkType' /\ StorageInv' /\ AllowedInv' /\ AuditInv'
    BY <1>1, <2>1, <2>2, DownloadFrame DEF Passed, Successes
  <2>5. PICK u \in Uploads : /\ FileOf[u] = FileOf[d] /\ sent[u] = "submitted"
                             /\ chunkCount(FileOf[d]) = NumChunksOf[u]
    BY <1>1, CountIsExact
  <2>6. UNCHANGED <<files, job>>
    BY <1>1 DEF chainVars, storageVars
  <2>7. ReadInv'
    <3> SUFFICES ASSUME NEW e \in Downloads
                 PROVE  /\ pc'[e] = "reading" => files[FileOf[e]].isActive
                        /\ pc'[e] \in Counted => metadata'[e] # "unread"
                        /\ metadata'[e] # "unread" =>
                             \E v \in Uploads :
                               /\ FileOf[v] = FileOf[e] /\ sent[v] = "submitted"
                               /\ asked'[e] = IF metadata'[e] = "read" THEN NumChunksOf[v] ELSE 1
                        /\ \A c \in served[e] : FileOf[c.by] = FileOf[e] /\ job[c.by] # "none"
      BY <1>1, <2>6 DEF ReadInv
    <3>1. CASE e = d
      BY <1>3, <2>1, <2>2, <2>3, <2>5, <3>1 DEF IInv, ReadInv
    <3>2. CASE e # d
      BY <2>1, <2>2, <2>3, <3>2, Constants DEF IInv, ReadInv
    <3> QED
      BY <3>1, <3>2
  <2>8. HandlerType'
    BY <1>1, <2>1, <2>2, <2>3 DEF IInv, HandlerType
  <2> QED
    BY <2>4, <2>7, <2>8 DEF IInv
<1> QED
  BY <1>2, <1>3 DEF ReadMetadata

LEMMA DetectInv == ASSUME IInv, NEW d \in Downloads, Detect(d) PROVE IInv'
<1>1. /\ d \in Requests /\ d \notin Uploads /\ pc[d] = "serving"
      /\ UNCHANGED <<chainVars, mempool, storageVars, sent, readVars, shares>>
  BY Constants DEF Detect
<1>2. CASE Answer(d, "refusing") /\ Audit(d, "download_blocked", FALSE)
  BY <1>1, <1>2, Moves DEF PCs, Passed, Counted, Actions
<1>3. CASE Answer(d, "fetching") /\ UNCHANGED audited
  BY <1>1, <1>3, Moves DEF PCs, Passed, Counted, Successes
<1> QED
  BY <1>2, <1>3 DEF Detect

LEMMA FetchInv == ASSUME IInv, NEW d \in Downloads, Fetch(d) PROVE IInv'
<1>1. /\ d \in Requests /\ FileOf[d] \in FileIds /\ pc[d] = "fetching"
      /\ UNCHANGED <<chainVars, mempool, storageVars, sent, pc, asked, metadata, checked, audited>>
  BY Constants DEF Fetch
<1>2. PICK c \in stored[FileOf[d]] : served' = [served EXCEPT ![d] = @ \cup {c}]
  BY DEF Fetch
<1>3. /\ c \in Pieces /\ c.by \in Uploads
      /\ FileOf[c.by] = FileOf[d] /\ job[c.by] # "none"
  BY <1>1, <1>2 DEF IInv, WorkType, StorageInv, PartsInv, Pieces
<1>4. /\ served' \in [Downloads -> SUBSET Pieces] /\ served'[d] = served[d] \cup {c}
      /\ \A e \in Downloads \ {d} : served'[e] = served[e]
  BY <1>2, <1>3 DEF IInv, HandlerType
<1>5. /\ ChainType' /\ PoolInv' /\ ActiveInv' /\ BlankInv' /\ GrantedInv'
      /\ WorkType' /\ StorageInv' /\ AllowedInv' /\ AuditInv'
  <2>1. pc' \in [Requests -> PCs]
    BY <1>1 DEF IInv, HandlerType
  <2> QED
    BY <1>1, <1>4, <2>1, DownloadFrame DEF Passed, Successes
<1>6. HandlerType'
  BY <1>1, <1>4 DEF IInv, HandlerType
<1>7. ReadInv'
  <2>1. UNCHANGED <<files, job>>
    BY <1>1 DEF chainVars, storageVars
  <2>2. \A e \in Downloads : \A b \in served'[e] : FileOf[b.by] = FileOf[e] /\ job[b.by] # "none"
    BY <1>3, <1>4 DEF IInv, ReadInv
  <2> QED
    BY <1>1, <2>1, <2>2 DEF IInv, ReadInv
<1> QED
  BY <1>5, <1>6, <1>7 DEF IInv

LEMMA FetchAnsweredInv == ASSUME IInv, NEW d \in Downloads, FetchAnswered(d) PROVE IInv'
<1>1. /\ d \in Requests /\ d \notin Uploads /\ pc[d] = "fetching"
      /\ UNCHANGED <<chainVars, mempool, storageVars, sent, readVars, shares>>
  BY Constants DEF FetchAnswered
<1>2. CASE /\ Indices(served[d]) = 0 .. asked[d] - 1
           /\ Answer(d, "succeeding") /\ Audit(d, "download", TRUE)
  <2>1. WorkDone(d)
    BY <1>2 DEF WorkDone
  <2> QED
    BY <1>1, <1>2, <2>1, Moves DEF PCs, Passed, Counted, Actions
<1>3. CASE Answer(d, "failing") /\ Audit(d, "download", FALSE)
  BY <1>1, <1>3, Moves DEF PCs, Passed, Counted, Actions
<1> QED
  BY <1>2, <1>3 DEF FetchAnswered

LEMMA DeleteAnsweredInv == ASSUME IInv, NEW x \in Deletes, DeleteAnswered(x) PROVE IInv'
<1>1. /\ x \in Requests /\ x \notin Uploads /\ x \notin Downloads /\ pc[x] = "deleting"
      /\ UNCHANGED <<chainVars, mempool, storageVars, sent, readVars, shares>>
  BY Constants DEF DeleteAnswered
<1>2. CASE job[x] = "failed" /\ Answer(x, "500") /\ UNCHANGED audited
  BY <1>1, <1>2, Moves DEF PCs, Ended, Answers, Passed, Successes
<1>3. CASE job[x] = "ok" /\ Answer(x, "succeeding") /\ Audit(x, "delete", TRUE)
  <2>1. WorkDone(x)
    BY <1>1, <1>3 DEF WorkDone
  <2> QED
    BY <1>1, <1>3, <2>1, Moves DEF PCs, Passed, Actions
<1> QED
  BY <1>2, <1>3 DEF DeleteAnswered, deleteAnswered

-----------------------------------------------------------------------------
(* The storage service.                                                    *)

\* The handlers and the chain stand while the storage service works, and what
\* was begun stays begun.
LEMMA HandlersFrame ==
  ASSUME IInv, UNCHANGED <<chainVars, mempool, sent, pc, readVars, audited>>,
         \A q \in Work : /\ job[q] # "none" => job'[q] # "none"
                         /\ job[q] = "ok" => job'[q] = "ok"
  PROVE  /\ ChainType' /\ PoolInv' /\ ActiveInv' /\ BlankInv' /\ GrantedInv'
         /\ HandlerType' /\ ReadInv' /\ AllowedInv' /\ AuditInv'
<1>1. UNCHANGED <<files, events, asked, metadata, served, checked>>
  BY DEF chainVars, readVars
<1>2. ChainType' /\ PoolInv' /\ ActiveInv' /\ BlankInv' /\ GrantedInv'
  BY ChainFrame
<1>3. ReadInv' /\ AllowedInv' /\ AuditInv'
  BY <1>1, ReadFrame, AllowedFrame, AuditFrame DEF Work
<1>4. HandlerType'
  BY <1>1 DEF IInv, HandlerType
<1> QED
  BY <1>2, <1>3, <1>4

LEMMA DeleteBeginsInv == ASSUME IInv, NEW x \in Deletes, DeleteBegins(x) PROVE IInv'
<1> DEFINE ended == {u \in Uploads : FileOf[u] = FileOf[x] /\ job[u] \in {"ok", "failed"}}
<1>1. /\ x \in Work /\ x \notin Uploads /\ FileOf[x] \in FileIds /\ job[x] = "called"
      /\ UNCHANGED <<chainVars, mempool, stored, sent, pc, readVars, audited>>
  BY Constants DEF DeleteBegins
<1>2. /\ job' \in [Work -> Jobs] /\ job'[x] = "running"
      /\ \A q \in Work \ {x} : job'[q] = job[q]
  BY <1>1 DEF DeleteBegins, IInv, WorkType, Jobs
<1>3. \A u \in Uploads : job'[u] = job[u] /\ u \in Work \ {x}
  BY <1>1, <1>2, Constants
<1>4. /\ todo' \in [Work -> SUBSET Numbers] /\ todo'[x] = Indices(stored[FileOf[x]])
      /\ \A q \in Work \ {x} : todo'[q] = todo[q]
  <2>1. Indices(stored[FileOf[x]]) \in SUBSET Numbers
    BY <1>1 DEF IInv, WorkType, Pieces, Indices, Numbers
  <2> QED
    BY <1>1, <2>1 DEF DeleteBegins, IInv, WorkType
<1>5. /\ settled' \in [Deletes -> SUBSET Uploads] /\ settled'[x] = ended
      /\ \A y \in Deletes \ {x} : settled'[y] = settled[y]
  BY DEF DeleteBegins, IInv, WorkType
<1>6. /\ ChainType' /\ PoolInv' /\ ActiveInv' /\ BlankInv' /\ GrantedInv'
      /\ HandlerType' /\ ReadInv' /\ AllowedInv' /\ AuditInv'
  BY <1>1, <1>2, HandlersFrame
<1>7. WorkType'
  BY <1>1, <1>2, <1>4, <1>5 DEF IInv, WorkType
<1>8. OrderInv'
  BY <1>1, <1>2, <1>3 DEF IInv, StorageInv, OrderInv
<1>9. PartsInv'
  <2>1. \A f \in FileIds : \A c \in stored[f] : c.by \in Uploads
    BY DEF IInv, WorkType, Pieces
  <2> QED
    BY <1>1, <1>3, <1>4, <2>1 DEF IInv, StorageInv, PartsInv
<1>10. FinishedInv'
  BY <1>2, <1>4 DEF IInv, StorageInv, FinishedInv
<1>11. UploadInv'
  <2>1. \A u \in Uploads : DeletionBegun(FileOf[u]) => DeletionBegun(FileOf[u])'
    BY <1>2, Constants DEF DeletionBegun
  <2> QED
    BY <1>1, <1>3, <1>4, <2>1 DEF IInv, StorageInv, UploadInv
<1>12. DeleteInv'
  <2> SUFFICES ASSUME NEW y \in Deletes
               PROVE  /\ \A u \in settled'[y] : job'[u] \in {"ok", "failed"}
                      /\ job'[y] \in {"running", "ok"} =>
                           \A c \in stored[FileOf[y]] : c.by \in settled'[y] => c.index \in todo'[y]
    BY <1>1 DEF DeleteInv
  <2>1. CASE y = x
    BY <1>3, <1>4, <1>5, <2>1 DEF Indices
  <2>2. CASE y # x
    <3>1. y \in Work \ {x} /\ settled[y] \subseteq Uploads
      BY <2>2, Constants DEF IInv, WorkType
    <3> QED
      BY <1>2, <1>3, <1>4, <1>5, <2>2, <3>1 DEF IInv, StorageInv, DeleteInv
  <2> QED
    BY <2>1, <2>2
<1> QED
  BY <1>6, <1>7, <1>8, <1>9, <1>10, <1>11, <1>12 DEF IInv, StorageInv

LEMMA StorageStepInv ==
  ASSUME IInv, NEW r \in Work, NEW index \in Numbers, StorageStep(r, index)
  PROVE  IInv'
<1> DEFINE f == FileOf[r]
           put == IF r \in Uploads THEN {[by |-> r, index |-> index]} ELSE {}
<1>1. /\ job[r] = "running" /\ index \in todo[r] /\ r \in Requests /\ f \in FileIds
      /\ \A q \in Work : FileOf[q] \in FileIds
      /\ UNCHANGED <<chainVars, mempool, job, settled, sent, pc, readVars, audited>>
  BY Constants DEF StorageStep, Work
<1>2. /\ todo' \in [Work -> SUBSET Numbers] /\ todo'[r] = todo[r] \ {index}
      /\ \A q \in Work \ {r} : todo'[q] = todo[q]
  BY <1>1 DEF StorageStep, IInv, WorkType
<1>3. put \subseteq Pieces
  BY DEF Pieces, Numbers
<1>4. /\ stored' \in [FileIds -> SUBSET Pieces]
      /\ stored'[f] = {c \in stored[f] : c.index # index} \cup put
      /\ \A g \in FileIds \ {f} : stored'[g] = stored[g]
  BY <1>1, <1>3 DEF StorageStep, replaced, IInv, WorkType
<1>5. /\ ChainType' /\ PoolInv' /\ ActiveInv' /\ BlankInv' /\ GrantedInv'
      /\ HandlerType' /\ ReadInv' /\ AllowedInv' /\ AuditInv'
  BY <1>1, HandlersFrame
<1>6. WorkType' /\ OrderInv'
  BY <1>1, <1>2, <1>4 DEF IInv, WorkType, StorageInv, OrderInv
<1>7. FinishedInv'
  BY <1>1, <1>2 DEF IInv, StorageInv, FinishedInv
<1>8. \A q \in Work : todo'[q] \subseteq todo[q]
  BY <1>2
<1>9. PartsInv'
  <2>1. \A u \in Uploads : todo'[u] \subseteq AllChunks(u)
    BY <1>8 DEF IInv, StorageInv, PartsInv, Work
  <2>2. \A c \in put : FileOf[c.by] = f /\ job[c.by] # "none" /\ c.index \in AllChunks(c.by)
    BY <1>1 DEF IInv, StorageInv, PartsInv
  <2>3. \A g \in FileIds : \A c \in stored'[g] :
          FileOf[c.by] = g /\ job[c.by] # "none" /\ c.index \in AllChunks(c.by)
    BY <1>1, <1>4, <2>2 DEF IInv, StorageInv, PartsInv
  <2> QED
    BY <1>1, <2>1, <2>3 DEF PartsInv
<1>10. UploadInv'
  <2> SUFFICES ASSUME NEW v \in Uploads, job[v] # "none", ~DeletionBegun(FileOf[v])
               PROVE  AllChunks(v) \ todo'[v] \subseteq Indices(stored'[FileOf[v]])
    BY <1>1 DEF UploadInv, DeletionBegun
  <2>1. AllChunks(v) \ todo[v] \subseteq Indices(stored[FileOf[v]])
    BY DEF IInv, StorageInv, UploadInv
  <2>2. v \in Work /\ FileOf[v] \in FileIds
    BY Constants
  <2>3. CASE FileOf[v] # f
    BY <1>2, <1>4, <2>1, <2>2, <2>3
  <2>4. CASE FileOf[v] = f
    <3>1. r \in Uploads
      BY <1>1, <2>4 DEF Work, DeletionBegun
    <3>2. put = {[by |-> r, index |-> index]}
      BY <3>1
    <3>3. index \in Indices(stored'[f])
      <4>1. [by |-> r, index |-> index] \in stored'[f]
        BY <1>4, <3>2
      <4>2. [by |-> r, index |-> index].index \in Indices(stored'[f])
        BY <4>1 DEF Indices
      <4> QED
        BY <4>2
    <3>4. Indices(stored[f]) \subseteq Indices(stored'[f])
      BY <1>4, <3>3 DEF Indices
    <3>5. AllChunks(v) \ todo'[v] \subseteq (AllChunks(v) \ todo[v]) \cup {index}
      BY <1>2, <2>2
    <3> QED
      BY <2>1, <2>4, <3>3, <3>4, <3>5
  <2> QED
    BY <2>3, <2>4
<1>11. DeleteInv'
  <2> SUFFICES ASSUME NEW x \in Deletes
               PROVE  /\ \A u \in settled[x] : job[u] \in {"ok", "failed"}
                      /\ job[x] \in {"running", "ok"} =>
                           \A c \in stored'[FileOf[x]] : c.by \in settled[x] => c.index \in todo'[x]
    BY <1>1 DEF DeleteInv
  <2>1. /\ \A u \in settled[x] : job[u] \in {"ok", "failed"}
        /\ job[x] \in {"running", "ok"} =>
             \A c \in stored[FileOf[x]] : c.by \in settled[x] => c.index \in todo[x]
        /\ x \in Work /\ FileOf[x] \in FileIds
    BY Constants DEF IInv, StorageInv, DeleteInv
  <2>2. ASSUME job[x] \in {"running", "ok"}, NEW c \in stored'[FileOf[x]], c.by \in settled[x]
        PROVE  c.index \in todo'[x]
    <3>1. CASE FileOf[x] # f
      BY <1>2, <1>4, <2>1, <2>2, <3>1
    <3>2. CASE FileOf[x] = f
      <4>1. c \notin put
        BY <1>1, <2>1, <2>2
      <4>2. c \in stored[f] /\ c.index # index
        BY <1>4, <2>2, <3>2, <4>1
      <4> QED
        BY <1>2, <2>1, <2>2, <3>2, <4>2
    <3> QED
      BY <3>1, <3>2
  <2> QED
    BY <2>1, <2>2
<1> QED
  BY <1>5, <1>6, <1>7, <1>9, <1>10, <1>11 DEF IInv, StorageInv

LEMMA StorageEndsInv == ASSUME IInv, NEW r \in Work, StorageEnds(r) PROVE IInv'
<1>1. /\ job[r] \in {"called", "running"}
      /\ UNCHANGED <<chainVars, mempool, stored, todo, settled, sent, pc, readVars, audited>>
  BY DEF StorageEnds
<1>2. /\ job' \in [Work -> Jobs]
      /\ job'[r] \in {"ok", "failed"} /\ (job'[r] = "ok" => job[r] = "running" /\ todo[r] = {})
      /\ \A q \in Work \ {r} : job'[q] = job[q]
  BY DEF StorageEnds, IInv, WorkType, Jobs
<1>3. /\ ChainType' /\ PoolInv' /\ ActiveInv' /\ BlankInv' /\ GrantedInv'
      /\ HandlerType' /\ ReadInv' /\ AllowedInv' /\ AuditInv'
  BY <1>1, <1>2, HandlersFrame
<1>4. \A q \in Work : /\ job'[q] # "none" <=> job[q] # "none"
                      /\ job[q] \in {"ok", "failed"} => job'[q] = job[q]
  BY <1>1, <1>2
<1>5. WorkType'
  BY <1>1, <1>2 DEF IInv, WorkType
<1>6. OrderInv'
  <2>1. \A q \in Work : pc[q] = "idle" => job'[q] = "none"
    BY <1>1, <1>2 DEF IInv, StorageInv, OrderInv
  <2>2. \A u \in Uploads : pc[u] = "registering" \/ sent[u] # "none" => job'[u] = "ok"
    BY <1>4, Constants DEF IInv, StorageInv, OrderInv
  <2> QED
    BY <1>1, <2>1, <2>2 DEF OrderInv
<1>7. PartsInv'
  <2>1. \A f \in FileIds : \A c \in stored[f] : c.by \in Work
    BY DEF IInv, WorkType, Pieces, Work
  <2> QED
    BY <1>1, <1>4, <2>1 DEF IInv, StorageInv, PartsInv
<1>8. FinishedInv'
  BY <1>1, <1>2 DEF IInv, StorageInv, FinishedInv
<1>9. UploadInv'
  <2>1. \A u \in Uploads : DeletionBegun(FileOf[u]) => DeletionBegun(FileOf[u])'
    BY <1>2, Constants DEF DeletionBegun
  <2> QED
    BY <1>1, <1>4, <2>1, Constants DEF IInv, StorageInv, UploadInv
<1>10. DeleteInv'
  <2> SUFFICES ASSUME NEW x \in Deletes
               PROVE  /\ \A u \in settled[x] : job'[u] \in {"ok", "failed"}
                      /\ job'[x] \in {"running", "ok"} =>
                           \A c \in stored[FileOf[x]] : c.by \in settled[x] => c.index \in todo[x]
    BY <1>1 DEF DeleteInv
  <2>1. x \in Work /\ settled[x] \subseteq Work
    BY Constants DEF IInv, WorkType, Work
  <2>2. job'[x] \in {"running", "ok"} => job[x] \in {"running", "ok"}
    BY <1>2, <2>1
  <2> QED
    BY <1>4, <2>1, <2>2 DEF IInv, StorageInv, DeleteInv
<1> QED
  BY <1>3, <1>5, <1>6, <1>7, <1>8, <1>9, <1>10 DEF IInv, StorageInv

-----------------------------------------------------------------------------
(* The chain.                                                              *)

\* What the chain does to the rest: registered files stay registered, and no
\* event is forgotten.
LEMMA MineFrame ==
  ASSUME IInv, UNCHANGED <<storageVars, sent, pc, readVars, audited>>,
         \A f \in FileIds : files[f].isActive => files'[f].isActive,
         UNCHANGED events \/ \E e : events' = Append(events, e)
  PROVE  WorkType' /\ StorageInv' /\ HandlerType' /\ ReadInv' /\ AllowedInv' /\ AuditInv'
<1>1. UNCHANGED <<stored, job, todo, settled, asked, metadata, served, checked>>
  BY DEF storageVars, readVars
<1>2. WorkType' /\ StorageInv'
  BY <1>1, StorageFrame DEF IInv, StorageInv, OrderInv, WorkType
<1>3. ReadInv' /\ AuditInv'
  BY <1>1, ReadFrame, AuditFrame
<1>4. AllowedInv'
  BY <1>1, AllowedFrame
<1>5. HandlerType'
  BY <1>1 DEF IInv, HandlerType
<1> QED
  BY <1>2, <1>3, <1>4, <1>5

LEMMA PoolTail ==
  ASSUME IInv, mempool # <<>>, mempool' = Tail(mempool), UNCHANGED sent
  PROVE  PoolInv'
<1>1. mempool' \in Seq(Txs)
  BY DEF IInv, PoolInv
<1>2. \A i \in DOMAIN mempool' : i + 1 \in DOMAIN mempool /\ mempool'[i] = mempool[i + 1]
  BY DEF IInv, PoolInv
<1> QED
  BY <1>1, <1>2 DEF IInv, PoolInv

\* An event of one user and file explains the permissions it leaves others as
\* they were, and its own when it is the grant of it.
LEMMA EventExplains ==
  ASSUME IInv, NEW e, events' = Append(events, e),
         NEW f \in FileIds, NEW a \in Addresses \ {Service}, permissions'[f][a] > 0,
         \/ /\ ~Contract!Concerns(e, f, a)
            /\ permissions'[f][a] = permissions[f][a]
         \/ /\ e.name = "AccessGranted" /\ Contract!Concerns(e, f, a)
            /\ e.permission = permissions'[f][a] /\ e.permission \in Nat
  PROVE  Granted(f, a, permissions[f][a], Len(events))'
<1> DEFINE n == Len(events)
<1>1. events \in Seq(Contract!Event) /\ n \in Nat
  BY DEF IInv, ChainType
<1>2. /\ Len(events') = n + 1 /\ events'[n + 1] = e
      /\ \A i \in 1 .. n : events'[i] = events[i]
  BY <1>1
<1>3. SUFFICES \E i \in 1 .. n + 1 :
        /\ events'[i].name = "AccessGranted" /\ Contract!Concerns(events'[i], f, a)
        /\ events'[i].permission >= permissions'[f][a]
        /\ \A j \in i + 1 .. n + 1 : ~Contract!Concerns(events'[j], f, a)
  BY <1>2 DEF Granted, Contract!Concerns
<1>4. CASE ~Contract!Concerns(e, f, a) /\ permissions'[f][a] = permissions[f][a]
  <2>1. PICK i \in 1 .. n :
          /\ events[i].name = "AccessGranted" /\ Contract!Concerns(events[i], f, a)
          /\ events[i].permission >= permissions[f][a]
          /\ \A j \in i + 1 .. n : ~Contract!Concerns(events[j], f, a)
    BY <1>4 DEF IInv, GrantedInv, Granted
  <2>2. i \in 1 .. n + 1 /\ events'[i] = events[i]
    BY <1>1, <1>2
  <2>3. \A j \in i + 1 .. n + 1 : j = n + 1 \/ (j \in i + 1 .. n /\ events'[j] = events[j])
    BY <1>1, <1>2
  <2>4. \A j \in i + 1 .. n + 1 : ~Contract!Concerns(events'[j], f, a)
    BY <1>2, <1>4, <2>1, <2>3
  <2> QED
    BY <1>4, <2>1, <2>2, <2>4
<1>5. CASE /\ e.name = "AccessGranted" /\ Contract!Concerns(e, f, a)
           /\ e.permission = permissions'[f][a] /\ e.permission \in Nat
  <2>1. n + 1 \in 1 .. n + 1 /\ (n + 1) + 1 .. n + 1 = {}
    BY <1>1
  <2>2. e.permission >= permissions'[f][a]
    BY <1>5
  <2> QED
    BY <1>2, <1>5, <2>1, <2>2
<1> QED
  BY <1>4, <1>5

LEMMA RegisterInv ==
  ASSUME IInv, NEW u \in Uploads, sent[u] = "submitted", UNCHANGED sent,
         Contract!registerFile(Service, FileOf[u], descriptors(u))
  PROVE  /\ ChainType' /\ ActiveInv' /\ BlankInv' /\ GrantedInv'
         /\ \A f \in FileIds : files[f].isActive => files'[f].isActive
         /\ \E e : events' = Append(events, e)
<1> DEFINE g == FileOf[u]
           e == [name |-> "FileRegistered", fileId |-> g, owner |-> Service]
<1>1. g \in FileIds /\ Service \in Addresses \ {ZeroAddress}
  BY Constants
<1>2. /\ ~ files[g].isActive
      /\ files' = [files EXCEPT ![g] = [owner |-> Service, isActive |-> TRUE]]
      /\ fileChunks' = [fileChunks EXCEPT ![g] = @ \o descriptors(u)]
      /\ permissions' = [permissions EXCEPT ![g][Service] = Contract!FULL]
      /\ events' = Append(events, e)
  BY DEF Contract!registerFile, Contract!unregistered, Contract!ownerPermission
<1>3. Contract!FULL \in Contract!Permission
  BY DEF Contract!FULL, Contract!NONE, Contract!Permission
<1>4. fileChunks[g] = <<>>
  BY <1>1, <1>2 DEF IInv, BlankInv
<1>5. fileChunks'[g] = descriptors(u)
  <2>1. descriptors(u) \in Seq(Nat)
    BY GatewayAssumption DEF descriptors
  <2>2. <<>> \o descriptors(u) = descriptors(u)
    BY <2>1
  <2> QED
    BY <1>1, <1>2, <1>4, <2>2 DEF IInv, ChainType
<1>6. \A f \in FileIds \ {g} : files'[f] = files[f] /\ fileChunks'[f] = fileChunks[f]
                               /\ permissions'[f] = permissions[f]
  BY <1>1, <1>2 DEF IInv, ChainType
<1>7. files'[g] = [owner |-> Service, isActive |-> TRUE]
  BY <1>1, <1>2 DEF IInv, ChainType
<1>8. \A a \in Addresses \ {Service} : permissions'[g][a] = permissions[g][a]
  BY <1>1, <1>2 DEF IInv, ChainType
<1>9. ChainType'
  <2>1. files' \in [FileIds -> Contract!FileRecord]
    BY <1>1, <1>2 DEF IInv, ChainType, Contract!FileRecord
  <2>2. fileChunks' = [f \in FileIds |-> fileChunks'[f]]
    BY <1>2 DEF IInv, ChainType
  <2>3. permissions' \in [FileIds -> [Addresses -> Contract!Permission]]
    BY <1>1, <1>2, <1>3 DEF IInv, ChainType
  <2>4. e \in Contract!Event
    BY <1>1 DEF Contract!Event, Contract!Senders
  <2>5. events' \in Seq(Contract!Event)
    BY <1>2, <2>4 DEF IInv, ChainType
  <2> QED
    BY <2>1, <2>2, <2>3, <2>5 DEF ChainType
<1>10. ActiveInv'
  BY <1>5, <1>6, <1>7 DEF IInv, ActiveInv
<1>11. BlankInv'
  BY <1>6, <1>7 DEF IInv, BlankInv
<1>12. GrantedInv'
  <2> SUFFICES ASSUME NEW f \in FileIds, NEW a \in Addresses \ {Service}, permissions'[f][a] > 0
               PROVE  Granted(f, a, permissions[f][a], Len(events))'
    BY DEF GrantedInv
  <2>1. permissions'[f][a] = permissions[f][a]
    BY <1>6, <1>8
  <2>2. ~Contract!Concerns(e, f, a)
    BY DEF Contract!Concerns
  <2> QED
    BY <1>2, <2>1, <2>2, EventExplains
<1> QED
  BY <1>2, <1>6, <1>7, <1>9, <1>10, <1>11, <1>12

\* A grant and a revocation are alike but for the event.
LEMMA SetPermissionInv ==
  ASSUME IInv, UNCHANGED <<files, fileChunks, sent>>,
         NEW f \in FileIds, NEW user \in Addresses \ {ZeroAddress},
         NEW p \in Contract!Permission, NEW e \in Contract!Event,
         files[f].isActive,
         permissions' = [permissions EXCEPT ![f][user] = p], events' = Append(events, e),
         e.name \in {"AccessGranted", "AccessRevoked"}, e.fileId = f, e.user = user,
         p = 0 \/ (e.name = "AccessGranted" /\ e.permission = p)
  PROVE  ChainType' /\ ActiveInv' /\ BlankInv' /\ GrantedInv'
<1>1. permissions' \in [FileIds -> [Addresses -> Contract!Permission]]
  BY DEF IInv, ChainType
<1>2. /\ permissions'[f][user] = p
      /\ \A g \in FileIds, a \in Addresses :
           g # f \/ a # user => permissions'[g][a] = permissions[g][a]
  BY DEF IInv, ChainType
<1>3. ChainType'
  BY <1>1 DEF IInv, ChainType
<1>4. ActiveInv'
  BY DEF IInv, ActiveInv
<1>5. BlankInv'
  BY <1>2 DEF IInv, BlankInv
<1>6. GrantedInv'
  <2> SUFFICES ASSUME NEW g \in FileIds, NEW a \in Addresses \ {Service}, permissions'[g][a] > 0
               PROVE  Granted(g, a, permissions[g][a], Len(events))'
    BY DEF GrantedInv
  <2>1. CASE g = f /\ a = user
    <3>1. p # 0 /\ p \in Nat
      BY <1>2, <2>1 DEF Contract!Permission, Contract!NONE, Contract!FULL
    <3>2. e.name = "AccessGranted" /\ e.permission = p /\ Contract!Concerns(e, g, a)
      BY <2>1, <3>1 DEF Contract!Concerns
    <3> QED
      BY <1>2, <2>1, <3>1, <3>2, EventExplains
  <2>2. CASE ~ (g = f /\ a = user)
    <3>1. permissions'[g][a] = permissions[g][a] /\ ~Contract!Concerns(e, g, a)
      BY <1>2, <2>2 DEF Contract!Concerns
    <3> QED
      BY <3>1, EventExplains
  <2> QED
    BY <2>1, <2>2
<1> QED
  BY <1>3, <1>4, <1>5, <1>6

LEMMA MineInv == ASSUME IInv, Mine PROVE IInv'
<1> DEFINE tx == Head(mempool)
<1>1. /\ mempool # <<>> /\ mempool' = Tail(mempool)
      /\ UNCHANGED <<storageVars, sent, pc, readVars, audited, shares>>
  BY DEF Mine
<1>2. PoolInv'
  BY <1>1, PoolTail
<1>3. tx \in Txs /\ 1 \in DOMAIN mempool /\ tx = mempool[1]
  BY <1>1 DEF IInv, PoolInv
<1>4. Service \in Addresses \ {ZeroAddress}
  BY Constants
<1>5. CASE UNCHANGED chainVars
  <2>1. UNCHANGED <<files, fileChunks, permissions, events>>
    BY <1>5 DEF chainVars
  <2>2. ChainType' /\ ActiveInv' /\ BlankInv' /\ GrantedInv'
    BY <1>1, <2>1 DEF IInv, ChainType, ActiveInv, BlankInv, GrantedInv, Granted
  <2>3. WorkType' /\ StorageInv' /\ HandlerType' /\ ReadInv' /\ AllowedInv' /\ AuditInv'
    BY <1>1, <2>1, MineFrame
  <2> QED
    BY <1>2, <2>2, <2>3 DEF IInv
<1>6. ASSUME tx.op = "register", Execute(tx)
      PROVE  IInv'
  <2>1. PICK u \in Uploads : tx = Registration(u) /\ sent[u] = "submitted"
    BY <1>3, <1>6 DEF IInv, PoolInv
  <2>2. Contract!registerFile(Service, FileOf[u], descriptors(u))
    <3>1. tx.file = FileOf[u] /\ tx.chunks = descriptors(u)
      BY <2>1 DEF Registration
    <3> QED
      BY <1>6, <3>1 DEF Execute
  <2>3. /\ ChainType' /\ ActiveInv' /\ BlankInv' /\ GrantedInv'
        /\ \A f \in FileIds : files[f].isActive => files'[f].isActive
        /\ \E e : events' = Append(events, e)
    BY <1>1, <2>1, <2>2, RegisterInv
  <2>4. WorkType' /\ StorageInv' /\ HandlerType' /\ ReadInv' /\ AllowedInv' /\ AuditInv'
    BY <1>1, <2>3, MineFrame
  <2> QED
    BY <1>2, <2>3, <2>4 DEF IInv
<1>7. ASSUME NEW f \in FileIds, NEW user \in Addresses \ {ZeroAddress},
             NEW p \in Contract!Permission, NEW e \in Contract!Event,
             UNCHANGED <<files, fileChunks>>, files[f].isActive,
             permissions' = [permissions EXCEPT ![f][user] = p], events' = Append(events, e),
             e.name \in {"AccessGranted", "AccessRevoked"}, e.fileId = f, e.user = user,
             p = 0 \/ (e.name = "AccessGranted" /\ e.permission = p)
      PROVE  IInv'
  <2>1. ChainType' /\ ActiveInv' /\ BlankInv' /\ GrantedInv'
    BY <1>1, <1>7, SetPermissionInv
  <2>2. WorkType' /\ StorageInv' /\ HandlerType' /\ ReadInv' /\ AllowedInv' /\ AuditInv'
    BY <1>1, <1>7, MineFrame
  <2> QED
    BY <1>2, <2>1, <2>2 DEF IInv
<1>8. ASSUME tx \in Grants, Execute(tx) PROVE IInv'
  <2>1. /\ tx.op = "grant" /\ tx.file \in FileIds /\ tx.user \in Addresses \ {ZeroAddress}
        /\ tx.permission \in Contract!Permission
    BY <1>8 DEF Grants
  <2>2. Contract!grantAccess(Service, tx.file, tx.user, tx.permission)
    BY <1>8, <2>1 DEF Execute
  <2> DEFINE e == [name |-> "AccessGranted", fileId |-> tx.file, user |-> tx.user,
                   permission |-> tx.permission]
  <2>3. e \in Contract!Event
    BY <2>1 DEF Contract!Event, Contract!Senders
  <2>4. /\ UNCHANGED <<files, fileChunks>> /\ files[tx.file].isActive
        /\ permissions' = [permissions EXCEPT ![tx.file][tx.user] = tx.permission]
        /\ events' = Append(events, e)
    BY <2>2 DEF Contract!grantAccess, Contract!fileExists
  <2>5. /\ e.name = "AccessGranted" /\ e.fileId = tx.file /\ e.user = tx.user
        /\ e.permission = tx.permission
    OBVIOUS
  <2> HIDE DEF e, tx
  <2> QED
    BY <1>7, <2>1, <2>3, <2>4, <2>5
<1>9. ASSUME tx \in Revocations, Execute(tx) PROVE IInv'
  <2>1. /\ tx.op = "revoke" /\ tx.file \in FileIds /\ tx.user \in Addresses \ {ZeroAddress}
    BY <1>9 DEF Revocations
  <2>2. Contract!revokeAccess(Service, tx.file, tx.user)
    BY <1>9, <2>1 DEF Execute
  <2> DEFINE e == [name |-> "AccessRevoked", fileId |-> tx.file, user |-> tx.user]
  <2>3. e \in Contract!Event /\ e.name = "AccessRevoked" /\ e.fileId = tx.file /\ e.user = tx.user
    BY <2>1 DEF Contract!Event, Contract!Senders
  <2>4. /\ UNCHANGED <<files, fileChunks>> /\ files[tx.file].isActive
        /\ permissions' = [permissions EXCEPT ![tx.file][tx.user] = 0]
        /\ events' = Append(events, e)
    BY <2>2 DEF Contract!revokeAccess, Contract!fileExists, Contract!NONE
  <2>5. 0 \in Contract!Permission
    BY DEF Contract!Permission, Contract!NONE, Contract!FULL
  <2> HIDE DEF e, tx
  <2> QED
    BY <1>7, <2>1, <2>3, <2>4, <2>5
<1>10. Execute(tx) \/ UNCHANGED chainVars
  BY DEF Mine
<1>11. tx.op = "register" \/ tx \in Grants \/ tx \in Revocations
  BY <1>3 DEF Txs, Registration
<1> HIDE DEF tx
<1> QED
  BY <1>5, <1>6, <1>8, <1>9, <1>10, <1>11

-----------------------------------------------------------------------------

LEMMA GatewayCrashInv == ASSUME IInv, GatewayCrash PROVE IInv'
<1>1. /\ UNCHANGED <<chainVars, mempool, storageVars, sent, readVars, audited>>
      /\ pc' \in [Requests -> PCs]
      /\ \A r \in Requests : pc'[r] = IF pc[r] \in Ended \cup {"idle"} THEN pc[r] ELSE "lost"
  BY DEF GatewayCrash, IInv, HandlerType, PCs, Ended
<1>2. \A r \in Requests : pc'[r] = pc[r] \/ (pc'[r] = "lost" /\ pc[r] \notin Ended)
  BY <1>1
<1>3. UNCHANGED <<files, events, stored, job, todo, settled, asked, metadata, served, checked>>
  BY <1>1 DEF chainVars, storageVars, readVars
<1>4. ChainType' /\ PoolInv' /\ ActiveInv' /\ BlankInv' /\ GrantedInv'
  BY <1>1, ChainFrame
<1>5. WorkType' /\ StorageInv'
  <2>1. \A r \in Work : pc'[r] = "idle" => pc[r] = "idle"
    BY <1>2, Constants DEF Work
  <2>2. \A u \in Uploads : pc'[u] = "registering" \/ sent'[u] # "none" => job[u] = "ok"
    BY <1>1, <1>2, Constants DEF IInv, StorageInv, OrderInv
  <2>3. job' \in [Work -> Jobs]
    BY <1>3 DEF IInv, WorkType
  <2> QED
    BY <1>3, <2>1, <2>2, <2>3, StorageFrame
<1>6. ReadInv'
  <2>1. \A d \in Downloads : pc'[d] = pc[d] \/ pc'[d] \notin Counted \cup {"reading"}
    BY <1>2, Constants DEF Counted
  <2>2. /\ UNCHANGED <<asked, metadata, served>>
        /\ \A f \in FileIds : files[f].isActive => files'[f].isActive
        /\ \A u \in Uploads : /\ sent[u] = "submitted" => sent'[u] = "submitted"
                              /\ job[u] # "none" => job'[u] # "none"
    BY <1>1, <1>3
  <2> QED
    BY <2>1, <2>2, ReadFrame
<1>9. AllowedInv'
  <2>1. \A r \in Checking : pc'[r] \in Passed => pc[r] \in Passed
    BY <1>2, Constants DEF Passed, Checking
  <2> QED
    BY <1>3, <2>1, AllowedFrame
<1>7. AuditInv'
  <2>1. \A r \in Requests : \/ pc'[r] = pc[r]
                            \/ pc[r] \notin Successes /\ pc'[r] \notin {"succeeding", "200"}
                            \/ pc[r] = "succeeding" /\ pc'[r] \in {"200", "lost"}
    BY <1>2 DEF Ended, Answers, Successes
  <2> QED
    BY <1>1, <1>3, <2>1, AuditFrame
<1>8. HandlerType'
  BY <1>1, <1>3 DEF IInv, HandlerType
<1> QED
  BY <1>4, <1>5, <1>6, <1>7, <1>8, <1>9 DEF IInv

LEMMA StutterInv == ASSUME IInv, UNCHANGED vars PROVE IInv'
<1>1. /\ UNCHANGED <<chainVars, mempool, storageVars, sent, pc, readVars, audited>>
      /\ UNCHANGED <<stored, job, todo, settled>>
  BY DEF vars, storageVars
<1>2. /\ ChainType' /\ PoolInv' /\ ActiveInv' /\ BlankInv' /\ GrantedInv'
      /\ HandlerType' /\ ReadInv' /\ AllowedInv' /\ AuditInv'
  BY <1>1, HandlersFrame
<1>3. WorkType' /\ StorageInv'
  BY <1>1, StorageFrame DEF IInv, StorageInv, OrderInv, WorkType
<1> QED
  BY <1>2, <1>3 DEF IInv

LEMMA Step == ASSUME IInv, [Next]_vars PROVE IInv'
<1>1. ASSUME NEW u \in Uploads, UploadStep(u) PROVE IInv'
  BY <1>1, ScanInv, StoreAnsweredInv, CallRegisterInv, UploadEndsInv, SubmitRegisterInv
     DEF UploadStep
<1>2. ASSUME NEW d \in Downloads, DownloadStep(d) PROVE IInv'
  BY <1>2, CheckReadInv, ReadMetadataInv, DetectInv, FetchInv, FetchAnsweredInv DEF DownloadStep
<1>3. ASSUME NEW x \in Deletes, DeleteStep(x) PROVE IInv'
  BY <1>3, CheckFullInv, DeleteBeginsInv, DeleteAnsweredInv DEF DeleteStep
<1>4. ASSUME NEW r \in Requests, Reply(r) \/ CallLost(r) PROVE IInv'
  BY <1>4, ReplyInv, CallLostInv
<1>5. ASSUME NEW r \in Work,
             StorageEnds(r) \/ \E index \in 0 .. MaxChunks - 1 : StorageStep(r, index)
      PROVE  IInv'
  BY <1>5, StorageEndsInv, StorageStepInv DEF Numbers
<1>6. ASSUME NEW f \in FileIds \ {EmptyId}, NEW user \in Addresses \ {ZeroAddress},
             Unshare(f, user) \/ \E p \in Contract!Permission : Share(f, user, p)
      PROVE  IInv'
  BY <1>6, ShareInv
<1>7. CASE Mine
  BY <1>7, MineInv
<1>8. CASE GatewayCrash
  BY <1>8, GatewayCrashInv
<1>9. CASE UNCHANGED vars
  BY <1>9, StutterInv
<1> QED
  BY <1>1, <1>2, <1>3, <1>4, <1>5, <1>6, <1>7, <1>8, <1>9 DEF Next, Work

\* The invariant is inductive.
LEMMA Inductive == Spec => []IInv
  BY InitInv, Step, PTL DEF Spec

-----------------------------------------------------------------------------

\* A file that is registered on the chain was stored to the end by the upload
\* that registered it, whose number of chunks the chain gives, and each of these
\* is in the bucket until a deletion begins, whatever calls failed, timed out or
\* were given up, and whatever other uploads came under the same id; they are
\* the upload's own when none did.
THEOREM VisibleIsStored == Spec => []RegisteredIsStored
<1>1. IInv => RegisteredIsStored
  <2> SUFFICES ASSUME IInv, NEW f \in FileIds, files[f].isActive, ~DeletionBegun(f)
               PROVE  \E u \in Uploads :
                        /\ FileOf[u] = f /\ job[u] = "ok" /\ chunkCount(f) = NumChunksOf[u]
                        /\ AllChunks(u) \subseteq Indices(stored[f])
                        /\ Alone(u) => stored[f] = ChunksOf(u)
    BY DEF RegisteredIsStored
  <2>1. PICK u \in Uploads : /\ FileOf[u] = f /\ sent[u] = "submitted"
                             /\ chunkCount(f) = NumChunksOf[u]
    BY CountIsExact
  <2>2. job[u] = "ok" /\ u \in Work
    BY <2>1, Constants DEF IInv, StorageInv, OrderInv
  <2>3. AllChunks(u) \subseteq Indices(stored[f])
    <3>1. todo[u] = {}
      BY <2>2 DEF IInv, StorageInv, FinishedInv
    <3>2. AllChunks(u) \ todo[u] \subseteq Indices(stored[f])
      BY <2>1, <2>2 DEF IInv, StorageInv, UploadInv
    <3> QED
      BY <3>1, <3>2
  <2>4. ASSUME Alone(u) PROVE stored[f] = ChunksOf(u)
    <3>1. \A c \in stored[f] : /\ c \in Pieces /\ c.by = u /\ c.index \in AllChunks(u)
      BY <2>1, <2>4 DEF Alone, IInv, WorkType, StorageInv, PartsInv, Pieces
    <3>2. \A c \in stored[f] : c = [by |-> u, index |-> c.index]
      BY <3>1 DEF Pieces
    <3>3. stored[f] \subseteq ChunksOf(u)
      BY <3>1, <3>2 DEF ChunksOf
    <3>4. ASSUME NEW i \in AllChunks(u) PROVE [by |-> u, index |-> i] \in stored[f]
      <4>1. PICK c \in stored[f] : i = c.index
        BY <2>3 DEF Indices
      <4> QED
        BY <3>2, <4>1
    <3> QED
      BY <3>3, <3>4 DEF ChunksOf
  <2> QED
    BY <2>1, <2>2, <2>3, <2>4
<1> QED
  BY <1>1, Inductive, PTL

\* Once a delete was answered with success nothing is left of the uploads that
\* had ended when it listed the chunks, and nothing of them comes back, while
\* other uploads under the same id may be at work or come later.
THEOREM DeletionIsFinal == Spec => []DeletedStaysGone
<1>1. IInv => DeletedStaysGone
  <2> SUFFICES ASSUME IInv, NEW x \in Deletes, pc[x] = "200", NEW c \in stored[FileOf[x]]
               PROVE  c.by \notin settled[x]
    BY DEF DeletedStaysGone
  <2>1. x \in Work /\ x \in Requests /\ x \notin Downloads
    BY Constants
  <2>2. job[x] = "ok"
    BY <2>1 DEF IInv, AuditInv, WorkDone
  <2>3. todo[x] = {}
    BY <2>1, <2>2 DEF IInv, StorageInv, FinishedInv
  <2> QED
    BY <2>2, <2>3 DEF IInv, StorageInv, DeleteInv
<1> QED
  BY <1>1, Inductive, PTL

\* A successful download returns as many chunks as an upload that was submitted
\* for registration has, when it could read the metadata, and the first chunk
\* alone when it could not: chunks of uploads of the file, and of that upload
\* unless another one was stored under the same id.
THEOREM WholeOrFirst == Spec => []DownloadIsWholeOrFirst
<1>1. IInv => DownloadIsWholeOrFirst
  <2> SUFFICES ASSUME IInv, NEW d \in Downloads, pc[d] = "200"
               PROVE  \E u \in Uploads :
                        /\ FileOf[u] = FileOf[d] /\ sent[u] = "submitted"
                        /\ Indices(served[d]) = IF metadata[d] = "read" THEN AllChunks(u) ELSE {0}
                        /\ \A c \in served[d] : /\ FileOf[c.by] = FileOf[d]
                                                /\ Alone(u) => c.by = u
    BY DEF DownloadIsWholeOrFirst
  <2>1. d \in Requests
    BY Constants
  <2>2. Indices(served[d]) = 0 .. asked[d] - 1 /\ metadata[d] # "unread"
    BY <2>1 DEF IInv, AuditInv, WorkDone, ReadInv, Counted
  <2>3. PICK u \in Uploads : /\ FileOf[u] = FileOf[d] /\ sent[u] = "submitted"
                             /\ asked[d] = IF metadata[d] = "read" THEN NumChunksOf[u] ELSE 1
    BY <2>2 DEF IInv, ReadInv
  <2>4. Indices(served[d]) = IF metadata[d] = "read" THEN AllChunks(u) ELSE {0}
    <3>1. CASE metadata[d] = "read"
      BY <2>2, <2>3, <3>1 DEF AllChunks
    <3>2. CASE metadata[d] # "read"
      <4>1. asked[d] = 1
        BY <2>3, <3>2
      <4>2. 0 .. 1 - 1 = {0}
        OBVIOUS
      <4>3. Indices(served[d]) = {0}
        BY <2>2, <4>1, <4>2
      <4> QED
        BY <3>2, <4>3
    <3> QED
      BY <3>1, <3>2
  <2>5. \A c \in served[d] : FileOf[c.by] = FileOf[d] /\ job[c.by] # "none" /\ c.by \in Uploads
    BY DEF IInv, ReadInv, HandlerType, Pieces
  <2>6. \A c \in served[d] : Alone(u) => c.by = u
    BY <2>3, <2>5 DEF Alone
  <2> QED
    BY <2>3, <2>4, <2>5, <2>6
<1> QED
  BY <1>1, Inductive, PTL

\* Who reads or deletes a file is the service's own account or held the
\* permission on the chain when it was checked, granted and neither revoked nor
\* lowered by then: the uploader has no other right to the file either.
THEOREM ServedWasGranted == Spec => []OnlyGranteesAreServed
<1>1. IInv => OnlyGranteesAreServed
  BY DEF IInv, AllowedInv, OnlyGranteesAreServed, Checking, Passed, Required
<1> QED
  BY <1>1, Inductive, PTL

\* An answer of success has left an entry of success in the audit log, and such
\* an entry is left only by a request whose work at the storage service is done;
\* that request is answered with success, or lost with a restart in between.
THEOREM AuditIsHonest == Spec => []AuditAgreesWithAnswer
<1>1. IInv => AuditAgreesWithAnswer
  BY DEF IInv, AuditInv, AuditAgreesWithAnswer, Successes
<1> QED
  BY <1>1, Inductive, PTL

-----------------------------------------------------------------------------
(* Type correctness: what is left are chunk lists, counts and the bounds.  *)

DataType ==
  /\ fileChunks \in [FileIds -> Seq(Chunks)]
  /\ accessLogs \in Seq(Contract!AccessLog) /\ anomalyLogIndices \in Seq(Nat)
  /\ asked \in [Downloads -> 0 .. MaxChunks]
  /\ shares \in 0 .. MaxShares

LEMMA DataTypeStart == ASSUME Init PROVE DataType
<1>1. 0 \in 0 .. MaxChunks /\ 0 \in 0 .. MaxShares
  BY GatewayAssumption
<1>2. fileChunks \in [FileIds -> Seq(Chunks)]
  BY DEF Init, Contract!Init
<1>3. accessLogs \in Seq(Contract!AccessLog) /\ anomalyLogIndices \in Seq(Nat)
  BY DEF Init, Contract!Init
<1> QED
  BY <1>1, <1>2, <1>3 DEF Init, DataType

\* A step that moves no data.
LEMMA DataFrame ==
  ASSUME DataType, UNCHANGED <<chainVars, asked, shares>>
  PROVE  DataType'
<1>1. UNCHANGED <<fileChunks, accessLogs, anomalyLogIndices>>
  BY DEF chainVars
<1> QED
  BY <1>1 DEF DataType

LEMMA UploadData ==
  ASSUME DataType, NEW u \in Uploads, UploadStep(u)
  PROVE  DataType'
  BY DataFrame
     DEF UploadStep, Scan, StoreAnswered, CallRegister, UploadEnds, SubmitRegister, readVars

LEMMA DownloadData ==
  ASSUME IInv, DataType, NEW d \in Downloads, DownloadStep(d)
  PROVE  DataType'
<1>1. CASE CheckRead(d) \/ Detect(d) \/ Fetch(d) \/ FetchAnswered(d)
  <2>1. UNCHANGED shares
    BY <1>1 DEF CheckRead, Detect, Fetch, FetchAnswered
  <2>2. UNCHANGED <<chainVars, asked>>
    BY <1>1 DEF CheckRead, Detect, Fetch, FetchAnswered, readVars
  <2> QED
    BY <2>1, <2>2, DataFrame
<1>2. CASE ReadMetadata(d)
  <2>1. chunkCount(FileOf[d]) \in 0 .. MaxChunks
    <3>1. FileOf[d] \in FileIds /\ files[FileOf[d]].isActive
      BY <1>2, Constants DEF ReadMetadata, IInv, ReadInv
    <3>2. PICK u \in Uploads : chunkCount(FileOf[d]) = NumChunksOf[u]
      BY <3>1, CountIsExact
    <3> QED
      BY <3>2, Counts
  <2>2. 1 \in 0 .. MaxChunks
    BY GatewayAssumption
  <2>3. \E n \in 0 .. MaxChunks : asked' = asked \/ asked' = [asked EXCEPT ![d] = n]
    BY <1>2, <2>1, <2>2 DEF ReadMetadata
  <2>4. asked' \in [Downloads -> 0 .. MaxChunks]
    BY <2>3 DEF DataType
  <2>5. UNCHANGED <<fileChunks, accessLogs, anomalyLogIndices, shares>>
    BY <1>2 DEF ReadMetadata, chainVars
  <2> QED
    BY <2>4, <2>5 DEF DataType
<1> QED
  BY <1>1, <1>2 DEF DownloadStep

LEMMA DeleteData ==
  ASSUME DataType, NEW x \in Deletes, DeleteStep(x)
  PROVE  DataType'
  BY DataFrame DEF DeleteStep, CheckFull, DeleteBegins, DeleteAnswered, readVars

LEMMA StorageData ==
  ASSUME DataType, NEW r, NEW index, StorageStep(r, index) \/ StorageEnds(r)
  PROVE  DataType'
  BY DataFrame DEF StorageStep, StorageEnds, readVars

LEMMA SharesType ==
  ASSUME DataType, shares < MaxShares, shares' = shares + 1
  PROVE  shares' \in 0 .. MaxShares
  BY GatewayAssumption DEF DataType

LEMMA ShareData ==
  ASSUME DataType, NEW f, NEW user, Unshare(f, user) \/ \E p \in Contract!Permission : Share(f, user, p)
  PROVE  DataType'
<1>1. shares' \in 0 .. MaxShares
  BY SharesType DEF Share, Unshare
<1>2. UNCHANGED <<fileChunks, accessLogs, anomalyLogIndices, asked>>
  BY DEF Share, Unshare, chainVars, readVars
<1> QED
  BY <1>1, <1>2 DEF DataType

\* Only a registration writes chunk lists, and nothing logs an access.
LEMMA MineData == ASSUME IInv, DataType, Mine PROVE DataType'
<1> DEFINE tx == Head(mempool)
<1>1. UNCHANGED <<asked, shares>>
  BY DEF Mine, readVars
<1>2. tx \in Txs
  BY DEF Mine, IInv, PoolInv
<1>3. CASE UNCHANGED chainVars
  BY <1>1, <1>3, DataFrame
<1>4. ASSUME NEW u \in Uploads, tx = Registration(u), Execute(tx) PROVE DataType'
  <2>1. Contract!registerFile(Service, FileOf[u], descriptors(u))
    <3>1. tx.op = "register" /\ tx.file = FileOf[u] /\ tx.chunks = descriptors(u)
      BY <1>4 DEF Registration
    <3> QED
      BY <1>4, <3>1 DEF Execute
  <2>2. /\ fileChunks' = [fileChunks EXCEPT ![FileOf[u]] = @ \o descriptors(u)]
        /\ UNCHANGED <<accessLogs, anomalyLogIndices>>
    BY <2>1 DEF Contract!registerFile, Contract!logVars
  <2>3. fileChunks[FileOf[u]] \o descriptors(u) \in Seq(Chunks)
    BY Constants, Counts DEF DataType
  <2>4. fileChunks' \in [FileIds -> Seq(Chunks)]
    BY <2>2, <2>3 DEF DataType
  <2> QED
    BY <1>1, <2>2, <2>4 DEF DataType
<1>5. CASE tx \in Grants \cup Revocations /\ Execute(tx)
  <2>1. tx.op \in {"grant", "revoke"}
    BY <1>5 DEF Grants, Revocations
  <2>2. UNCHANGED <<fileChunks, accessLogs, anomalyLogIndices>>
    BY <1>5, <2>1 DEF Execute, Contract!grantAccess, Contract!revokeAccess, Contract!logVars
  <2> QED
    BY <1>1, <2>2 DEF DataType
<1> QED
  BY <1>2, <1>3, <1>4, <1>5 DEF Mine, Txs

LEMMA DataTypeStep == ASSUME IInv, DataType, [Next]_vars PROVE DataType'
<1>1. ASSUME NEW r \in Requests, Reply(r) \/ CallLost(r) PROVE DataType'
  BY <1>1, DataFrame DEF Reply, CallLost, readVars
<1>2. CASE GatewayCrash
  BY <1>2, DataFrame DEF GatewayCrash, readVars
<1>3. CASE UNCHANGED vars
  BY <1>3, DataFrame DEF vars, readVars
<1> QED
  BY <1>1, <1>2, <1>3, UploadData, DownloadData, DeleteData, StorageData, ShareData, MineData DEF Next

\* The contract's state and the gateway's keep their types: no pool entry, chunk
\* list or count is out of what an upload can have.
THEOREM Typing == Spec => []TypeOK
<1> DEFINE Inv == IInv /\ DataType
<1>1. Init => Inv
  BY InitInv, DataTypeStart
<1>2. Inv /\ [Next]_vars => Inv'
  BY Step, DataTypeStep
<1>3. Inv => TypeOK
  <2> SUFFICES ASSUME IInv, DataType PROVE TypeOK
    OBVIOUS
  <2>1. Contract!TypeOK
    BY DEF IInv, ChainType, DataType, Contract!TypeOK
  <2>2. Txs \subseteq Transactions
    <3>1. \A u \in Uploads : Registration(u) \in Transactions
      BY Constants, Counts DEF Registration, Transactions
    <3>2. Grants \cup Revocations \subseteq Transactions
      BY DEF Grants, Revocations, Transactions
    <3> QED
      BY <3>1, <3>2 DEF Txs
  <2>3. mempool \in Seq(Transactions)
    BY <2>2 DEF IInv, PoolInv
  <2>4. checked \in [Checking -> 0 .. Len(events)]
    BY DEF IInv, HandlerType, AllowedInv, ChainType
  <2> QED
    BY <2>1, <2>3, <2>4
       DEF TypeOK, IInv, WorkType, HandlerType, DataType, Work, Checking, PCs, Jobs, Numbers
<1> QED
  BY <1>1, <1>2, <1>3, PTL DEF Spec
=============================================================================
