---------------------------- MODULE StorageService ----------------------------
(***************************************************************************)
(* The chunk store of backend/storage_service.py.  An upload splits the    *)
(* file, encrypts each chunk under the password and puts the chunks into   *)
(* the bucket from a thread pool; a download gets and decrypts them from   *)
(* a pool of its own and joins them in order; a delete lists the objects   *)
(* of a file and removes them one by one.  Nothing is locked: requests     *)
(* interleave at every object operation.                                   *)
(*                                                                         *)
(* The file of a request and the password and size of an upload are        *)
(* constants of the request, so the configurations choose which requests   *)
(* meet; a download asks for any number of chunks under any password.      *)
(* Downloads write nothing the others read.  The bytes of chunk i          *)
(* are the interval of positions it covers; AES-GCM and the key derivation *)
(* are the test that the passwords agree, since decryption under another   *)
(* key fails its tag.  MinIO is external: an object operation succeeds or  *)
(* fails after the client's retries.                                       *)
(***************************************************************************)
EXTENDS Integers, Sequences, FiniteSets

CONSTANTS
  Uploads, Downloads, Deletes,  \* the requests
  FileOf,      \* the file id in a request
  Passwords,
  PasswordOf,  \* the password in an upload
  SizeOf,      \* the length of an upload's data
  ChunkSize,   \* CHUNK_SIZE (10 MB in the code)
  PoolSize,    \* the largest pool (8 in the code)
  MaxChunks,   \* _MAX_CHUNKS (10,000 in the code)
  MaxFailures, \* bound: object operations that fail
  MaxCrashes   \* bound: restarts of the service

Requests == Uploads \cup Downloads \cup Deletes

ASSUME StorageAssumption ==
  /\ Uploads \cap Downloads = {} /\ Uploads \cap Deletes = {} /\ Downloads \cap Deletes = {}
  /\ PasswordOf \in [Uploads -> Passwords]
  /\ SizeOf \in [Uploads -> Nat]
  /\ ChunkSize \in Nat \ {0}
  /\ PoolSize \in Nat \ {0}
  /\ MaxChunks \in Nat \ {0}
  /\ MaxFailures \in Nat
  /\ MaxCrashes \in Nat

VARIABLES
  bucket,    \* the objects in the bucket
  pc,        \* where each request is, or how it was answered
  asked,     \* num_chunks and the password of a download
  task,      \* [request -> [chunk index -> state of its task in the pool]]
  fetched,   \* chunks a download has decrypted, in the order they arrived
  listed,    \* chunk indices a delete still has to remove
  failures,
  crashes,
  quiet      \* history: the delete started when no upload of its file could run

vars == <<bucket, pc, asked, task, fetched, listed, failures, crashes, quiet>>

-----------------------------------------------------------------------------
(* Splitting a file.                                                       *)

CeilDiv(a, b) == (a + b - 1) \div b

\* An empty file is one empty chunk.
NumChunks(size) == IF size = 0 THEN 1 ELSE CeilDiv(size, ChunkSize)

\* The bytes from .. to - 1 of an upload, under its password.
Chunk_OneBased(u, i) ==
  [upload |-> u, from |-> (i - 1) * ChunkSize, to |-> i * ChunkSize]
Chunk(u, i) ==
  [upload |-> u,
   from   |-> i * ChunkSize,
   to     |-> IF (i + 1) * ChunkSize > SizeOf[u] THEN SizeOf[u] ELSE (i + 1) * ChunkSize]

Object(f, i, data) == [file |-> f, index |-> i, data |-> data]
Stored(f, i) == {o \in bucket : o.file = f /\ o.index = i}
StoredIndices(f) == {o.index : o \in {b \in bucket : b.file = f}}

Put(u, i) == (bucket \ Stored(FileOf[u], i)) \cup {Object(FileOf[u], i, Chunk(u, i))}

-----------------------------------------------------------------------------

Unsuccessful == {"missing", "failed"}
Answers == {"200", "400", "404", "500"}
Ended == Answers \cup {"lost"}

AllIndices == 0 .. MaxChunks - 1

Init ==
  /\ bucket = {}
  /\ pc = [r \in Requests |-> "idle"]
  /\ asked \in [Downloads -> [chunks : 0 .. MaxChunks, password : Passwords]]
  /\ task = [r \in Uploads \cup Downloads |-> [i \in AllIndices |-> "none"]]
  /\ fetched = [d \in Downloads |-> <<>>]
  /\ listed = [x \in Deletes |-> {}]
  /\ failures = 0
  /\ crashes = 0
  /\ quiet = [x \in Deletes |-> FALSE]

-----------------------------------------------------------------------------
(* The pool of one request: pool.map over the chunk indices.               *)

Pending(r) == {i \in AllIndices : task[r][i] = "waiting"}
Before(r, i) == {j \in Pending(r) : j < i}

\* The workers take the tasks in index order, at most PoolSize at a time.
Running_SlotsLeak(r, i) ==
  /\ pc[r] = "working"
  /\ i \in Pending(r)
  /\ Cardinality(Before(r, i))
       + Cardinality({j \in AllIndices : task[r][j] \in Unsuccessful}) < PoolSize
Running(r, i) ==
  /\ pc[r] = "working"
  /\ i \in Pending(r)
  /\ Cardinality(Before(r, i)) < PoolSize

Finish(r, i, result) == task' = [task EXCEPT ![r][i] = result]

Tasks(r) == {i \in AllIndices : task[r][i] # "none"}
AllDone(r) == \A i \in Tasks(r) : task[r][i] = "done"
\* The results are read in index order; the first error read ends the reading.
FirstError(r, i) ==
  /\ task[r][i] \in Unsuccessful
  /\ \A j \in Tasks(r) : j < i => task[r][j] = "done"

\* Then the tasks no worker has started are cancelled.
CancelRest(r) ==
  /\ pc[r] = "working"
  /\ \E i \in Tasks(r) : FirstError(r, i)
  /\ \E started \in 0 .. PoolSize :
       LET dropped == {i \in Pending(r) : Cardinality(Before(r, i)) >= started}
       IN /\ dropped # {}
          /\ task' = [task EXCEPT ![r] =
                        [i \in AllIndices |-> IF i \in dropped THEN "cancelled" ELSE @[i]]]
  /\ UNCHANGED <<bucket, pc, asked, fetched, listed, failures, crashes, quiet>>

Fails == failures < MaxFailures /\ failures' = failures + 1

-----------------------------------------------------------------------------
(* upload_file                                                             *)

StartUpload(u) ==
  /\ pc[u] = "idle"
  /\ pc' = [pc EXCEPT ![u] = "working"]
  /\ task' = [task EXCEPT ![u] =
                [i \in AllIndices |-> IF i < NumChunks(SizeOf[u]) THEN "waiting" ELSE "none"]]
  /\ UNCHANGED <<bucket, asked, fetched, listed, failures, crashes, quiet>>

PutChunk(u, i) ==
  /\ Running(u, i)
  /\ bucket' = Put(u, i)
  /\ Finish(u, i, "done")
  /\ UNCHANGED <<pc, asked, fetched, listed, failures, crashes, quiet>>

\* put_object raises; the object may be there all the same.
PutFails(u, i) ==
  /\ Running(u, i)
  /\ Fails
  /\ bucket' \in {bucket, Put(u, i)}
  /\ Finish(u, i, "failed")
  /\ UNCHANGED <<pc, asked, fetched, listed, crashes, quiet>>

uploadAnswer_LastChunk(u) ==
  IF task[u][NumChunks(SizeOf[u]) - 1] = "done" THEN "200" ELSE "500"
uploadAnswer(u) == IF AllDone(u) THEN "200" ELSE "500"

EndUpload(u) ==
  /\ pc[u] = "working"
  /\ Pending(u) = {}
  /\ pc' = [pc EXCEPT ![u] = uploadAnswer(u)]
  /\ UNCHANGED <<bucket, asked, task, fetched, listed, failures, crashes, quiet>>

-----------------------------------------------------------------------------
(* download_file                                                           *)

StartDownload(d) ==
  /\ pc[d] = "idle"
  /\ task' = [task EXCEPT ![d] =
                [i \in AllIndices |-> IF i < asked[d].chunks THEN "waiting" ELSE "none"]]
  /\ pc' = [pc EXCEPT ![d] = "working"]
  /\ UNCHANGED <<bucket, asked, fetched, listed, failures, crashes, quiet>>

decrypts(d, o) == PasswordOf[o.data.upload] = asked[d].password

\* get_object and decrypt_chunk
FetchChunk(d, i) ==
  /\ Running(d, i)
  /\ IF Stored(FileOf[d], i) = {}
     THEN Finish(d, i, "missing") /\ UNCHANGED fetched
     ELSE \E o \in Stored(FileOf[d], i) :
            IF decrypts(d, o)
            THEN /\ Finish(d, i, "done")
                 /\ fetched' = [fetched EXCEPT ![d] =
                                  Append(@, [index |-> i, data |-> o.data])]
            ELSE Finish(d, i, "failed") /\ UNCHANGED fetched
  /\ UNCHANGED <<bucket, pc, asked, listed, failures, crashes, quiet>>

\* get_object raises: an S3Error, or an error of the connection.
FetchFails(d, i) ==
  /\ Running(d, i)
  /\ Fails
  /\ \E result \in Unsuccessful : Finish(d, i, result)
  /\ UNCHANGED <<bucket, pc, asked, fetched, listed, crashes, quiet>>

downloadAnswer(d) ==
  IF AllDone(d) THEN "200"
  ELSE IF \E i \in Tasks(d) : FirstError(d, i) /\ task[d][i] = "missing" THEN "404" ELSE "400"

EndDownload(d) ==
  /\ pc[d] = "working"
  /\ Pending(d) = {}
  /\ pc' = [pc EXCEPT ![d] = downloadAnswer(d)]
  /\ UNCHANGED <<bucket, asked, task, fetched, listed, failures, crashes, quiet>>

\* The list pool.map returns, position k for chunk k - 1.
Joined_AsCompleted(d) == [k \in 1 .. Len(fetched[d]) |-> fetched[d][k].data]
Joined(d) ==
  [k \in 1 .. Len(fetched[d]) |->
     (CHOOSE e \in {fetched[d][j] : j \in DOMAIN fetched[d]} : e.index = k - 1).data]

-----------------------------------------------------------------------------
(* delete_file                                                             *)

ListObjects(x) ==
  /\ pc[x] = "idle"
  /\ pc' = [pc EXCEPT ![x] = "working"]
  /\ listed' = [listed EXCEPT ![x] = StoredIndices(FileOf[x])]
  /\ quiet' = [quiet EXCEPT ![x] =
                 \A u \in Uploads : FileOf[u] = FileOf[x] => pc[u] \in Ended]
  /\ UNCHANGED <<bucket, asked, task, fetched, failures, crashes>>

First(s) == CHOOSE i \in s : \A j \in s : i <= j

RemoveObject(x) ==
  /\ pc[x] = "working"
  /\ listed[x] # {}
  /\ bucket' = bucket \ Stored(FileOf[x], First(listed[x]))
  /\ listed' = [listed EXCEPT ![x] = @ \ {First(@)}]
  /\ UNCHANGED <<pc, asked, task, fetched, failures, crashes, quiet>>

\* list_objects or remove_object raises: the objects after it stay.
failedDelete_SkipObject(x) ==
  /\ listed[x] # {}
  /\ listed' = [listed EXCEPT ![x] = @ \ {First(@)}]
  /\ UNCHANGED pc
failedDelete(x) ==
  /\ pc' = [pc EXCEPT ![x] = "500"]
  /\ UNCHANGED listed

RemoveFails(x) ==
  /\ pc[x] = "working"
  /\ Fails
  /\ failedDelete(x)
  /\ UNCHANGED <<bucket, asked, task, fetched, crashes, quiet>>

EndDelete(x) ==
  /\ pc[x] = "working"
  /\ listed[x] = {}
  /\ pc' = [pc EXCEPT ![x] = "200"]
  /\ UNCHANGED <<bucket, asked, task, fetched, listed, failures, crashes, quiet>>

-----------------------------------------------------------------------------

\* The container restarts: the requests are lost, the bucket is not.
Crash ==
  /\ crashes < MaxCrashes
  /\ crashes' = crashes + 1
  /\ pc' = [r \in Requests |-> IF pc[r] = "working" THEN "lost" ELSE pc[r]]
  /\ UNCHANGED <<bucket, asked, task, fetched, listed, failures, quiet>>

UploadStep(u) ==
  \/ EndUpload(u)
  \/ \E i \in AllIndices : PutChunk(u, i) \/ PutFails(u, i)
DownloadStep(d) ==
  \/ EndDownload(d)
  \/ \E i \in AllIndices : FetchChunk(d, i) \/ FetchFails(d, i)
DeleteStep(x) == RemoveObject(x) \/ RemoveFails(x) \/ EndDelete(x)

Finished == (\A r \in Requests : pc[r] \in Ended) /\ UNCHANGED vars

Next ==
  \/ \E u \in Uploads : StartUpload(u) \/ UploadStep(u)
  \/ \E d \in Downloads : StartDownload(d) \/ DownloadStep(d)
  \/ \E r \in Uploads \cup Downloads : CancelRest(r)
  \/ \E x \in Deletes : ListObjects(x) \/ DeleteStep(x)
  \/ Crash
  \/ Finished

Spec == Init /\ [][Next]_vars

\* A thread at work is not stopped for ever: every object operation has a
\* timeout and a bounded number of retries.
FairSpec ==
  /\ Spec
  /\ \A u \in Uploads : WF_vars(UploadStep(u))
  /\ \A d \in Downloads : WF_vars(DownloadStep(d))
  /\ \A x \in Deletes : WF_vars(DeleteStep(x))

-----------------------------------------------------------------------------
(* Properties.                                                             *)

TaskStates == {"none", "waiting", "done", "cancelled"} \cup Unsuccessful
Data == [upload : Uploads, from : Nat, to : Nat]

TypeOK ==
  /\ \A o \in bucket : o.index \in AllIndices /\ o.data \in Data
  /\ pc \in [Requests -> {"idle", "working"} \cup Ended]
  /\ asked \in [Downloads -> [chunks : 0 .. MaxChunks, password : Passwords]]
  /\ task \in [Uploads \cup Downloads -> [AllIndices -> TaskStates]]
  /\ \A d \in Downloads : fetched[d] \in Seq([index : AllIndices, data : Data])
  /\ listed \in [Deletes -> SUBSET AllIndices]
  /\ failures \in 0 .. MaxFailures
  /\ crashes \in 0 .. MaxCrashes
  /\ quiet \in [Deletes -> BOOLEAN]

\* The gateway names every upload afresh (uuid4).
FreshIds == \A u, v \in Uploads : u # v => FileOf[u] # FileOf[v]

\* A sequence of chunks that covers the bytes 0 .. upTo of an upload, each once.
Covers(chunks, u, upTo) ==
  /\ \A k \in DOMAIN chunks : /\ chunks[k].upload = u
                              /\ chunks[k].from = IF k = 1 THEN 0 ELSE chunks[k - 1].to
  /\ upTo = IF chunks = <<>> THEN 0 ELSE chunks[Len(chunks)].to

\* However the chunks arrive, and whatever is uploaded or deleted meanwhile,
\* a download that succeeds returns a stretch of one upload's bytes from its
\* start, without a gap or a byte out of place; asked for all its chunks, the
\* whole file; and only under the password of the upload.
DownloadsAreExact == FreshIds =>
  \A d \in Downloads : pc[d] = "200" /\ asked[d].chunks > 0 =>
    \E u \in Uploads :
      /\ FileOf[u] = FileOf[d]
      /\ PasswordOf[u] = asked[d].password
      /\ Len(Joined(d)) = asked[d].chunks
      /\ asked[d].chunks <= NumChunks(SizeOf[u])
      /\ \E upTo \in 0 .. SizeOf[u] :
           /\ Covers(Joined(d), u, upTo)
           /\ asked[d].chunks = NumChunks(SizeOf[u]) => upTo = SizeOf[u]

-----------------------------------------------------------------------------
(* What the service promises: FileStore.                                   *)

Files == {FileOf[r] : r \in Requests}

UploadOf(f) == CHOOSE u \in Uploads : FileOf[u] = f

Whole == [f \in Files |->
            IF \E u \in Uploads : FileOf[u] = f
            THEN [k \in 1 .. NumChunks(SizeOf[UploadOf(f)]) |-> Chunk(UploadOf(f), k - 1)]
            ELSE <<>>]

DeletesOf(f) == {x \in Deletes : FileOf[x] = f}

phase == [f \in Files |->
  IF \E x \in DeletesOf(f) : pc[x] = "200" /\ quiet[x] THEN "gone"
  ELSE IF \E x \in DeletesOf(f) : pc[x] # "idle" THEN "deleting"
  ELSE IF \E u \in Uploads : FileOf[u] = f /\ pc[u] = "200" THEN "stored"
  ELSE "none"]

content == [f \in Files |-> {o.data : o \in {p \in bucket : p.file = f}}]

got == [d \in Downloads |-> {fetched[d][j].data : j \in DOMAIN fetched[d]}]

answer == [d \in Downloads |->
  IF pc[d] = "200" THEN "served" ELSE IF pc[d] \in Ended THEN "refused" ELSE "open"]

FS == INSTANCE FileStore WITH
        Readers <- Downloads, FileRead <- [d \in Downloads |-> FileOf[d]]

\* The service implements FileStore when ids are fresh: an upload answered with
\* success has every chunk in the bucket until a delete starts, whichever puts
\* failed or were slow; a delete answered with success that no upload could
\* cross leaves nothing behind, also no orphan of a failed upload or of an
\* earlier failed delete, and the file never comes back; a download returns the
\* chunks from the first on, without a gap.
ImplementsFileStore == FS!Spec

\* Every request is answered, or lost in a restart, whatever fails.
EveryRequestEnds == \A r \in Requests : pc[r] = "working" ~> pc[r] \in Ended
=============================================================================
