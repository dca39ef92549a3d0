-------------------------- MODULE StorageServiceProofs --------------------------
(***************************************************************************)
(* That the storage service implements FileStore and that its downloads    *)
(* are exact, for any number of uploads, downloads and deletes, any pool,  *)
(* chunk and file size, and any number of failures and restarts, as long   *)
(* as every upload has an id of its own and no file has more chunks than a *)
(* download may ask for.                                                   *)
(***************************************************************************)
EXTENDS StorageService, FiniteSetTheorems, TLAPS

\* An upload larger than that could not be downloaded again.
Fits == \A u \in Uploads : NumChunks(SizeOf[u]) <= MaxChunks

Size(u) == NumChunks(SizeOf[u])

-----------------------------------------------------------------------------
(* The inductive invariant.                                                *)

PcType == pc \in [Requests -> {"idle", "working"} \cup Ended]

TaskType == task \in [Uploads \cup Downloads -> [AllIndices -> TaskStates]]

AskedType == asked \in [Downloads -> [chunks : 0 .. MaxChunks, password : Passwords]]

ListedType == listed \in [Deletes -> SUBSET AllIndices]

QuietType == quiet \in [Deletes -> BOOLEAN]

FetchedType ==
  /\ fetched = [d \in Downloads |-> fetched[d]]
  /\ \A d \in Downloads : fetched[d] \in Seq([index : AllIndices, data : Data])

Types == PcType /\ TaskType /\ AskedType /\ ListedType /\ QuietType /\ FetchedType

\* An object is a chunk of an upload that has begun, under its own index.
BucketInv == \A o \in bucket :
  \E u \in Uploads : /\ o.index \in AllIndices /\ o.index < Size(u)
                     /\ o = Object(FileOf[u], o.index, Chunk(u, o.index))

\* The tasks of an upload are those of its chunks, and of a download those asked for.
UploadTasks == \A u \in Uploads : \A i \in AllIndices :
  /\ pc[u] = "idle" => task[u][i] = "none"
  /\ pc[u] # "idle" => (task[u][i] # "none" <=> i < Size(u))
DownloadTasks == \A d \in Downloads : \A i \in AllIndices :
  /\ pc[d] = "idle" => task[d][i] = "none"
  /\ pc[d] # "idle" => (task[d][i] # "none" <=> i < asked[d].chunks)

\* What an upload has put stays in the bucket until a delete of the file starts.
Asked(f) == \E x \in DeletesOf(f) : pc[x] # "idle"
Kept == \A u \in Uploads : ~ Asked(FileOf[u]) =>
  \A i \in AllIndices :
    task[u][i] = "done" => Object(FileOf[u], i, Chunk(u, i)) \in bucket

\* A delete that no upload can cross has listed every object that is left.
QuietUploads == \A x \in Deletes : pc[x] # "idle" /\ quiet[x] =>
  \A u \in Uploads : FileOf[u] = FileOf[x] => pc[u] \in Ended
QuietListed == \A x \in Deletes : pc[x] = "working" /\ quiet[x] =>
  \A o \in bucket : o.file = FileOf[x] => o.index \in listed[x]
QuietGone == \A x \in Deletes : pc[x] = "200" /\ quiet[x] =>
  \A o \in bucket : o.file # FileOf[x]

\* A download has collected the chunks of the tasks that are done.
DoneTasks(d) == {i \in AllIndices : task[d][i] = "done"}
GotInv == \A d \in Downloads :
  /\ got[d] = {Chunk(UploadOf(FileOf[d]), i) : i \in DoneTasks(d)}
  /\ DoneTasks(d) # {} => \E u \in Uploads : FileOf[u] = FileOf[d]
  /\ \A i \in DoneTasks(d) : i < Size(UploadOf(FileOf[d]))

IInv ==
  /\ Types
  /\ BucketInv
  /\ UploadTasks
  /\ DownloadTasks
  /\ Kept
  /\ QuietUploads
  /\ QuietListed
  /\ QuietGone
  /\ GotInv

-----------------------------------------------------------------------------
(* Files, chunks and objects.                                              *)

\* With fresh ids a file has one upload.
LEMMA OneUpload ==
  ASSUME FreshIds, NEW u \in Uploads
  PROVE  UploadOf(FileOf[u]) = u
  BY DEF FreshIds, UploadOf

LEMMA SizesAreNat ==
  ASSUME NEW u \in Uploads
  PROVE  SizeOf[u] \in Nat /\ Size(u) \in Nat \ {0}
<1>1. SizeOf[u] \in Nat /\ ChunkSize \in Nat \ {0}
  BY StorageAssumption
<1>2. SizeOf[u] # 0 => SizeOf[u] + ChunkSize - 1 >= ChunkSize
  BY <1>1
<1>3. SizeOf[u] # 0 => (SizeOf[u] + ChunkSize - 1) \div ChunkSize \in Nat \ {0}
  BY <1>1, <1>2
<1> QED
  BY <1>1, <1>3 DEF Size, NumChunks, CeilDiv

LEMMA ChunkIsData ==
  ASSUME NEW u \in Uploads, NEW i \in Nat
  PROVE  Chunk(u, i) \in Data
<1>1. ChunkSize \in Nat /\ SizeOf[u] \in Nat
  BY StorageAssumption
<1>2. i * ChunkSize \in Nat /\ (i + 1) * ChunkSize \in Nat
  BY <1>1
<1> QED
  BY <1>1, <1>2 DEF Chunk, Data

\* Two chunks of an upload never start at the same byte.
LEMMA ChunksDiffer ==
  ASSUME NEW u \in Uploads, NEW i \in Nat, NEW j \in Nat, Chunk(u, i) = Chunk(u, j)
  PROVE  i = j
<1>1. ChunkSize \in Nat /\ ChunkSize > 0
  BY StorageAssumption
<1>2. i * ChunkSize = j * ChunkSize
  BY DEF Chunk
<1>3. ASSUME NEW a \in Nat, NEW b \in Nat, a < b PROVE a * ChunkSize # b * ChunkSize
  <2>1. PICK k \in Nat : b = a + k /\ k >= 1
    <3>1. b - a \in Nat /\ b = a + (b - a) /\ b - a >= 1
      BY <1>3
    <3> QED
      BY <3>1
  <2>2. b * ChunkSize = a * ChunkSize + k * ChunkSize
    BY <1>1, <2>1
  <2>3. k * ChunkSize > 0 /\ a * ChunkSize \in Nat /\ k * ChunkSize \in Nat
    BY <1>1, <2>1
  <2> QED
    BY <2>2, <2>3
<1> QED
  BY <1>2, <1>3

LEMMA IndicesAreNat == AllIndices \subseteq Nat
  BY StorageAssumption DEF AllIndices

-----------------------------------------------------------------------------
(* What FileStore sees.                                                    *)

Gone(f) == \E x \in DeletesOf(f) : pc[x] = "200" /\ quiet[x]
Answered(f) == \E u \in Uploads : FileOf[u] = f /\ pc[u] = "200"

\* The phase depends on the uploads and the deletes only.
LEMMA SamePhase ==
  ASSUME \A x \in Deletes : (pc'[x] = "200" <=> pc[x] = "200") /\ (pc'[x] = "idle" <=> pc[x] = "idle"),
         \A u \in Uploads : pc'[u] = "200" <=> pc[u] = "200",
         quiet' = quiet
  PROVE  phase' = phase
<1>1. ASSUME NEW f \in Files
      PROVE  /\ (\E x \in DeletesOf(f) : pc'[x] = "200" /\ quiet'[x])
                  <=> (\E x \in DeletesOf(f) : pc[x] = "200" /\ quiet[x])
             /\ (\E x \in DeletesOf(f) : pc'[x] # "idle") <=> (\E x \in DeletesOf(f) : pc[x] # "idle")
             /\ (\E u \in Uploads : FileOf[u] = f /\ pc'[u] = "200")
                  <=> (\E u \in Uploads : FileOf[u] = f /\ pc[u] = "200")
  BY DEF DeletesOf
<1> QED
  BY <1>1, Zenon DEF phase

LEMMA SameAnswer ==
  ASSUME \A d \in Downloads : pc'[d] = pc[d] \/ {pc[d], pc'[d]} \cap Ended = {}
  PROVE  answer' = answer
  BY DEF answer, Ended, Answers

LEMMA SameGot == ASSUME fetched' = fetched PROVE got' = got
  BY DEF got

LEMMA SameContent == ASSUME bucket' = bucket PROVE content' = content
  BY DEF content

LEMMA Disjoint ==
  /\ \A u \in Uploads : u \notin Downloads /\ u \notin Deletes /\ u \in Requests
  /\ \A d \in Downloads : d \notin Uploads /\ d \notin Deletes /\ d \in Requests
  /\ \A x \in Deletes : x \notin Uploads /\ x \notin Downloads /\ x \in Requests
  BY StorageAssumption DEF Requests

-----------------------------------------------------------------------------
(* Parts of the invariant a step does not touch.                           *)

LEMMA GotFrame ==
  ASSUME GotInv, fetched' = fetched, \A d \in Downloads : DoneTasks(d)' = DoneTasks(d)
  PROVE  GotInv'
<1>1. got' = got
  BY SameGot
<1> QED
  BY <1>1 DEF GotInv

\* Neither what the deletes did nor the bucket changes.
LEMMA QuietFrame ==
  ASSUME QuietListed, QuietGone, \A x \in Deletes : pc'[x] = pc[x], bucket' = bucket,
         listed' = listed, quiet' = quiet
  PROVE  QuietListed' /\ QuietGone'
  BY DEF QuietListed, QuietGone

LEMMA QuietUploadsFrame ==
  ASSUME QuietUploads, \A x \in Deletes : pc'[x] = "idle" <=> pc[x] = "idle", quiet' = quiet,
         \A u \in Uploads : pc'[u] \in Ended \/ pc'[u] = pc[u]
                            \/ pc[u] \notin Ended
  PROVE  QuietUploads'
  BY DEF QuietUploads

-----------------------------------------------------------------------------
(* Uploads.                                                                *)

LEMMA StartUploadStep ==
  ASSUME FreshIds, IInv, NEW u \in Uploads, StartUpload(u)
  PROVE  IInv' /\ UNCHANGED FS!vars
<1>1. /\ pc' = [pc EXCEPT ![u] = "working"] /\ pc[u] = "idle"
      /\ UNCHANGED <<bucket, asked, fetched, listed, quiet>>
  BY DEF StartUpload
<1>2. /\ pc'[u] = "working"
      /\ \A r \in Requests \ {u} : pc'[r] = pc[r]
  BY <1>1, Disjoint DEF IInv, Types, PcType
<1>3. /\ \A i \in AllIndices : task'[u][i] = IF i < Size(u) THEN "waiting" ELSE "none"
      /\ \A r \in (Uploads \cup Downloads) \ {u} : task'[r] = task[r]
  BY DEF StartUpload, IInv, Types, TaskType, Size
<1>4. \A d \in Downloads : d # u /\ pc'[d] = pc[d] /\ task'[d] = task[d]
  BY <1>2, <1>3, Disjoint
<1>5. \A x \in Deletes : x # u /\ pc'[x] = pc[x]
  BY <1>2, Disjoint
<1>6. Types'
  <2>1. PcType'
    BY <1>1 DEF IInv, Types, PcType
  <2>2. TaskType'
    BY DEF StartUpload, IInv, Types, TaskType, TaskStates
  <2> QED
    BY <1>1, <2>1, <2>2
       DEF IInv, Types, AskedType, ListedType, QuietType, FetchedType
<1>7. BucketInv'
  BY <1>1 DEF IInv, BucketInv
<1>8. UploadTasks'
  BY <1>2, <1>3, Disjoint DEF IInv, UploadTasks
<1>9. DownloadTasks'
  BY <1>1, <1>4 DEF IInv, DownloadTasks
<1>10. Kept'
  <2>1. ASSUME NEW f, Asked(f) PROVE Asked(f)'
    BY <1>5, <2>1 DEF Asked, DeletesOf
  <2>2. \A v \in Uploads : \A i \in AllIndices : task'[v][i] = "done" => task[v][i] = "done"
    BY <1>3
  <2> QED
    BY <1>1, <2>1, <2>2 DEF IInv, Kept
<1>11. QuietUploads'
  BY <1>1, <1>2, <1>5, Disjoint DEF IInv, QuietUploads, Ended, Answers
<1>12. QuietListed' /\ QuietGone'
  BY <1>1, <1>5, QuietFrame DEF IInv
<1>13. GotInv'
  <2>1. \A d \in Downloads : DoneTasks(d)' = DoneTasks(d)
    BY <1>4 DEF DoneTasks
  <2> QED
    BY <1>1, <2>1, GotFrame DEF IInv
<1>14. phase' = phase
  BY <1>1, <1>2, <1>5, Disjoint, SamePhase
<1>15. answer' = answer /\ got' = got /\ content' = content
  BY <1>1, <1>4, SameAnswer, SameGot, SameContent
<1> QED
  BY <1>6, <1>7, <1>8, <1>9, <1>10, <1>11, <1>12, <1>13, <1>14, <1>15 DEF IInv, FS!vars

\* The pieces FileStore gives a file are the chunks of its upload.
LEMMA PiecesAreChunks ==
  ASSUME FreshIds, NEW u \in Uploads
  PROVE  /\ FileOf[u] \in Files
         /\ Whole[FileOf[u]] = [k \in 1 .. Size(u) |-> Chunk(u, k - 1)]
         /\ \A i \in Nat : i < Size(u) => Chunk(u, i) \in FS!Pieces(FileOf[u])
         /\ \A p \in FS!Pieces(FileOf[u]) : \E i \in Nat : i < Size(u) /\ p = Chunk(u, i)
<1>1. FileOf[u] \in Files
  BY DEF Files, Requests
<1>2. Whole[FileOf[u]] = [k \in 1 .. Size(u) |-> Chunk(u, k - 1)]
  BY <1>1, OneUpload DEF Whole, Size
<1>3. Size(u) \in Nat
  BY SizesAreNat
<1>4. ASSUME NEW i \in Nat, i < Size(u) PROVE Chunk(u, i) \in FS!Pieces(FileOf[u])
  <2>1. i + 1 \in 1 .. Size(u) /\ (i + 1) - 1 = i
    BY <1>3, <1>4
  <2>2. Whole[FileOf[u]][i + 1] = Chunk(u, i) /\ i + 1 \in DOMAIN Whole[FileOf[u]]
    BY <1>2, <2>1
  <2> QED
    BY <2>2 DEF FS!Pieces
<1>5. ASSUME NEW p \in FS!Pieces(FileOf[u]) PROVE \E i \in Nat : i < Size(u) /\ p = Chunk(u, i)
  <2>1. PICK k \in 1 .. Size(u) : p = Chunk(u, k - 1)
    BY <1>2, <1>5 DEF FS!Pieces
  <2>2. k - 1 \in Nat /\ k - 1 < Size(u)
    BY <1>3
  <2> QED
    BY <2>1, <2>2
<1> QED
  BY <1>1, <1>2, <1>4, <1>5

\* The object an upload puts is the only one its file ever has at that index.
LEMMA OneObject ==
  ASSUME FreshIds, IInv, NEW u \in Uploads, NEW o \in bucket, o.file = FileOf[u]
  PROVE  /\ o.index \in AllIndices /\ o.index < Size(u)
         /\ o = Object(FileOf[u], o.index, Chunk(u, o.index))
         /\ o.data = Chunk(u, o.index)
<1>1. PICK v \in Uploads : /\ o.index \in AllIndices /\ o.index < Size(v)
                           /\ o = Object(FileOf[v], o.index, Chunk(v, o.index))
  BY DEF IInv, BucketInv
<1>2. o.file = FileOf[v] /\ o.data = Chunk(v, o.index)
  BY <1>1 DEF Object
<1>3. v = u
  BY <1>2 DEF FreshIds
<1> QED
  BY <1>1, <1>2, <1>3

LEMMA PutAdds ==
  ASSUME FreshIds, IInv, NEW u \in Uploads, NEW i \in AllIndices
  PROVE  Put(u, i) = bucket \cup {Object(FileOf[u], i, Chunk(u, i))}
<1>1. ASSUME NEW o \in Stored(FileOf[u], i) PROVE o = Object(FileOf[u], i, Chunk(u, i))
  BY <1>1, OneObject DEF Stored
<1> QED
  BY <1>1 DEF Put, Stored

\* While an upload is at work its file is neither stored nor gone.
LEMMA PhaseAtWork ==
  ASSUME FreshIds, IInv, NEW u \in Uploads, pc[u] = "working"
  PROVE  phase[FileOf[u]] = IF Asked(FileOf[u]) THEN "deleting" ELSE "none"
<1> DEFINE f == FileOf[u]
<1>1. f \in Files
  BY DEF Files, Requests
<1>2. ~ \E x \in DeletesOf(f) : pc[x] = "200" /\ quiet[x]
  BY DEF IInv, QuietUploads, DeletesOf, Ended, Answers
<1>3. ~ \E v \in Uploads : FileOf[v] = f /\ pc[v] = "200"
  BY DEF FreshIds
<1> HIDE DEF f
<1>4. phase[f] = IF Asked(f) THEN "deleting" ELSE "none"
  BY <1>1, <1>2, <1>3, Zenon DEF phase, Asked
<1> QED
  BY <1>4 DEF f

LEMMA PutStep ==
  ASSUME FreshIds, IInv, NEW u \in Uploads, NEW i \in AllIndices, Running(u, i),
         NEW result \in {"done", "failed"}, Finish(u, i, result),
         bucket' \in {bucket, Put(u, i)}, result = "done" => bucket' = Put(u, i),
         UNCHANGED <<pc, asked, fetched, listed, quiet>>
  PROVE  IInv' /\ [FS!Next]_FS!vars
<1> DEFINE obj == Object(FileOf[u], i, Chunk(u, i))
<1>1. pc[u] = "working" /\ task[u][i] = "waiting"
  BY DEF Running, Pending
<1>2. i < Size(u) /\ i \in Nat
  BY <1>1, IndicesAreNat DEF IInv, UploadTasks
<1>3. bucket' \in {bucket, bucket \cup {obj}} /\ (result = "done" => bucket' = bucket \cup {obj})
  BY PutAdds
<1>4. /\ task'[u][i] = result
      /\ \A j \in AllIndices \ {i} : task'[u][j] = task[u][j]
      /\ \A r \in (Uploads \cup Downloads) \ {u} : task'[r] = task[r]
  BY DEF Finish, IInv, Types, TaskType
<1>5. \A d \in Downloads : d # u /\ task'[d] = task[d]
  BY <1>4, Disjoint
<1>6. obj.file = FileOf[u] /\ obj.index = i /\ obj.data = Chunk(u, i)
  BY DEF Object
<1>7. Types'
  <2>1. TaskType'
    BY DEF Finish, IInv, Types, TaskType, TaskStates, Unsuccessful
  <2> QED
    BY <2>1 DEF IInv, Types, PcType, AskedType, ListedType, QuietType, FetchedType
<1>8. BucketInv'
  <2>1. ASSUME NEW o \in bucket', o \notin bucket PROVE o = obj
    BY <1>3, <2>1
  <2>2. \E v \in Uploads : /\ obj.index \in AllIndices /\ obj.index < Size(v)
                           /\ obj = Object(FileOf[v], obj.index, Chunk(v, obj.index))
    BY <1>2, <1>6
  <2> HIDE DEF obj
  <2> QED
    BY <2>1, <2>2 DEF IInv, BucketInv
<1>9. UploadTasks'
  BY <1>1, <1>2, <1>4 DEF IInv, UploadTasks
<1>10. DownloadTasks'
  BY <1>5 DEF IInv, DownloadTasks
<1>11. Kept'
  <2>1. \A f : Asked(f)' = Asked(f)
    BY DEF Asked
  <2>2. bucket \subseteq bucket'
    BY <1>3
  <2>3. \A v \in Uploads : \A j \in AllIndices :
          task'[v][j] = "done" => task[v][j] = "done" \/ (v = u /\ j = i /\ obj \in bucket')
    BY <1>3, <1>4
  <2> QED
    BY <2>1, <2>2, <2>3 DEF IInv, Kept
<1>12. QuietUploads'
  BY DEF IInv, QuietUploads
\* No quiet delete of the file has begun.
<1>13. ASSUME NEW x \in Deletes, pc[x] # "idle", quiet[x] PROVE FileOf[x] # FileOf[u]
  BY <1>1, <1>13 DEF IInv, QuietUploads, Ended, Answers
<1>14. \A o \in bucket' : o \in bucket \/ o.file = FileOf[u]
  BY <1>3, <1>6
<1>15. QuietListed' /\ QuietGone'
  BY <1>13, <1>14 DEF IInv, QuietListed, QuietGone
<1>16. GotInv'
  BY <1>5, GotFrame DEF IInv, DoneTasks
<1>17. phase' = phase /\ answer' = answer /\ got' = got
  BY SamePhase, SameAnswer, SameGot
<1>18. [FS!Next]_FS!vars
  <2>1. CASE bucket' = bucket
    BY <1>17, <2>1, SameContent DEF FS!vars
  <2>2. CASE bucket' = bucket \cup {obj}
    <3>1. content' = [content EXCEPT ![FileOf[u]] = @ \cup {Chunk(u, i)}]
      <4>1. ASSUME NEW f \in Files, f # FileOf[u] PROVE content'[f] = content[f]
        BY <1>6, <2>2, <4>1 DEF content
      <4>2. content'[FileOf[u]] = content[FileOf[u]] \cup {Chunk(u, i)}
        <5> HIDE DEF obj
        <5>1. FileOf[u] \in Files
          BY PiecesAreChunks
        <5>2. content[FileOf[u]] = {o.data : o \in {p \in bucket : p.file = FileOf[u]}}
          BY <5>1 DEF content
        <5>3. content'[FileOf[u]] = {o.data : o \in {p \in bucket \cup {obj} : p.file = FileOf[u]}}
          BY <2>2, <5>1 DEF content
        <5> QED
          BY <1>6, <5>2, <5>3
      <4>3. content = [f \in Files |-> content[f]] /\ content' = [f \in Files |-> content'[f]]
        BY DEF content
      <4> QED
        BY <4>1, <4>2, <4>3
    <3>2. Chunk(u, i) \in FS!Pieces(FileOf[u]) /\ FileOf[u] \in Files
      BY <1>2, PiecesAreChunks
    <3>3. phase[FileOf[u]] \in {"none", "deleting"}
      BY <1>1, PhaseAtWork
    <3>4. FS!Add(FileOf[u])
      BY <1>17, <3>1, <3>2, <3>3 DEF FS!Add
    <3> QED
      BY <3>2, <3>4 DEF FS!Next
  <2> QED
    BY <1>3, <2>1, <2>2
<1> QED
  BY <1>7, <1>8, <1>9, <1>10, <1>11, <1>12, <1>15, <1>16, <1>18 DEF IInv

LEMMA EndUploadStep ==
  ASSUME FreshIds, Fits, IInv, NEW u \in Uploads, EndUpload(u)
  PROVE  IInv' /\ [FS!Next]_FS!vars
<1> DEFINE f == FileOf[u]
<1>1. /\ pc[u] = "working" /\ pc' = [pc EXCEPT ![u] = uploadAnswer(u)]
      /\ UNCHANGED <<bucket, asked, task, fetched, listed, quiet>>
  BY DEF EndUpload
<1>2. uploadAnswer(u) \in {"200", "500"} /\ (uploadAnswer(u) = "200" <=> AllDone(u))
  BY DEF uploadAnswer
<1>3. /\ pc'[u] = uploadAnswer(u)
      /\ \A r \in Requests \ {u} : pc'[r] = pc[r]
  BY <1>1, Disjoint DEF IInv, Types, PcType
<1>4. (\A d \in Downloads : pc'[d] = pc[d]) /\ (\A x \in Deletes : pc'[x] = pc[x])
  BY <1>3, Disjoint
<1>5. Types'
  <2>1. PcType'
    BY <1>1, <1>2 DEF IInv, Types, PcType, Ended, Answers
  <2> QED
    BY <1>1, <2>1 DEF IInv, Types, TaskType, AskedType, ListedType, QuietType, FetchedType
<1>6. BucketInv'
  BY <1>1 DEF IInv, BucketInv
<1>7. UploadTasks' /\ DownloadTasks'
  <2>1. \A r \in Uploads \cup Downloads : pc'[r] = "idle" <=> pc[r] = "idle"
    BY <1>1, <1>2, <1>3, Disjoint
  <2> QED
    BY <1>1, <2>1 DEF IInv, UploadTasks, DownloadTasks
<1>8. Kept'
  <2>1. \A g : Asked(g)' = Asked(g)
    BY <1>4 DEF Asked, DeletesOf
  <2> QED
    BY <1>1, <2>1 DEF IInv, Kept
<1>9. QuietUploads'
  BY <1>1, <1>2, <1>3, <1>4, Disjoint DEF IInv, QuietUploads, Ended, Answers
<1>10. QuietListed' /\ QuietGone'
  BY <1>1, <1>4, QuietFrame DEF IInv
<1>11. GotInv'
  BY <1>1, GotFrame DEF IInv, DoneTasks
<1>12. answer' = answer /\ got' = got /\ content' = content
  BY <1>1, <1>4, SameAnswer, SameGot, SameContent
<1>13. [FS!Next]_FS!vars
  <2>1. CASE uploadAnswer(u) = "500"
    <3>1. phase' = phase
      BY <1>1, <1>3, <1>4, <2>1, Disjoint, SamePhase
    <3> QED
      BY <1>12, <3>1 DEF FS!vars
  <2>2. CASE uploadAnswer(u) = "200" /\ Asked(f)
    <3>1. phase' = phase
      <4>1. ASSUME NEW g \in Files
            PROVE  /\ (\E x \in DeletesOf(g) : pc'[x] = "200" /\ quiet'[x])
                        <=> (\E x \in DeletesOf(g) : pc[x] = "200" /\ quiet[x])
                   /\ (\E x \in DeletesOf(g) : pc'[x] # "idle")
                        <=> (\E x \in DeletesOf(g) : pc[x] # "idle")
        BY <1>1, <1>4 DEF DeletesOf
      <4>2. ASSUME NEW g \in Files
            PROVE  \/ \E x \in DeletesOf(g) : pc[x] # "idle"
                   \/ (\E v \in Uploads : FileOf[v] = g /\ pc'[v] = "200")
                        <=> (\E v \in Uploads : FileOf[v] = g /\ pc[v] = "200")
        BY <1>3, <2>2, Disjoint DEF Asked
      <4> HIDE DEF f
      <4> QED
        BY <4>1, <4>2, Zenon DEF phase
    <3> QED
      BY <1>12, <3>1 DEF FS!vars
  <2>3. CASE uploadAnswer(u) = "200" /\ ~ Asked(f)
    <3>1. f \in Files
      BY PiecesAreChunks
    <3>2. phase[f] = "none"
      BY <1>1, <2>3, PhaseAtWork
    <3>3. phase' = [phase EXCEPT ![f] = "stored"]
      <4>1. phase'[f] = "stored"
        <5>1. /\ ~ \E x \in DeletesOf(f) : pc'[x] = "200" /\ quiet'[x]
              /\ ~ \E x \in DeletesOf(f) : pc'[x] # "idle"
          BY <1>4, <2>3 DEF Asked, DeletesOf
        <5>2. \E v \in Uploads : FileOf[v] = f /\ pc'[v] = "200"
          BY <1>3, <2>3
        <5> HIDE DEF f
        <5> QED
          BY <3>1, <5>1, <5>2, Zenon DEF phase
      <4>2. ASSUME NEW g \in Files, g # f PROVE phase'[g] = phase[g]
        <5>1. /\ (\E x \in DeletesOf(g) : pc'[x] = "200" /\ quiet'[x])
                   <=> (\E x \in DeletesOf(g) : pc[x] = "200" /\ quiet[x])
              /\ (\E x \in DeletesOf(g) : pc'[x] # "idle")
                   <=> (\E x \in DeletesOf(g) : pc[x] # "idle")
          BY <1>1, <1>4 DEF DeletesOf
        <5>2. (\E v \in Uploads : FileOf[v] = g /\ pc'[v] = "200")
                <=> (\E v \in Uploads : FileOf[v] = g /\ pc[v] = "200")
          BY <1>3, <4>2, Disjoint
        <5> QED
          BY <5>1, <5>2, Zenon DEF phase
      <4>3. phase = [g \in Files |-> phase[g]] /\ phase' = [g \in Files |-> phase'[g]]
        BY DEF phase
      <4> HIDE DEF f
      <4> QED
        BY <4>1, <4>2, <4>3
    <3>4. content[f] = FS!Pieces(f)
      <4>1. content[f] = {o.data : o \in {p \in bucket : p.file = f}}
        BY <3>1 DEF content
      <4>2. ASSUME NEW o \in bucket, o.file = f PROVE o.data \in FS!Pieces(f)
        BY <4>2, OneObject, PiecesAreChunks, IndicesAreNat
      <4>3. ASSUME NEW p \in FS!Pieces(f) PROVE p \in content[f]
        <5>1. PICK i \in Nat : i < Size(u) /\ p = Chunk(u, i)
          BY <4>3, PiecesAreChunks
        <5>2. i \in AllIndices
          BY <5>1, SizesAreNat, StorageAssumption DEF Fits, Size, AllIndices
        <5>3. task[u][i] = "done"
          BY <1>1, <1>2, <2>3, <5>1, <5>2 DEF AllDone, Tasks, IInv, UploadTasks
        <5>4. Object(f, i, Chunk(u, i)) \in bucket
          BY <2>3, <5>2, <5>3 DEF IInv, Kept
        <5>5. Object(f, i, Chunk(u, i)).file = f /\ Object(f, i, Chunk(u, i)).data = p
          BY <5>1 DEF Object
        <5> HIDE DEF f
        <5> QED
          BY <4>1, <5>4, <5>5
      <4> HIDE DEF f
      <4> QED
        BY <4>1, <4>2, <4>3
    <3>5. FS!Commit(f)
      BY <1>12, <3>2, <3>3, <3>4 DEF FS!Commit
    <3> QED
      BY <3>1, <3>5 DEF FS!Next
  <2> QED
    BY <1>2, <2>1, <2>2, <2>3
<1> QED
  BY <1>5, <1>6, <1>7, <1>8, <1>9, <1>10, <1>11, <1>13 DEF IInv

\* Of an upload or a download.
LEMMA CancelRestStep ==
  ASSUME IInv, NEW r \in Uploads \cup Downloads, CancelRest(r)
  PROVE  IInv' /\ UNCHANGED FS!vars
<1>1. UNCHANGED <<bucket, pc, asked, fetched, listed, quiet>>
  BY DEF CancelRest
<1>2. TaskType'
  BY DEF CancelRest, IInv, Types, TaskType, TaskStates
<1>3. \A q \in Uploads \cup Downloads : \A i \in AllIndices :
        \/ task'[q][i] = task[q][i]
        \/ task[q][i] = "waiting" /\ task'[q][i] = "cancelled"
  BY DEF CancelRest, IInv, Types, TaskType, Pending
<1>4. Types'
  BY <1>1, <1>2 DEF IInv, Types, PcType, AskedType, ListedType, QuietType, FetchedType
<1>5. BucketInv'
  BY <1>1 DEF IInv, BucketInv
<1>6. UploadTasks'
  BY <1>1, <1>3 DEF IInv, UploadTasks
<1>7. DownloadTasks'
  BY <1>1, <1>3 DEF IInv, DownloadTasks
<1>8. Kept'
  <2>1. \A f : Asked(f)' = Asked(f)
    BY <1>1 DEF Asked
  <2>2. \A u \in Uploads : \A i \in AllIndices : task'[u][i] = "done" => task[u][i] = "done"
    BY <1>3
  <2> QED
    BY <1>1, <2>1, <2>2 DEF IInv, Kept
<1>9. QuietUploads' /\ QuietListed' /\ QuietGone'
  BY <1>1 DEF IInv, QuietUploads, QuietListed, QuietGone
<1>10. GotInv'
  <2>1. \A d \in Downloads : DoneTasks(d)' = DoneTasks(d)
    BY <1>3 DEF DoneTasks
  <2> QED
    BY <1>1, <2>1, GotFrame DEF IInv
<1>11. phase' = phase /\ answer' = answer /\ got' = got /\ content' = content
  BY <1>1, SamePhase, SameAnswer, SameGot, SameContent
<1> QED
  BY <1>4, <1>5, <1>6, <1>7, <1>8, <1>9, <1>10, <1>11 DEF IInv, FS!vars

-----------------------------------------------------------------------------
(* Downloads.                                                              *)

\* A step of a download leaves uploads, deletes and the bucket alone.
LEMMA DownloadFrame ==
  ASSUME IInv, NEW d \in Downloads, \A r \in Requests \ {d} : pc'[r] = pc[r],
         \A r \in (Uploads \cup Downloads) \ {d} : task'[r] = task[r],
         UNCHANGED <<bucket, asked, listed, quiet>>
  PROVE  /\ BucketInv' /\ UploadTasks' /\ Kept' /\ QuietUploads' /\ QuietListed' /\ QuietGone'
         /\ phase' = phase /\ content' = content
<1>1. \A u \in Uploads : u # d /\ pc'[u] = pc[u] /\ task'[u] = task[u]
  BY Disjoint
<1>2. \A x \in Deletes : x # d /\ pc'[x] = pc[x]
  BY Disjoint
<1>3. BucketInv'
  BY DEF IInv, BucketInv
<1>4. UploadTasks'
  BY <1>1 DEF IInv, UploadTasks
<1>5. Kept'
  <2>1. \A f : Asked(f)' = Asked(f)
    BY <1>2 DEF Asked, DeletesOf
  <2> QED
    BY <1>1, <2>1 DEF IInv, Kept
<1>6. QuietUploads'
  BY <1>1, <1>2 DEF IInv, QuietUploads
<1>7. QuietListed' /\ QuietGone'
  BY <1>2, QuietFrame DEF IInv
<1>8. phase' = phase /\ content' = content
  BY <1>1, <1>2, SamePhase, SameContent
<1> QED
  BY <1>3, <1>4, <1>5, <1>6, <1>7, <1>8

LEMMA StartDownloadStep ==
  ASSUME IInv, NEW d \in Downloads, StartDownload(d)
  PROVE  IInv' /\ UNCHANGED FS!vars
<1>1. /\ pc' = [pc EXCEPT ![d] = "working"] /\ pc[d] = "idle"
      /\ UNCHANGED <<bucket, asked, fetched, listed, quiet>>
  BY DEF StartDownload
<1>2. pc'[d] = "working" /\ \A r \in Requests \ {d} : pc'[r] = pc[r]
  BY <1>1, Disjoint DEF IInv, Types, PcType
<1>3. /\ \A i \in AllIndices : task'[d][i] = IF i < asked[d].chunks THEN "waiting" ELSE "none"
      /\ \A r \in (Uploads \cup Downloads) \ {d} : task'[r] = task[r]
  BY DEF StartDownload, IInv, Types, TaskType
<1>4. Types'
  <2>1. PcType'
    BY <1>1 DEF IInv, Types, PcType
  <2>2. TaskType'
    BY DEF StartDownload, IInv, Types, TaskType, TaskStates
  <2> QED
    BY <1>1, <2>1, <2>2 DEF IInv, Types, AskedType, ListedType, QuietType, FetchedType
<1>5. DownloadTasks'
  BY <1>1, <1>2, <1>3, Disjoint DEF IInv, DownloadTasks
<1>6. GotInv'
  <2>1. DoneTasks(d) = {} /\ DoneTasks(d)' = {}
    BY <1>1, <1>3 DEF DoneTasks, IInv, DownloadTasks
  <2>2. \A e \in Downloads \ {d} : DoneTasks(e)' = DoneTasks(e)
    BY <1>3 DEF DoneTasks
  <2> QED
    BY <1>1, <2>1, <2>2, GotFrame DEF IInv
<1>7. answer' = answer /\ got' = got
  BY <1>1, <1>2, Disjoint, SameAnswer, SameGot DEF Ended, Answers
<1> QED
  BY <1>1, <1>2, <1>3, <1>4, <1>5, <1>6, <1>7, DownloadFrame DEF IInv, FS!vars

\* A task that ends without a chunk.
LEMMA FetchNothing ==
  ASSUME IInv, NEW d \in Downloads, NEW i \in AllIndices, Running(d, i),
         NEW result \in Unsuccessful, Finish(d, i, result),
         UNCHANGED <<bucket, pc, asked, fetched, listed, quiet>>
  PROVE  IInv' /\ UNCHANGED FS!vars
<1>1. pc[d] = "working" /\ task[d][i] = "waiting"
  BY DEF Running, Pending
<1>2. /\ task'[d][i] = result
      /\ \A j \in AllIndices \ {i} : task'[d][j] = task[d][j]
      /\ \A r \in (Uploads \cup Downloads) \ {d} : task'[r] = task[r]
  BY DEF Finish, IInv, Types, TaskType
<1>3. Types'
  <2>1. TaskType'
    BY DEF Finish, IInv, Types, TaskType, TaskStates
  <2> QED
    BY <2>1 DEF IInv, Types, PcType, AskedType, ListedType, QuietType, FetchedType
<1>4. DownloadTasks'
  BY <1>1, <1>2 DEF IInv, DownloadTasks, Unsuccessful
<1>5. GotInv'
  <2>1. \A e \in Downloads : DoneTasks(e)' = DoneTasks(e)
    BY <1>1, <1>2 DEF DoneTasks, Unsuccessful
  <2> QED
    BY <2>1, GotFrame DEF IInv
<1>6. answer' = answer /\ got' = got
  BY SameAnswer, SameGot
<1> QED
  BY <1>2, <1>3, <1>4, <1>5, <1>6, DownloadFrame DEF IInv, FS!vars

\* A task that gets and decrypts its chunk, from whichever upload.
LEMMA FetchOne ==
  ASSUME FreshIds, IInv, NEW d \in Downloads, NEW i \in AllIndices, Running(d, i),
         Finish(d, i, "done"), NEW o \in Stored(FileOf[d], i),
         fetched' = [fetched EXCEPT ![d] = Append(@, [index |-> i, data |-> o.data])],
         UNCHANGED <<bucket, pc, asked, listed, quiet>>
  PROVE  IInv' /\ FS!Collect(d)
<1>1. pc[d] = "working" /\ task[d][i] = "waiting"
  BY DEF Running, Pending
<1>2. /\ task'[d][i] = "done"
      /\ \A j \in AllIndices \ {i} : task'[d][j] = task[d][j]
      /\ \A r \in (Uploads \cup Downloads) \ {d} : task'[r] = task[r]
  BY DEF Finish, IInv, Types, TaskType
<1>3. PICK u \in Uploads : FileOf[u] = FileOf[d] /\ o.data = Chunk(u, i) /\ i < Size(u)
  BY DEF IInv, BucketInv, Stored, Object
<1>4. UploadOf(FileOf[d]) = u
  BY <1>3, OneUpload
<1> DEFINE e == [index |-> i, data |-> o.data]
<1>5. e \in [index : AllIndices, data : Data] /\ e.data = o.data
  BY <1>3, ChunkIsData, IndicesAreNat
<1>6. /\ fetched'[d] = Append(fetched[d], e)
      /\ \A c \in Downloads \ {d} : fetched'[c] = fetched[c]
  BY DEF IInv, Types, FetchedType
<1> HIDE DEF e
<1>7. Types'
  <2>1. TaskType'
    BY DEF Finish, IInv, Types, TaskType, TaskStates
  <2>2. fetched' = [c \in Downloads |-> fetched'[c]]
    BY DEF IInv, Types, FetchedType
  <2>3. \A c \in Downloads : fetched'[c] \in Seq([index : AllIndices, data : Data])
    <3> DEFINE S == [index : AllIndices, data : Data]
    <3>1. \A c \in Downloads : fetched[c] \in Seq(S)
      BY DEF IInv, Types, FetchedType
    <3>2. e \in S
      BY <1>5
    <3> HIDE DEF S
    <3>3. Append(fetched[d], e) \in Seq(S)
      BY <3>1, <3>2
    <3>4. \A c \in Downloads : fetched'[c] \in Seq(S)
      BY <1>6, <3>1, <3>3
    <3> QED
      BY <3>4 DEF S
  <2> QED
    BY <2>1, <2>2, <2>3 DEF IInv, Types, PcType, AskedType, ListedType, QuietType, FetchedType
<1>8. DownloadTasks'
  BY <1>1, <1>2 DEF IInv, DownloadTasks
<1>9. got' = [got EXCEPT ![d] = @ \cup {o.data}]
  <2>1. got'[d] = got[d] \cup {o.data}
    <3>1. fetched[d] \in Seq([index : AllIndices, data : Data])
      BY DEF IInv, Types, FetchedType
    <3>2. /\ DOMAIN fetched'[d] = DOMAIN fetched[d] \cup {Len(fetched[d]) + 1}
          /\ fetched'[d][Len(fetched[d]) + 1] = e
          /\ \A j \in DOMAIN fetched[d] : fetched'[d][j] = fetched[d][j]
      BY <1>5, <1>6, <3>1
    <3>3. {fetched'[d][j].data : j \in DOMAIN fetched'[d]}
            = {fetched[d][j].data : j \in DOMAIN fetched[d]} \cup {e.data}
      BY <3>2
    <3> QED
      BY <1>5, <3>3 DEF got
  <2>2. ASSUME NEW c \in Downloads, c # d PROVE got'[c] = got[c]
    BY <1>6, <2>2 DEF got
  <2>3. got = [c \in Downloads |-> got[c]] /\ got' = [c \in Downloads |-> got'[c]]
    BY DEF got
  <2> QED
    BY <2>1, <2>2, <2>3
<1>10. GotInv'
  <2>1. DoneTasks(d)' = DoneTasks(d) \cup {i}
    BY <1>2 DEF DoneTasks
  <2>2. \A c \in Downloads \ {d} : DoneTasks(c)' = DoneTasks(c)
    BY <1>2 DEF DoneTasks
  <2>3. got = [c \in Downloads |-> got[c]]
    BY DEF got
  <2>4. got'[d] = got[d] \cup {Chunk(u, i)} /\ \A c \in Downloads \ {d} : got'[c] = got[c]
    BY <1>3, <1>9, <2>3
  <2>5. /\ got[d] = {Chunk(u, k) : k \in DoneTasks(d)}
        /\ \A k \in DoneTasks(d) : k < Size(u)
    BY <1>4 DEF IInv, GotInv
  <2>6. got'[d] = {Chunk(u, k) : k \in DoneTasks(d) \cup {i}}
    BY <2>4, <2>5
  <2> QED
    BY <1>3, <1>4, <2>1, <2>2, <2>4, <2>5, <2>6 DEF IInv, GotInv
<1>11. FS!Collect(d)
  <2>1. answer[d] = "open" /\ answer' = answer
    BY <1>1, SameAnswer DEF answer, Ended, Answers
  <2>2. FileOf[d] \in Files /\ o.data \in content[FileOf[d]]
    BY DEF Files, Requests, content, Stored
  <2>3. phase' = phase /\ content' = content
    BY <1>2, DownloadFrame
  <2> QED
    BY <1>9, <2>1, <2>2, <2>3 DEF FS!Collect
<1> QED
  BY <1>2, <1>7, <1>8, <1>10, <1>11, DownloadFrame DEF IInv

LEMMA EndDownloadStep ==
  ASSUME FreshIds, IInv, NEW d \in Downloads, EndDownload(d)
  PROVE  IInv' /\ [FS!Next]_FS!vars
<1>1. /\ pc[d] = "working" /\ pc' = [pc EXCEPT ![d] = downloadAnswer(d)]
      /\ UNCHANGED <<bucket, asked, task, fetched, listed, quiet>>
  BY DEF EndDownload
<1>2. downloadAnswer(d) \in {"200", "404", "400"} /\ (downloadAnswer(d) = "200" <=> AllDone(d))
  BY DEF downloadAnswer
<1>3. pc'[d] = downloadAnswer(d) /\ \A r \in Requests \ {d} : pc'[r] = pc[r]
  BY <1>1, Disjoint DEF IInv, Types, PcType
<1>4. Types'
  <2>1. PcType'
    BY <1>1, <1>2 DEF IInv, Types, PcType, Ended, Answers
  <2> QED
    BY <1>1, <2>1 DEF IInv, Types, TaskType, AskedType, ListedType, QuietType, FetchedType
<1>5. DownloadTasks'
  BY <1>1, <1>2, <1>3, Disjoint DEF IInv, DownloadTasks
<1>6. GotInv'
  BY <1>1, GotFrame DEF IInv, DoneTasks
<1>7. IInv'
  BY <1>1, <1>3, <1>4, <1>5, <1>6, DownloadFrame DEF IInv
<1>8. phase' = phase /\ content' = content /\ got' = got
  BY <1>1, <1>3, DownloadFrame, SameGot
<1>9. answer[d] = "open"
  BY <1>1 DEF answer, Ended, Answers
<1>10. \A c \in Downloads \ {d} : answer'[c] = answer[c]
  BY <1>3, Disjoint DEF answer
<1>11. answer = [c \in Downloads |-> answer[c]] /\ answer' = [c \in Downloads |-> answer'[c]]
  BY DEF answer
<1>12. CASE downloadAnswer(d) = "200"
  <2>1. answer' = [answer EXCEPT ![d] = "served"]
    <3>1. answer'[d] = "served"
      BY <1>3, <1>12 DEF answer
    <3> QED
      BY <1>10, <1>11, <3>1
  <2>2. asked[d].chunks \in 0 .. MaxChunks
    BY DEF IInv, Types, AskedType
  <2>3. DoneTasks(d) = {i \in Nat : i < asked[d].chunks}
    <3>1. ASSUME NEW i \in AllIndices PROVE i \in DoneTasks(d) <=> i < asked[d].chunks
      BY <1>1, <1>2, <1>12 DEF AllDone, Tasks, DoneTasks, IInv, DownloadTasks
    <3>2. \A i \in Nat : i < asked[d].chunks => i \in AllIndices
      BY <2>2, StorageAssumption DEF AllIndices
    <3> QED
      BY <3>1, <3>2, IndicesAreNat DEF DoneTasks
  <2> DEFINE n == asked[d].chunks
             W == Whole[FileOf[d]]
  <2>4. n \in 0 .. Len(W) /\ got[d] = {W[k] : k \in 1 .. n}
    <3>1. CASE n = 0
      <4>1. DoneTasks(d) = {}
        BY <2>3, <3>1
      <4>2. got[d] = {}
        BY <4>1 DEF IInv, GotInv
      <4>3. Len(W) \in Nat
        <5>1. CASE \E u \in Uploads : FileOf[u] = FileOf[d]
          BY <5>1, PiecesAreChunks, SizesAreNat
        <5>2. CASE ~ \E u \in Uploads : FileOf[u] = FileOf[d]
          <6>1. FileOf[d] \in Files
            BY DEF Files, Requests
          <6>2. W = <<>>
            BY <5>2, <6>1 DEF Whole
          <6> QED
            BY <6>2
        <5> QED
          BY <5>1, <5>2
      <4> QED
        BY <3>1, <4>2, <4>3
    <3>2. CASE n # 0
      <4>1. n - 1 \in DoneTasks(d)
        BY <2>2, <2>3, <3>2
      <4>2. PICK u \in Uploads : FileOf[u] = FileOf[d]
        BY <4>1 DEF IInv, GotInv
      <4>3. UploadOf(FileOf[d]) = u
        BY <4>2, OneUpload
      <4>4. n - 1 < Size(u) /\ got[d] = {Chunk(u, i) : i \in DoneTasks(d)}
        BY <4>1, <4>3 DEF IInv, GotInv
      <4>5. W = [k \in 1 .. Size(u) |-> Chunk(u, k - 1)]
        BY <4>2, PiecesAreChunks
      <4>6. n \in 0 .. Size(u) /\ Len(W) = Size(u)
        BY <2>2, <4>4, <4>5, SizesAreNat
      <4>7. ASSUME NEW p \in got[d] PROVE \E k \in 1 .. n : p = W[k]
        <5>1. PICK i \in Nat : i < n /\ p = Chunk(u, i)
          BY <2>3, <4>4, <4>7
        <5>2. i + 1 \in 1 .. n /\ i + 1 \in 1 .. Size(u) /\ (i + 1) - 1 = i
          BY <2>2, <4>6, <5>1, SizesAreNat
        <5>3. p = W[i + 1]
          BY <4>5, <5>1, <5>2
        <5> QED
          BY <5>2, <5>3
      <4>8. ASSUME NEW k \in 1 .. n PROVE W[k] \in got[d]
        <5>1. k - 1 \in DoneTasks(d) /\ k \in 1 .. Size(u)
          BY <2>2, <2>3, <4>6, SizesAreNat
        <5> QED
          BY <4>4, <4>5, <5>1
      <4> HIDE DEF W, n
      <4> QED
        BY <4>6, <4>7, <4>8
    <3> QED
      BY <3>1, <3>2
  <2>5. FS!Serve(d)
    BY <1>8, <1>9, <2>1, <2>4 DEF FS!Serve
  <2> QED
    BY <1>7, <2>5 DEF FS!Next
<1>13. CASE downloadAnswer(d) # "200"
  <2>1. answer'[d] = "refused"
    BY <1>2, <1>3, <1>13 DEF answer, Ended, Answers
  <2>2. answer' = [c \in Downloads |-> IF c \in {d} THEN "refused" ELSE answer[c]]
    BY <1>10, <1>11, <2>1
  <2>3. FS!Refuse({d})
    BY <1>8, <1>9, <2>2 DEF FS!Refuse
  <2> QED
    BY <1>7, <2>3 DEF FS!Next
<1> QED
  BY <1>12, <1>13

-----------------------------------------------------------------------------
(* Deletes.                                                                *)

\* A step of a delete leaves uploads and downloads alone.
LEMMA DeleteFrame ==
  ASSUME IInv, NEW x \in Deletes, \A r \in Requests \ {x} : pc'[r] = pc[r],
         bucket' \subseteq bucket, UNCHANGED <<asked, task, fetched>>
  PROVE  /\ BucketInv' /\ UploadTasks' /\ DownloadTasks' /\ GotInv'
         /\ answer' = answer /\ got' = got
<1>1. \A u \in Uploads : u # x /\ pc'[u] = pc[u]
  BY Disjoint
<1>2. \A d \in Downloads : d # x /\ pc'[d] = pc[d]
  BY Disjoint
<1>3. BucketInv'
  BY DEF IInv, BucketInv
<1>4. UploadTasks' /\ DownloadTasks'
  BY <1>1, <1>2 DEF IInv, UploadTasks, DownloadTasks
<1>5. GotInv'
  BY GotFrame DEF IInv, DoneTasks
<1>6. answer' = answer /\ got' = got
  BY <1>2, SameAnswer, SameGot
<1> QED
  BY <1>3, <1>4, <1>5, <1>6

LEMMA ListObjectsStep ==
  ASSUME IInv, NEW x \in Deletes, ListObjects(x)
  PROVE  IInv' /\ [FS!Next]_FS!vars
<1> DEFINE f == FileOf[x]
           q == \A u \in Uploads : FileOf[u] = FileOf[x] => pc[u] \in Ended
<1>1. /\ pc[x] = "idle" /\ pc' = [pc EXCEPT ![x] = "working"]
      /\ listed' = [listed EXCEPT ![x] = StoredIndices(FileOf[x])]
      /\ quiet' = [quiet EXCEPT ![x] = q]
      /\ UNCHANGED <<bucket, asked, task, fetched>>
  BY DEF ListObjects
<1>2. pc'[x] = "working" /\ \A r \in Requests \ {x} : pc'[r] = pc[r]
  BY <1>1, Disjoint DEF IInv, Types, PcType
<1>3. /\ listed'[x] = StoredIndices(FileOf[x]) /\ (quiet'[x] <=> q)
      /\ \A y \in Deletes \ {x} : listed'[y] = listed[y] /\ quiet'[y] = quiet[y]
  BY <1>1 DEF IInv, Types, ListedType, QuietType
<1>4. \A u \in Uploads : u # x /\ pc'[u] = pc[u]
  BY <1>2, Disjoint
<1>5. \A y \in Deletes \ {x} : pc'[y] = pc[y]
  BY <1>2, Disjoint
<1>6. Types'
  <2>1. PcType'
    BY <1>1 DEF IInv, Types, PcType
  <2>2. StoredIndices(FileOf[x]) \subseteq AllIndices
    BY DEF StoredIndices, IInv, BucketInv
  <2>3. ListedType'
    BY <1>1, <2>2 DEF IInv, Types, ListedType
  <2>4. q \in BOOLEAN
    OBVIOUS
  <2>5. QuietType'
    BY <1>1, <2>4 DEF IInv, Types, QuietType
  <2> QED
    BY <1>1, <2>1, <2>3, <2>5 DEF IInv, Types, TaskType, AskedType, FetchedType
<1> HIDE DEF q
<1>7. Kept'
  <2>1. ASSUME NEW u \in Uploads, Asked(FileOf[u]) PROVE Asked(FileOf[u])'
    BY <1>2, <1>5, <2>1 DEF Asked, DeletesOf
  <2> QED
    BY <1>1, <2>1 DEF IInv, Kept
<1>8. QuietUploads'
  BY <1>1, <1>3, <1>4, <1>5 DEF IInv, QuietUploads, q
<1>9. QuietListed'
  <2>1. \A o \in bucket : o.file = FileOf[x] => o.index \in StoredIndices(FileOf[x])
    BY DEF StoredIndices
  <2> QED
    BY <1>1, <1>3, <1>5, <2>1 DEF IInv, QuietListed
<1>10. QuietGone'
  BY <1>1, <1>2, <1>3, <1>5 DEF IInv, QuietGone
<1>11. IInv'
  BY <1>1, <1>2, <1>6, <1>7, <1>8, <1>9, <1>10, DeleteFrame DEF IInv
<1>12. content' = content /\ answer' = answer /\ got' = got
  BY <1>1, <1>2, DeleteFrame, SameContent
<1>13. ASSUME NEW g \in Files
       PROVE  /\ (\E y \in DeletesOf(g) : pc'[y] = "200" /\ quiet'[y])
                   <=> (\E y \in DeletesOf(g) : pc[y] = "200" /\ quiet[y])
              /\ (\E u \in Uploads : FileOf[u] = g /\ pc'[u] = "200")
                   <=> (\E u \in Uploads : FileOf[u] = g /\ pc[u] = "200")
  BY <1>1, <1>2, <1>3, <1>4, <1>5 DEF DeletesOf
<1>14. x \in DeletesOf(f) /\ f \in Files
  BY DEF DeletesOf, Files, Requests
<1>15. \E y \in DeletesOf(f) : pc'[y] # "idle"
  BY <1>2, <1>14
<1>16. ASSUME NEW g \in Files, g # f PROVE phase'[g] = phase[g]
  <2>1. (\E y \in DeletesOf(g) : pc'[y] # "idle") <=> (\E y \in DeletesOf(g) : pc[y] # "idle")
    BY <1>5, <1>16 DEF DeletesOf
  <2> HIDE DEF f
  <2> QED
    BY <1>13, <2>1, Zenon DEF phase
<1>17. phase = [g \in Files |-> phase[g]] /\ phase' = [g \in Files |-> phase'[g]]
  BY DEF phase
<1> HIDE DEF f
<1>18. CASE phase[f] \in {"gone", "deleting"}
  <2>1. phase'[f] = phase[f]
    BY <1>13, <1>14, <1>15, <1>18 DEF phase
  <2>2. phase' = phase
    BY <1>16, <1>17, <2>1
  <2> QED
    BY <1>11, <1>12, <2>2 DEF FS!vars
<1>19. CASE phase[f] \notin {"gone", "deleting"}
  <2>1. phase[f] \in {"none", "stored"}
    BY <1>14, <1>19 DEF phase
  <2>2. phase'[f] = "deleting"
    BY <1>13, <1>14, <1>15, <1>19 DEF phase
  <2>3. phase' = [phase EXCEPT ![f] = "deleting"]
    BY <1>16, <1>17, <2>2
  <2>4. FS!AskDelete(f)
    BY <1>12, <2>1, <2>3 DEF FS!AskDelete
  <2> QED
    BY <1>11, <1>14, <2>4 DEF FS!Next
<1> QED
  BY <1>18, <1>19

LEMMA RemoveObjectStep ==
  ASSUME FreshIds, IInv, NEW x \in Deletes, RemoveObject(x)
  PROVE  IInv' /\ [FS!Next]_FS!vars
<1> DEFINE f == FileOf[x]
           j == First(listed[x])
<1>1. /\ pc[x] = "working" /\ bucket' = bucket \ Stored(f, j)
      /\ listed' = [listed EXCEPT ![x] = @ \ {j}]
      /\ UNCHANGED <<pc, asked, task, fetched, quiet>>
  BY DEF RemoveObject
<1> HIDE DEF j
<1>2. /\ listed'[x] = listed[x] \ {j}
      /\ \A y \in Deletes \ {x} : listed'[y] = listed[y]
  BY <1>1 DEF IInv, Types, ListedType
<1>3. \A o \in bucket : o \in bucket' <=> ~ (o.file = f /\ o.index = j)
  BY <1>1 DEF Stored
<1>4. bucket' \subseteq bucket
  BY <1>1
<1>5. x \in DeletesOf(f) /\ f \in Files /\ Asked(f)
  BY <1>1 DEF Asked, DeletesOf, Files, Requests
<1> HIDE DEF f
<1>6. Types'
  <2>1. ListedType'
    BY <1>1 DEF IInv, Types, ListedType
  <2> QED
    BY <1>1, <2>1 DEF IInv, Types, PcType, TaskType, AskedType, QuietType, FetchedType
<1>7. Kept'
  <2>1. \A g : Asked(g)' = Asked(g)
    BY <1>1 DEF Asked
  <2>2. ASSUME NEW u \in Uploads, ~ Asked(FileOf[u]), NEW i \in AllIndices, task[u][i] = "done"
        PROVE  Object(FileOf[u], i, Chunk(u, i)) \in bucket'
    <3>1. Object(FileOf[u], i, Chunk(u, i)) \in bucket
      BY <2>2 DEF IInv, Kept
    <3>2. Object(FileOf[u], i, Chunk(u, i)).file # f
      BY <1>5, <2>2 DEF Object
    <3> QED
      BY <1>3, <3>1, <3>2
  <2> QED
    BY <1>1, <2>1, <2>2 DEF Kept
<1>8. QuietUploads'
  BY <1>1 DEF IInv, QuietUploads
<1>9. QuietListed'
  <2>1. ASSUME NEW y \in Deletes, pc[y] = "working", quiet[y], NEW o \in bucket', o.file = FileOf[y]
        PROVE  o.index \in listed'[y]
    <3>1. o \in bucket /\ o.index \in listed[y]
      BY <1>4, <2>1 DEF IInv, QuietListed
    <3>2. CASE y = x
      BY <1>2, <1>3, <2>1, <3>1, <3>2 DEF f
    <3>3. CASE y # x
      BY <1>2, <3>1, <3>3
    <3> QED
      BY <3>2, <3>3
  <2> QED
    BY <1>1, <2>1 DEF QuietListed
<1>10. QuietGone'
  BY <1>1, <1>4 DEF IInv, QuietGone
<1>11. IInv' /\ answer' = answer /\ got' = got
  BY <1>1, <1>4, <1>6, <1>7, <1>8, <1>9, <1>10, DeleteFrame DEF IInv
<1>12. phase' = phase
  BY <1>1, SamePhase
<1>13. CASE Stored(f, j) = {}
  BY <1>1, <1>11, <1>12, <1>13, SameContent DEF FS!vars
<1>14. CASE Stored(f, j) # {}
  <2>1. PICK o \in bucket : o.file = f /\ o.index = j
    BY <1>14 DEF Stored
  <2>2. PICK u \in Uploads : FileOf[u] = f
    BY <2>1 DEF IInv, BucketInv, Object
  <2>3. o.data = Chunk(u, j) /\ j \in Nat
    BY <2>1, <2>2, OneObject, IndicesAreNat
  <2>4. phase[f] = "deleting"
    <3>1. ~ \E y \in DeletesOf(f) : pc[y] = "200" /\ quiet[y]
      BY <2>1 DEF IInv, QuietGone, DeletesOf
    <3> QED
      BY <1>5, <3>1, Zenon DEF phase, Asked
  <2>5. content[f] = {p.data : p \in {b \in bucket : b.file = f}}
    BY <1>5 DEF content
  <2>6. content'[f] = {p.data : p \in {b \in bucket' : b.file = f}}
    BY <1>5 DEF content
  <2>7. Chunk(u, j) \in content[f]
    BY <2>1, <2>3, <2>5
  \* The piece is in no other object.
  <2>8. ASSUME NEW b \in bucket, b.file = f PROVE b \in bucket' <=> b.data # Chunk(u, j)
    <3>1. b.index \in Nat /\ b.data = Chunk(u, b.index)
      BY <2>2, <2>8, OneObject, IndicesAreNat
    <3>2. b.data = Chunk(u, j) <=> b.index = j
      BY <2>3, <3>1, ChunksDiffer
    <3> QED
      BY <1>3, <2>8, <3>2
  <2>9. content'[f] = content[f] \ {Chunk(u, j)}
    BY <1>4, <2>5, <2>6, <2>8
  <2>10. ASSUME NEW g \in Files, g # f PROVE content'[g] = content[g]
    <3>1. \A b : b \in bucket /\ b.file = g <=> b \in bucket' /\ b.file = g
      BY <1>3, <1>4, <2>10
    <3> QED
      BY <3>1 DEF content
  <2>11. content = [g \in Files |-> content[g]] /\ content' = [g \in Files |-> content'[g]]
    BY DEF content
  <2>12. content' = [content EXCEPT ![f] = @ \ {Chunk(u, j)}]
    BY <2>9, <2>10, <2>11
  <2>13. FS!Remove(f)
    BY <1>11, <1>12, <2>4, <2>7, <2>12 DEF FS!Remove
  <2> QED
    BY <1>5, <1>11, <2>13 DEF FS!Next
<1> QED
  BY <1>13, <1>14

LEMMA RemoveFailsStep ==
  ASSUME IInv, NEW x \in Deletes, RemoveFails(x)
  PROVE  IInv' /\ UNCHANGED FS!vars
<1>1. /\ pc[x] = "working" /\ pc' = [pc EXCEPT ![x] = "500"]
      /\ UNCHANGED <<bucket, asked, task, fetched, listed, quiet>>
  BY DEF RemoveFails, failedDelete
<1>2. pc'[x] = "500" /\ \A r \in Requests \ {x} : pc'[r] = pc[r]
  BY <1>1, Disjoint DEF IInv, Types, PcType
<1>3. (\A u \in Uploads : pc'[u] = pc[u]) /\ (\A y \in Deletes \ {x} : pc'[y] = pc[y])
  BY <1>2, Disjoint
<1>4. Types'
  <2>1. PcType'
    BY <1>1 DEF IInv, Types, PcType, Ended, Answers
  <2> QED
    BY <1>1, <2>1 DEF IInv, Types, TaskType, AskedType, ListedType, QuietType, FetchedType
<1>5. Kept'
  <2>1. \A f : Asked(f) => Asked(f)'
    BY <1>2, <1>3 DEF Asked, DeletesOf
  <2> QED
    BY <1>1, <2>1 DEF IInv, Kept
<1>6. QuietUploads' /\ QuietListed' /\ QuietGone'
  BY <1>1, <1>2, <1>3 DEF IInv, QuietUploads, QuietListed, QuietGone
<1>7. phase' = phase
  BY <1>1, <1>2, <1>3, SamePhase
<1> QED
  BY <1>1, <1>2, <1>4, <1>5, <1>6, <1>7, DeleteFrame, SameContent DEF IInv, FS!vars

LEMMA EndDeleteStep ==
  ASSUME IInv, NEW x \in Deletes, EndDelete(x)
  PROVE  IInv' /\ [FS!Next]_FS!vars
<1> DEFINE f == FileOf[x]
<1>1. /\ pc[x] = "working" /\ listed[x] = {} /\ pc' = [pc EXCEPT ![x] = "200"]
      /\ UNCHANGED <<bucket, asked, task, fetched, listed, quiet>>
  BY DEF EndDelete
<1>2. pc'[x] = "200" /\ \A r \in Requests \ {x} : pc'[r] = pc[r]
  BY <1>1, Disjoint DEF IInv, Types, PcType
<1>3. (\A u \in Uploads : pc'[u] = pc[u]) /\ (\A y \in Deletes \ {x} : pc'[y] = pc[y])
  BY <1>2, Disjoint
<1>4. Types'
  <2>1. PcType'
    BY <1>1 DEF IInv, Types, PcType, Ended, Answers
  <2> QED
    BY <1>1, <2>1 DEF IInv, Types, TaskType, AskedType, ListedType, QuietType, FetchedType
<1>5. Kept'
  <2>1. \A g : Asked(g) => Asked(g)'
    BY <1>2, <1>3 DEF Asked, DeletesOf
  <2> QED
    BY <1>1, <2>1 DEF IInv, Kept
<1>6. quiet[x] => \A o \in bucket : o.file # FileOf[x]
  BY <1>1 DEF IInv, QuietListed
<1>7. QuietUploads' /\ QuietListed' /\ QuietGone'
  BY <1>1, <1>2, <1>3, <1>6 DEF IInv, QuietUploads, QuietListed, QuietGone
<1>8. IInv' /\ content' = content /\ answer' = answer /\ got' = got
  BY <1>1, <1>2, <1>4, <1>5, <1>7, DeleteFrame, SameContent DEF IInv
<1>9. x \in DeletesOf(f) /\ f \in Files /\ \A g : x \in DeletesOf(g) => g = f
  BY DEF DeletesOf, Files, Requests
<1> HIDE DEF f
<1>10. ASSUME NEW g \in Files
       PROVE  /\ (\E y \in DeletesOf(g) : pc'[y] # "idle") <=> (\E y \in DeletesOf(g) : pc[y] # "idle")
              /\ (\E u \in Uploads : FileOf[u] = g /\ pc'[u] = "200")
                   <=> (\E u \in Uploads : FileOf[u] = g /\ pc[u] = "200")
              /\ g # f \/ ~ quiet[x] =>
                   ((\E y \in DeletesOf(g) : pc'[y] = "200" /\ quiet'[y])
                      <=> (\E y \in DeletesOf(g) : pc[y] = "200" /\ quiet[y]))
  BY <1>1, <1>2, <1>3, <1>9 DEF DeletesOf
<1>11. ASSUME NEW g \in Files, g # f \/ ~ quiet[x] PROVE phase'[g] = phase[g]
  BY <1>10, <1>11, Zenon DEF phase
<1>12. phase = [g \in Files |-> phase[g]] /\ phase' = [g \in Files |-> phase'[g]]
  BY DEF phase
<1>13. CASE ~ quiet[x]
  <2>1. phase' = phase
    BY <1>11, <1>12, <1>13
  <2> QED
    BY <1>8, <2>1 DEF FS!vars
<1>14. CASE quiet[x]
  <2>1. phase'[f] = "gone"
    BY <1>1, <1>2, <1>9, <1>14 DEF phase
  <2>2. phase[f] \in {"gone", "deleting"}
    BY <1>1, <1>9 DEF phase
  <2>3. CASE phase[f] = "gone"
    <3>1. phase' = phase
      BY <1>11, <1>12, <2>1, <2>3
    <3> QED
      BY <1>8, <3>1 DEF FS!vars
  <2>4. CASE phase[f] = "deleting"
    <3>1. content[f] = {}
      BY <1>6, <1>9, <1>14 DEF content, f
    <3>2. phase' = [phase EXCEPT ![f] = "gone"]
      BY <1>11, <1>12, <2>1
    <3>3. FS!Confirm(f)
      BY <1>8, <2>4, <3>1, <3>2 DEF FS!Confirm
    <3> QED
      BY <1>8, <1>9, <3>3 DEF FS!Next
  <2> QED
    BY <2>2, <2>3, <2>4
<1> QED
  BY <1>13, <1>14

-----------------------------------------------------------------------------

LEMMA CrashStep ==
  ASSUME IInv, Crash
  PROVE  IInv' /\ [FS!Next]_FS!vars
<1>1. /\ pc' = [r \in Requests |-> IF pc[r] = "working" THEN "lost" ELSE pc[r]]
      /\ UNCHANGED <<bucket, asked, task, fetched, listed, quiet>>
  BY DEF Crash
<1>2. ASSUME NEW r \in Requests
      PROVE  /\ pc'[r] = "idle" <=> pc[r] = "idle"
             /\ pc'[r] = "200" <=> pc[r] = "200"
             /\ pc'[r] # "working"
             /\ pc[r] \in Ended => pc'[r] = pc[r]
             /\ pc[r] = "working" => pc'[r] = "lost"
             /\ pc[r] # "working" => pc'[r] = pc[r]
  BY <1>1 DEF Ended, Answers
<1>3. Types'
  <2>1. PcType'
    BY <1>1 DEF IInv, Types, PcType, Ended
  <2> QED
    BY <1>1, <2>1 DEF IInv, Types, TaskType, AskedType, ListedType, QuietType, FetchedType
<1>4. BucketInv'
  BY <1>1 DEF IInv, BucketInv
<1>5. UploadTasks' /\ DownloadTasks'
  BY <1>1, <1>2, Disjoint DEF IInv, UploadTasks, DownloadTasks
<1>6. Kept'
  <2>1. \A f : Asked(f) => Asked(f)'
    BY <1>2, Disjoint DEF Asked, DeletesOf
  <2> QED
    BY <1>1, <2>1 DEF IInv, Kept
<1>7. QuietUploads'
  BY <1>1, <1>2, Disjoint DEF IInv, QuietUploads
<1>8. QuietListed' /\ QuietGone'
  BY <1>1, <1>2, Disjoint DEF IInv, QuietListed, QuietGone
<1>9. GotInv'
  BY <1>1, GotFrame DEF IInv, DoneTasks
<1>10. phase' = phase
  BY <1>1, <1>2, Disjoint, SamePhase
<1>11. content' = content /\ got' = got
  BY <1>1, SameContent, SameGot
<1> DEFINE ds == {d \in Downloads : pc[d] = "working"}
<1>12. FS!Refuse(ds)
  <2>1. \A d \in ds : answer[d] = "open"
    BY DEF answer, Ended, Answers
  <2>2. answer' = [d \in Downloads |-> IF d \in ds THEN "refused" ELSE answer[d]]
    <3>1. ASSUME NEW d \in Downloads
          PROVE  answer'[d] = IF d \in ds THEN "refused" ELSE answer[d]
      <4>1. CASE d \in ds
        <5>1. pc'[d] = "lost"
          BY <1>2, <4>1, Disjoint
        <5> QED
          BY <4>1, <5>1 DEF answer, Ended
      <4>2. CASE d \notin ds
        <5>1. pc'[d] = pc[d]
          BY <1>2, <4>2, Disjoint
        <5> QED
          BY <4>2, <5>1 DEF answer
      <4> QED
        BY <4>1, <4>2
    <3>2. answer' = [d \in Downloads |-> answer'[d]]
      BY DEF answer
    <3> HIDE DEF ds
    <3> QED
      BY <3>1, <3>2
  <2> QED
    BY <1>10, <1>11, <2>1, <2>2 DEF FS!Refuse
<1> QED
  BY <1>3, <1>4, <1>5, <1>6, <1>7, <1>8, <1>9, <1>12 DEF IInv, FS!Next

LEMMA StutterStep ==
  ASSUME IInv, UNCHANGED vars
  PROVE  IInv' /\ UNCHANGED FS!vars
<1>1. UNCHANGED <<bucket, pc, asked, task, fetched, listed, quiet>>
  BY DEF vars
<1>2. Types' /\ BucketInv' /\ UploadTasks' /\ DownloadTasks'
  BY <1>1 DEF IInv, Types, PcType, TaskType, AskedType, ListedType, QuietType, FetchedType,
     BucketInv, UploadTasks, DownloadTasks
<1>3. Kept' /\ QuietUploads' /\ QuietListed' /\ QuietGone'
  BY <1>1 DEF IInv, Kept, Asked, QuietUploads, QuietListed, QuietGone
<1>4. GotInv'
  BY <1>1, GotFrame DEF IInv, DoneTasks
<1>5. phase' = phase /\ answer' = answer /\ got' = got /\ content' = content
  BY <1>1, SamePhase, SameAnswer, SameGot, SameContent
<1> QED
  BY <1>2, <1>3, <1>4, <1>5 DEF IInv, FS!vars

LEMMA InitStep == ASSUME Init PROVE IInv /\ FS!Init
<1>1. \A r \in Requests : pc[r] = "idle"
  BY DEF Init
<1>2. bucket = {} /\ \A d \in Downloads : fetched[d] = <<>>
  BY DEF Init
<1>3. \A r \in Uploads \cup Downloads : \A i \in AllIndices : task[r][i] = "none"
  BY DEF Init
<1>4. Types
  BY DEF Init, Types, PcType, TaskType, TaskStates, AskedType, ListedType, QuietType, FetchedType
<1>5. BucketInv /\ UploadTasks /\ DownloadTasks /\ Kept
  BY <1>1, <1>2, <1>3, Disjoint DEF BucketInv, UploadTasks, DownloadTasks, Kept
<1>6. QuietUploads /\ QuietListed /\ QuietGone
  BY <1>1, Disjoint DEF QuietUploads, QuietListed, QuietGone
<1>7. \A d \in Downloads : got[d] = {}
  BY <1>2 DEF got
<1>8. GotInv
  BY <1>3, <1>7 DEF GotInv, DoneTasks
<1>9. phase = [f \in Files |-> "none"]
  BY <1>1, Disjoint DEF phase, DeletesOf
<1>10. content = [f \in Files |-> {}]
  BY <1>2 DEF content
<1>11. got = [d \in Downloads |-> {}]
  BY <1>7 DEF got
<1>12. answer = [d \in Downloads |-> "open"]
  BY <1>1, Disjoint DEF answer, Ended, Answers
<1> QED
  BY <1>4, <1>5, <1>6, <1>8, <1>9, <1>10, <1>11, <1>12 DEF IInv, FS!Init

LEMMA NextStep ==
  ASSUME FreshIds, Fits
  PROVE  IInv /\ [Next]_vars => IInv' /\ [FS!Next]_FS!vars
<1> SUFFICES ASSUME IInv, [Next]_vars PROVE IInv' /\ [FS!Next]_FS!vars
  OBVIOUS
<1>1. ASSUME NEW u \in Uploads, UploadStep(u) PROVE IInv' /\ [FS!Next]_FS!vars
  <2>1. ASSUME NEW i \in AllIndices, PutChunk(u, i) PROVE IInv' /\ [FS!Next]_FS!vars
    BY <2>1, PutStep DEF PutChunk
  <2>2. ASSUME NEW i \in AllIndices, PutFails(u, i) PROVE IInv' /\ [FS!Next]_FS!vars
    BY <2>2, PutStep DEF PutFails
  <2> QED
    BY <1>1, <2>1, <2>2, EndUploadStep DEF UploadStep
<1>2. ASSUME NEW d \in Downloads, DownloadStep(d) PROVE IInv' /\ [FS!Next]_FS!vars
  <2>1. ASSUME NEW i \in AllIndices, FetchChunk(d, i) PROVE IInv' /\ [FS!Next]_FS!vars
    <3>1. Running(d, i) /\ UNCHANGED <<bucket, pc, asked, listed, quiet>>
      BY <2>1 DEF FetchChunk
    <3>2. \/ \E result \in Unsuccessful : Finish(d, i, result) /\ UNCHANGED fetched
          \/ \E o \in Stored(FileOf[d], i) :
               /\ Finish(d, i, "done")
               /\ fetched' = [fetched EXCEPT ![d] = Append(@, [index |-> i, data |-> o.data])]
      BY <2>1 DEF FetchChunk, Unsuccessful
    <3>3. CASE \E result \in Unsuccessful : Finish(d, i, result) /\ UNCHANGED fetched
      BY <3>1, <3>3, FetchNothing
    <3>4. ASSUME NEW o \in Stored(FileOf[d], i), Finish(d, i, "done"),
                 fetched' = [fetched EXCEPT ![d] = Append(@, [index |-> i, data |-> o.data])]
          PROVE  IInv' /\ [FS!Next]_FS!vars
      <4>1. IInv' /\ FS!Collect(d)
        BY <3>1, <3>4, FetchOne
      <4> QED
        BY <4>1 DEF FS!Next
    <3> QED
      BY <3>2, <3>3, <3>4
  <2>2. ASSUME NEW i \in AllIndices, FetchFails(d, i) PROVE IInv' /\ [FS!Next]_FS!vars
    BY <2>2, FetchNothing DEF FetchFails
  <2> QED
    BY <1>2, <2>1, <2>2, EndDownloadStep DEF DownloadStep
<1>3. ASSUME NEW x \in Deletes, DeleteStep(x) PROVE IInv' /\ [FS!Next]_FS!vars
  BY <1>3, RemoveObjectStep, RemoveFailsStep, EndDeleteStep DEF DeleteStep
<1>4. CASE Finished \/ UNCHANGED vars
  BY <1>4, StutterStep DEF Finished
<1> QED
  BY <1>1, <1>2, <1>3, <1>4, StartUploadStep, StartDownloadStep, CancelRestStep, ListObjectsStep,
     CrashStep DEF Next

\* The service implements FileStore: an upload that was answered with success
\* is complete in the bucket until a delete of it starts, a delete that no
\* upload could cross leaves nothing behind for good, and a download is served
\* the chunks from the first on, whatever fails and whenever the service restarts.
THEOREM Refinement ==
  ASSUME FreshIds, Fits
  PROVE  Spec => ImplementsFileStore
<1>1. Init => IInv /\ FS!Init
  BY InitStep
<1>2. IInv /\ [Next]_vars => IInv' /\ [FS!Next]_FS!vars
  BY NextStep
<1> QED
  BY <1>1, <1>2, PTL DEF Spec, ImplementsFileStore, FS!Spec

-----------------------------------------------------------------------------
(* What a download has fetched.                                            *)

\* As many chunks as tasks are done, one for each of them, and each the chunk of
\* that index of an upload of the file under the password asked for.
Counted(d) == Len(fetched[d]) = Cardinality(DoneTasks(d))
Present(d) == \A i \in DoneTasks(d) : \E j \in DOMAIN fetched[d] : fetched[d][j].index = i
Genuine(d) == \A j \in DOMAIN fetched[d] : \E u \in Uploads :
  /\ FileOf[u] = FileOf[d] /\ PasswordOf[u] = asked[d].password
  /\ fetched[d][j].index \in DoneTasks(d)
  /\ fetched[d][j].data = Chunk(u, fetched[d][j].index)

FetchedInv == \A d \in Downloads : Counted(d) /\ Present(d) /\ Genuine(d)

LEMMA DoneIsFinite == ASSUME NEW d PROVE IsFiniteSet(DoneTasks(d))
<1>1. IsFiniteSet(AllIndices)
  BY StorageAssumption, FS_Interval DEF AllIndices
<1> QED
  BY <1>1, FS_Subset DEF DoneTasks

\* Every other step leaves what was fetched and which tasks are done alone.
LEMMA FetchedFrame ==
  ASSUME FetchedInv, UNCHANGED <<fetched, asked>>,
         \A d \in Downloads : DoneTasks(d)' = DoneTasks(d)
  PROVE  FetchedInv'
<1>1. ASSUME NEW d \in Downloads PROVE Counted(d)' /\ Present(d)' /\ Genuine(d)'
  <2>1. DoneTasks(d)' = DoneTasks(d)
    OBVIOUS
  <2>2. Counted(d) /\ Present(d) /\ Genuine(d)
    BY DEF FetchedInv
  <2> QED
    BY <2>1, <2>2 DEF Counted, Present, Genuine
<1> QED
  BY <1>1 DEF FetchedInv

LEMMA FetchInv ==
  ASSUME IInv, FetchedInv, NEW d \in Downloads, NEW i \in AllIndices, Running(d, i),
         Finish(d, i, "done"), NEW o \in Stored(FileOf[d], i), decrypts(d, o),
         fetched' = [fetched EXCEPT ![d] = Append(@, [index |-> i, data |-> o.data])],
         UNCHANGED asked
  PROVE  FetchedInv'
<1> DEFINE e == [index |-> i, data |-> o.data]
<1>1. task[d][i] = "waiting"
  BY DEF Running, Pending
<1>2. /\ task'[d][i] = "done"
      /\ \A j \in AllIndices \ {i} : task'[d][j] = task[d][j]
      /\ \A r \in (Uploads \cup Downloads) \ {d} : task'[r] = task[r]
  BY DEF Finish, IInv, Types, TaskType
<1>3. PICK u \in Uploads : FileOf[u] = FileOf[d] /\ o.data = Chunk(u, i)
  BY DEF IInv, BucketInv, Stored, Object
<1>4. PasswordOf[u] = asked[d].password
  BY <1>3 DEF decrypts, Chunk
<1>5. e \in [index : AllIndices, data : Data] /\ e.index = i /\ e.data = o.data
  BY <1>3, ChunkIsData, IndicesAreNat
<1>6. /\ fetched'[d] = Append(fetched[d], e)
      /\ \A c \in Downloads \ {d} : fetched'[c] = fetched[c]
  BY DEF IInv, Types, FetchedType
<1> HIDE DEF e
<1>7. i \notin DoneTasks(d) /\ DoneTasks(d)' = DoneTasks(d) \cup {i}
  BY <1>1, <1>2 DEF DoneTasks
<1>8. \A c \in Downloads \ {d} : DoneTasks(c)' = DoneTasks(c)
  BY <1>2 DEF DoneTasks
<1>9. fetched[d] \in Seq([index : AllIndices, data : Data])
  BY DEF IInv, Types, FetchedType
<1>10. /\ Len(fetched'[d]) = Len(fetched[d]) + 1
       /\ DOMAIN fetched'[d] = DOMAIN fetched[d] \cup {Len(fetched[d]) + 1}
       /\ fetched'[d][Len(fetched[d]) + 1] = e
       /\ \A j \in DOMAIN fetched[d] : fetched'[d][j] = fetched[d][j]
  BY <1>5, <1>6, <1>9
<1>11. Counted(d) /\ Present(d) /\ Genuine(d)
  BY DEF FetchedInv
<1>12. Counted(d)'
  <2>1. Cardinality(DoneTasks(d) \cup {i}) = Cardinality(DoneTasks(d)) + 1
    BY <1>7, DoneIsFinite, FS_AddElement
  <2> QED
    BY <1>7, <1>10, <1>11, <2>1 DEF Counted
<1>13. Present(d)'
  BY <1>5, <1>7, <1>10, <1>11 DEF Present
<1>14. Genuine(d)'
  <2>1. \E v \in Uploads : /\ FileOf[v] = FileOf[d] /\ PasswordOf[v] = asked[d].password
                           /\ e.index \in DoneTasks(d)'
                           /\ e.data = Chunk(v, e.index)
    BY <1>3, <1>4, <1>5, <1>7
  <2> QED
    BY <1>7, <1>10, <1>11, <2>1 DEF Genuine
<1>15. ASSUME NEW c \in Downloads, c # d PROVE Counted(c)' /\ Present(c)' /\ Genuine(c)'
  <2>1. DoneTasks(c)' = DoneTasks(c) /\ fetched'[c] = fetched[c]
    BY <1>6, <1>8, <1>15
  <2>2. Counted(c) /\ Present(c) /\ Genuine(c)
    BY DEF FetchedInv
  <2>3. Counted(c)'
    BY <2>1, <2>2 DEF Counted
  <2>4. Present(c)'
    BY <2>1, <2>2 DEF Present
  <2>5. Genuine(c)'
    BY <2>1, <2>2 DEF Genuine
  <2> QED
    BY <2>3, <2>4, <2>5
<1> QED
  BY <1>12, <1>13, <1>14, <1>15 DEF FetchedInv

LEMMA FetchedStep == ASSUME IInv, FetchedInv, [Next]_vars PROVE FetchedInv'
<1>1. ASSUME NEW d \in Downloads, NEW i \in AllIndices, FetchChunk(d, i) PROVE FetchedInv'
  <2>1. Running(d, i) /\ UNCHANGED asked
    BY <1>1 DEF FetchChunk
  <2>2. \/ \E result \in Unsuccessful : Finish(d, i, result) /\ UNCHANGED fetched
        \/ \E o \in Stored(FileOf[d], i) :
             /\ Finish(d, i, "done") /\ decrypts(d, o)
             /\ fetched' = [fetched EXCEPT ![d] = Append(@, [index |-> i, data |-> o.data])]
    BY <1>1 DEF FetchChunk, Unsuccessful
  <2>3. ASSUME NEW result \in Unsuccessful, Finish(d, i, result), UNCHANGED fetched
        PROVE  FetchedInv'
    <3>1. \A c \in Downloads : DoneTasks(c)' = DoneTasks(c)
      BY <2>1, <2>3 DEF DoneTasks, Running, Pending, Finish, Unsuccessful, IInv, Types, TaskType
    <3> QED
      BY <2>1, <2>3, <3>1, FetchedFrame
  <2>4. ASSUME NEW o \in Stored(FileOf[d], i), Finish(d, i, "done"), decrypts(d, o),
               fetched' = [fetched EXCEPT ![d] = Append(@, [index |-> i, data |-> o.data])]
        PROVE  FetchedInv'
    BY <2>1, <2>4, FetchInv
  <2> QED
    BY <2>2, <2>3, <2>4
<1>2. ASSUME NEW d \in Downloads, NEW i \in AllIndices, FetchFails(d, i) PROVE FetchedInv'
  <2>1. \A c \in Downloads : DoneTasks(c)' = DoneTasks(c)
    BY <1>2 DEF DoneTasks, FetchFails, Running, Pending, Finish, Unsuccessful, IInv, Types, TaskType
  <2> QED
    BY <1>2, <2>1, FetchedFrame DEF FetchFails
<1>3. ASSUME NEW d \in Downloads, StartDownload(d) PROVE FetchedInv'
  <2>1. \A c \in Downloads : DoneTasks(c)' = DoneTasks(c)
    BY <1>3 DEF DoneTasks, StartDownload, IInv, Types, TaskType, DownloadTasks
  <2> QED
    BY <1>3, <2>1, FetchedFrame DEF StartDownload
<1>4. ASSUME NEW r \in Uploads \cup Downloads, CancelRest(r) PROVE FetchedInv'
  <2>1. \A c \in Downloads : DoneTasks(c)' = DoneTasks(c)
    BY <1>4 DEF DoneTasks, CancelRest, Pending, IInv, Types, TaskType
  <2> QED
    BY <1>4, <2>1, FetchedFrame DEF CancelRest
\* The steps of an upload touch its own tasks only, the others none.
<1>5. ASSUME UNCHANGED <<fetched, asked>>, \A d \in Downloads : task'[d] = task[d] PROVE FetchedInv'
  BY <1>5, FetchedFrame DEF DoneTasks
<1>6. ASSUME NEW u \in Uploads, StartUpload(u) \/ UploadStep(u) PROVE FetchedInv'
  <2>1. UNCHANGED <<fetched, asked>>
    BY <1>6 DEF StartUpload, UploadStep, PutChunk, PutFails, EndUpload
  <2>2. \A d \in Downloads : d # u
    BY Disjoint
  <2>3. \A d \in Downloads : task'[d] = task[d]
    BY <1>6, <2>2
       DEF StartUpload, UploadStep, PutChunk, PutFails, EndUpload, Finish, IInv, Types, TaskType
  <2> QED
    BY <1>5, <2>1, <2>3
<1>7. ASSUME NEW d \in Downloads, EndDownload(d) PROVE FetchedInv'
  BY <1>5, <1>7 DEF EndDownload
<1>8. ASSUME NEW x \in Deletes, ListObjects(x) \/ DeleteStep(x) PROVE FetchedInv'
  BY <1>5, <1>8 DEF ListObjects, DeleteStep, RemoveObject, RemoveFails, EndDelete
<1>9. CASE Crash
  BY <1>5, <1>9 DEF Crash
<1>10. CASE Finished \/ UNCHANGED vars
  BY <1>5, <1>10 DEF Finished, vars
<1> QED
  BY <1>1, <1>2, <1>3, <1>4, <1>6, <1>7, <1>8, <1>9, <1>10 DEF Next, DownloadStep

LEMMA FetchedInit == ASSUME Init PROVE FetchedInv
<1>1. ASSUME NEW d \in Downloads PROVE fetched[d] = <<>> /\ DoneTasks(d) = {}
  BY DEF Init, DoneTasks
<1> QED
  BY <1>1, FS_EmptySet DEF FetchedInv, Counted, Present, Genuine

-----------------------------------------------------------------------------
(* From the chunks to the file.                                            *)

\* Chunks from the first on, in the order of their indices, cover the bytes of
\* the upload without a gap, and all of them cover the whole file.
LEMMA ChunksCover ==
  ASSUME NEW u \in Uploads, NEW n \in Nat \ {0}, n <= Size(u)
  PROVE  LET chunks == [k \in 1 .. n |-> Chunk(u, k - 1)]
         IN \E upTo \in 0 .. SizeOf[u] : /\ Covers(chunks, u, upTo)
                                         /\ n = Size(u) => upTo = SizeOf[u]
<1> DEFINE S == SizeOf[u]
           C == ChunkSize
           chunks == [k \in 1 .. n |-> Chunk(u, k - 1)]
           upTo == IF n * C > S THEN S ELSE n * C
<1>1. S \in Nat /\ C \in Nat \ {0}
  BY StorageAssumption
<1>2. Size(u) \in Nat \ {0}
  BY SizesAreNat
<1>3. S # 0 => Size(u) = (S + C - 1) \div C
  BY DEF Size, NumChunks, CeilDiv
<1>4. S = 0 => Size(u) = 1
  BY DEF Size, NumChunks
<1> HIDE DEF S, C
<1>5. S # 0 => Size(u) * C >= S /\ (Size(u) - 1) * C < S
  BY <1>1, <1>3
<1>6. ASSUME NEW k \in 1 .. n, k # 1 PROVE (k - 1) * C <= S /\ k - 1 \in 1 .. n
  <2>1. S # 0 /\ k - 1 \in 0 .. Size(u) - 1
    BY <1>2, <1>4, <1>6
  <2>2. (k - 1) * C <= (Size(u) - 1) * C
    BY <1>1, <1>2, <2>1
  <2> QED
    BY <1>1, <1>2, <1>5, <1>6, <2>1, <2>2
<1>7. ASSUME NEW k \in 1 .. n
      PROVE  /\ chunks[k].upload = u
             /\ chunks[k].from = (k - 1) * C
             /\ chunks[k].to = IF k * C > S THEN S ELSE k * C
  <2>1. (k - 1) + 1 = k
    OBVIOUS
  <2> QED
    BY <2>1 DEF Chunk, S, C
<1>8. DOMAIN chunks = 1 .. n /\ Len(chunks) = n /\ chunks # <<>>
  OBVIOUS
<1> HIDE DEF chunks
<1>9. ASSUME NEW k \in 1 .. n
      PROVE  chunks[k].from = IF k = 1 THEN 0 ELSE chunks[k - 1].to
  <2>1. CASE k = 1
    BY <1>1, <1>7, <2>1
  <2>2. CASE k # 1
    <3>1. chunks[k - 1].to = (k - 1) * C
      BY <1>1, <1>6, <1>7, <2>2
    <3> QED
      BY <1>7, <2>2, <3>1
  <2> QED
    BY <2>1, <2>2
<1>10. upTo = chunks[Len(chunks)].to
  BY <1>7, <1>8
<1>11. upTo \in 0 .. S
  <2>1. n * C \in Nat
    BY <1>1
  <2> QED
    BY <1>1, <2>1
<1>12. n = Size(u) => upTo = S
  <2>1. CASE S = 0
    BY <1>1, <1>4, <2>1
  <2>2. CASE S # 0
    BY <1>1, <1>5, <2>2
  <2> QED
    BY <2>1, <2>2
<1> HIDE DEF upTo
<1>13. Covers(chunks, u, upTo)
  BY <1>7, <1>8, <1>9, <1>10 DEF Covers
<1> QED
  BY <1>11, <1>12, <1>13 DEF chunks, S

\* A download whose tasks are all done holds one chunk for every index asked
\* for, which Joined puts in its place whatever the order of arrival.
LEMMA JoinedIsInOrder ==
  ASSUME FreshIds, IInv, FetchedInv, NEW d \in Downloads, asked[d].chunks > 0,
         DoneTasks(d) = 0 .. asked[d].chunks - 1
  PROVE  \E u \in Uploads :
           /\ FileOf[u] = FileOf[d] /\ PasswordOf[u] = asked[d].password
           /\ asked[d].chunks \in Nat \ {0} /\ asked[d].chunks <= Size(u)
           /\ Joined(d) = [k \in 1 .. asked[d].chunks |-> Chunk(u, k - 1)]
<1> DEFINE n == asked[d].chunks
<1>1. n \in Nat \ {0}
  BY StorageAssumption DEF IInv, Types, AskedType
<1>2. Counted(d) /\ Present(d) /\ Genuine(d)
  BY DEF FetchedInv
<1>3. DoneTasks(d) = 0 .. n - 1
  OBVIOUS
<1> HIDE DEF n
<1>13. ASSUME NEW i \in Nat, i < n PROVE i \in DoneTasks(d)
  <2>1. i \in 0 .. n - 1
    BY <1>1, <1>13
  <2> QED
    BY <1>3, <2>1, Zenon
<1>14. n - 1 \in Nat /\ n - 1 < n
  BY <1>1
<1>4. Len(fetched[d]) = n
  <2>1. Cardinality(0 .. n - 1) = n
    BY <1>1, FS_Interval
  <2> QED
    BY <1>2, <1>3, <2>1 DEF Counted
<1>5. PICK j \in DOMAIN fetched[d] : fetched[d][j].index = n - 1
  BY <1>2, <1>13, <1>14 DEF Present
<1>6. PICK u \in Uploads : FileOf[u] = FileOf[d] /\ PasswordOf[u] = asked[d].password
  BY <1>2 DEF Genuine
<1>7. UploadOf(FileOf[d]) = u
  BY <1>6, OneUpload
<1>8. n <= Size(u)
  <2>1. n - 1 \in DoneTasks(d)
    BY <1>13, <1>14
  <2>2. n - 1 < Size(u) /\ Size(u) \in Nat
    BY <1>7, <2>1, SizesAreNat DEF IInv, GotInv
  <2> QED
    BY <1>1, <2>2
<1>9. ASSUME NEW i \in DOMAIN fetched[d]
      PROVE  fetched[d][i].data = Chunk(u, fetched[d][i].index)
  BY <1>2, <1>6 DEF Genuine, FreshIds
<1> DEFINE E == {fetched[d][i] : i \in DOMAIN fetched[d]}
<1>10. ASSUME NEW k \in 1 .. n
       PROVE  (CHOOSE e \in E : e.index = k - 1).data = Chunk(u, k - 1)
  <2>1. \E e \in E : e.index = k - 1
    <3>1. k - 1 \in DoneTasks(d)
      <4>1. k - 1 \in Nat /\ k - 1 < n
        BY <1>1
      <4> QED
        BY <1>13, <4>1
    <3> QED
      BY <1>2, <3>1 DEF Present
  <2>2. \A e \in E : e.index = k - 1 => e.data = Chunk(u, k - 1)
    BY <1>9
  <2> HIDE DEF E
  <2> QED
    BY <2>1, <2>2
<1>11. Joined(d) = [k \in 1 .. n |-> Chunk(u, k - 1)]
  BY <1>4, <1>10 DEF Joined
<1> QED
  BY <1>1, <1>6, <1>8, <1>11 DEF n

\* A download that was answered with success has all its tasks done.
ServedInv == \A d \in Downloads : pc[d] = "200" => AllDone(d)

LEMMA ServedStep == ASSUME IInv, ServedInv, [Next]_vars PROVE ServedInv'
<1> SUFFICES ASSUME NEW d \in Downloads, pc'[d] = "200" PROVE AllDone(d)'
  BY DEF ServedInv
\* Only EndDownload of this download answers it.
<1>1. ASSUME task'[d] = task[d], pc[d] = "200" PROVE AllDone(d)'
  BY <1>1 DEF ServedInv, AllDone, Tasks
<1>2. CASE EndDownload(d)
  <2>1. pc'[d] = downloadAnswer(d) /\ task' = task
    BY <1>2, Disjoint DEF EndDownload, IInv, Types, PcType
  <2>2. AllDone(d)
    BY <2>1 DEF downloadAnswer
  <2> QED
    BY <2>1, <2>2 DEF AllDone, Tasks
<1>3. ASSUME NEW e \in Downloads, e # d, StartDownload(e) \/ DownloadStep(e)
      PROVE  task'[d] = task[d] /\ pc'[d] = pc[d]
  BY <1>3, Disjoint DEF StartDownload, DownloadStep, EndDownload, FetchChunk, FetchFails, Finish,
     IInv, Types, TaskType, PcType
<1>4. ASSUME NEW u \in Uploads, StartUpload(u) \/ UploadStep(u)
      PROVE  task'[d] = task[d] /\ pc'[d] = pc[d]
  <2>1. u # d
    BY Disjoint
  <2> QED
    BY <1>4, <2>1, Disjoint DEF StartUpload, UploadStep, EndUpload, PutChunk, PutFails, Finish,
       IInv, Types, TaskType, PcType
<1>5. ASSUME NEW x \in Deletes, ListObjects(x) \/ DeleteStep(x)
      PROVE  task'[d] = task[d] /\ pc'[d] = pc[d]
  <2>1. x # d
    BY Disjoint
  <2> QED
    BY <1>5, <2>1, Disjoint DEF ListObjects, DeleteStep, RemoveObject, RemoveFails, failedDelete,
       EndDelete, IInv, Types, PcType
<1>6. ASSUME NEW r \in Uploads \cup Downloads, CancelRest(r) PROVE task'[d] = task[d] /\ pc'[d] = pc[d]
  <2>1. pc[r] = "working" /\ pc' = pc
    BY <1>6 DEF CancelRest
  <2>2. r # d
    BY <2>1
  <2> QED
    BY <1>6, <2>1, <2>2 DEF CancelRest, IInv, Types, TaskType
<1>7. CASE Crash
  <2>1. task' = task /\ pc[d] = "200"
    BY <1>7, Disjoint DEF Crash
  <2> QED
    BY <1>1, <2>1
<1>8. CASE Finished \/ UNCHANGED vars
  BY <1>1, <1>8 DEF Finished, vars
<1>9. ASSUME StartDownload(d) PROVE FALSE
  BY <1>9, Disjoint DEF StartDownload, IInv, Types, PcType
<1>10. ASSUME NEW i \in AllIndices, FetchChunk(d, i) \/ FetchFails(d, i) PROVE FALSE
  BY <1>10 DEF FetchChunk, FetchFails, Running
<1> QED
  BY <1>1, <1>2, <1>3, <1>4, <1>5, <1>6, <1>7, <1>8, <1>9, <1>10 DEF Next, DownloadStep

LEMMA ServedInit == ASSUME Init PROVE ServedInv
  BY Disjoint DEF Init, ServedInv

LEMMA ServedIsExact ==
  ASSUME FreshIds, IInv, FetchedInv, ServedInv
  PROVE  DownloadsAreExact
<1> SUFFICES ASSUME NEW d \in Downloads, pc[d] = "200", asked[d].chunks > 0
             PROVE  \E u \in Uploads :
                      /\ FileOf[u] = FileOf[d]
                      /\ PasswordOf[u] = asked[d].password
                      /\ Len(Joined(d)) = asked[d].chunks
                      /\ asked[d].chunks <= NumChunks(SizeOf[u])
                      /\ \E upTo \in 0 .. SizeOf[u] :
                           /\ Covers(Joined(d), u, upTo)
                           /\ asked[d].chunks = NumChunks(SizeOf[u]) => upTo = SizeOf[u]
  BY DEF DownloadsAreExact
<1>1. asked[d].chunks \in 0 .. MaxChunks
  BY DEF IInv, Types, AskedType
<1>2. DoneTasks(d) = 0 .. asked[d].chunks - 1
  <2>1. ASSUME NEW i \in AllIndices PROVE i \in DoneTasks(d) <=> i < asked[d].chunks
    BY DEF ServedInv, AllDone, Tasks, DoneTasks, IInv, DownloadTasks
  <2>2. \A i \in 0 .. asked[d].chunks - 1 : i \in AllIndices /\ i < asked[d].chunks
    BY <1>1, StorageAssumption DEF AllIndices
  <2>3. \A i \in AllIndices : i < asked[d].chunks => i \in 0 .. asked[d].chunks - 1
    BY <1>1, StorageAssumption DEF AllIndices
  <2>4. DoneTasks(d) \subseteq AllIndices
    BY DEF DoneTasks
  <2> QED
    BY <2>1, <2>2, <2>3, <2>4
<1>3. PICK u \in Uploads :
        /\ FileOf[u] = FileOf[d] /\ PasswordOf[u] = asked[d].password
        /\ asked[d].chunks \in Nat \ {0} /\ asked[d].chunks <= Size(u)
        /\ Joined(d) = [k \in 1 .. asked[d].chunks |-> Chunk(u, k - 1)]
  BY <1>2, JoinedIsInOrder
<1>4. Len(Joined(d)) = asked[d].chunks
  BY <1>3
<1>5. \E upTo \in 0 .. SizeOf[u] : /\ Covers(Joined(d), u, upTo)
                                   /\ asked[d].chunks = Size(u) => upTo = SizeOf[u]
  BY <1>3, ChunksCover
<1> QED
  BY <1>3, <1>4, <1>5 DEF Size

\* A download answered with success returns a stretch of one upload's bytes
\* from its start, without a gap, under the upload's password, and the whole
\* file when it asked for all chunks, in whatever order the pool fetched them.
THEOREM ExactDownloads ==
  ASSUME FreshIds, Fits
  PROVE  Spec => []DownloadsAreExact
<1> DEFINE Inv == IInv /\ FetchedInv /\ ServedInv
<1>1. Init => Inv
  BY InitStep, FetchedInit, ServedInit
<1>2. Inv /\ [Next]_vars => Inv'
  BY NextStep, FetchedStep, ServedStep
<1>3. Inv => DownloadsAreExact
  BY ServedIsExact
<1> QED
  BY <1>1, <1>2, <1>3, PTL DEF Spec

-----------------------------------------------------------------------------
(* Type correctness, which needs neither fresh ids nor a limit on files.   *)

TypeInv == TypeOK /\ FetchedType

LEMMA TypeStart == ASSUME Init PROVE TypeInv
<1>1. /\ failures \in 0 .. MaxFailures /\ crashes \in 0 .. MaxCrashes
  BY StorageAssumption DEF Init
<1>2. \A d \in Downloads : fetched[d] \in Seq([index : AllIndices, data : Data])
  BY DEF Init
<1>3. /\ pc \in [Requests -> {"idle", "working"} \cup Ended]
      /\ task \in [Uploads \cup Downloads -> [AllIndices -> TaskStates]]
  BY DEF Init, TaskStates
<1>4. /\ \A o \in bucket : o.index \in AllIndices /\ o.data \in Data
      /\ asked \in [Downloads -> [chunks : 0 .. MaxChunks, password : Passwords]]
      /\ listed \in [Deletes -> SUBSET AllIndices] /\ quiet \in [Deletes -> BOOLEAN]
      /\ fetched = [d \in Downloads |-> fetched[d]]
  BY DEF Init
<1> QED
  BY <1>1, <1>2, <1>3, <1>4 DEF TypeInv, TypeOK, FetchedType

\* A request moves on, or a task of its pool ends.
LEMMA MovesType ==
  ASSUME TypeInv, NEW r \in Requests, NEW to \in {"idle", "working"} \cup Ended,
         pc' = [pc EXCEPT ![r] = to]
  PROVE  pc' \in [Requests -> {"idle", "working"} \cup Ended]
  BY DEF TypeInv, TypeOK

LEMMA FinishType ==
  ASSUME TypeInv, NEW r \in Uploads \cup Downloads, NEW i \in AllIndices,
         NEW result \in TaskStates, Finish(r, i, result)
  PROVE  task' \in [Uploads \cup Downloads -> [AllIndices -> TaskStates]]
  BY DEF TypeInv, TypeOK, Finish

LEMMA PoolType ==
  ASSUME TypeInv, NEW r \in Uploads \cup Downloads, NEW pool \in [AllIndices -> TaskStates],
         task' = [task EXCEPT ![r] = pool]
  PROVE  task' \in [Uploads \cup Downloads -> [AllIndices -> TaskStates]]
  BY DEF TypeInv, TypeOK

LEMMA FailsType == ASSUME TypeInv, Fails PROVE failures' \in 0 .. MaxFailures
  BY StorageAssumption DEF TypeInv, TypeOK, Fails

\* What a put leaves in the bucket is the chunk under its index.
LEMMA PutType ==
  ASSUME TypeInv, NEW u \in Uploads, NEW i \in AllIndices, bucket' \in {bucket, Put(u, i)}
  PROVE  \A o \in bucket' : o.index \in AllIndices /\ o.data \in Data
<1>1. Chunk(u, i) \in Data
  BY IndicesAreNat, ChunkIsData
<1> QED
  BY <1>1 DEF TypeInv, TypeOK, Put, Object

LEMMA UploadType ==
  ASSUME TypeInv, NEW u \in Uploads, StartUpload(u) \/ UploadStep(u)
  PROVE  TypeInv'
<1>1. u \in Requests /\ u \in Uploads \cup Downloads
  BY DEF Requests
<1>2. {"idle", "working"} \cup Ended = {"idle", "working", "200", "400", "404", "500", "lost"}
  BY DEF Ended, Answers
<1>3. CASE StartUpload(u)
  <2> DEFINE pool == [i \in AllIndices |-> IF i < NumChunks(SizeOf[u]) THEN "waiting" ELSE "none"]
  <2>1. pool \in [AllIndices -> TaskStates]
    BY DEF TaskStates
  <2> HIDE DEF pool
  <2>2. task' = [task EXCEPT ![u] = pool] /\ pc' = [pc EXCEPT ![u] = "working"]
    BY <1>3 DEF StartUpload, pool
  <2>3. /\ task' \in [Uploads \cup Downloads -> [AllIndices -> TaskStates]]
        /\ pc' \in [Requests -> {"idle", "working"} \cup Ended]
    BY <1>1, <1>2, <2>1, <2>2, PoolType, MovesType
  <2> QED
    BY <1>3, <2>3 DEF StartUpload, TypeInv, TypeOK, FetchedType
<1>4. CASE EndUpload(u)
  <2>1. pc' \in [Requests -> {"idle", "working"} \cup Ended]
    BY <1>1, <1>2, <1>4, MovesType DEF EndUpload, uploadAnswer
  <2> QED
    BY <1>4, <2>1 DEF EndUpload, TypeInv, TypeOK, FetchedType
<1>5. ASSUME NEW i \in AllIndices, PutChunk(u, i) PROVE TypeInv'
  <2>1. /\ task' \in [Uploads \cup Downloads -> [AllIndices -> TaskStates]]
        /\ \A o \in bucket' : o.index \in AllIndices /\ o.data \in Data
    BY <1>1, <1>5, FinishType, PutType DEF PutChunk, TaskStates
  <2> QED
    BY <1>5, <2>1 DEF PutChunk, TypeInv, TypeOK, FetchedType
<1>6. ASSUME NEW i \in AllIndices, PutFails(u, i) PROVE TypeInv'
  <2>1. /\ task' \in [Uploads \cup Downloads -> [AllIndices -> TaskStates]]
        /\ \A o \in bucket' : o.index \in AllIndices /\ o.data \in Data
        /\ failures' \in 0 .. MaxFailures
    BY <1>1, <1>6, FinishType, PutType, FailsType DEF PutFails, TaskStates, Unsuccessful
  <2> QED
    BY <1>6, <2>1 DEF PutFails, TypeInv, TypeOK, FetchedType
<1> QED
  BY <1>3, <1>4, <1>5, <1>6 DEF UploadStep

LEMMA DownloadType ==
  ASSUME TypeInv, NEW d \in Downloads, StartDownload(d) \/ DownloadStep(d)
  PROVE  TypeInv'
<1>1. d \in Requests /\ d \in Uploads \cup Downloads
  BY DEF Requests
<1>2. {"idle", "working"} \cup Ended = {"idle", "working", "200", "400", "404", "500", "lost"}
  BY DEF Ended, Answers
<1>3. CASE StartDownload(d)
  <2> DEFINE pool == [i \in AllIndices |-> IF i < asked[d].chunks THEN "waiting" ELSE "none"]
  <2>1. pool \in [AllIndices -> TaskStates]
    BY DEF TaskStates
  <2> HIDE DEF pool
  <2>2. task' = [task EXCEPT ![d] = pool] /\ pc' = [pc EXCEPT ![d] = "working"]
    BY <1>3 DEF StartDownload, pool
  <2>3. /\ task' \in [Uploads \cup Downloads -> [AllIndices -> TaskStates]]
        /\ pc' \in [Requests -> {"idle", "working"} \cup Ended]
    BY <1>1, <1>2, <2>1, <2>2, PoolType, MovesType
  <2> QED
    BY <1>3, <2>3 DEF StartDownload, TypeInv, TypeOK, FetchedType
<1>4. CASE EndDownload(d)
  <2>1. pc' \in [Requests -> {"idle", "working"} \cup Ended]
    BY <1>1, <1>2, <1>4, MovesType DEF EndDownload, downloadAnswer
  <2> QED
    BY <1>4, <2>1 DEF EndDownload, TypeInv, TypeOK, FetchedType
<1>5. ASSUME NEW i \in AllIndices, FetchChunk(d, i) PROVE TypeInv'
  <2>1. /\ \E result \in TaskStates : Finish(d, i, result)
        /\ \/ fetched' = fetched
           \/ \E o \in bucket : /\ o.index = i
                                /\ fetched' = [fetched EXCEPT ![d] =
                                     Append(@, [index |-> i, data |-> o.data])]
    BY <1>5 DEF FetchChunk, TaskStates, Unsuccessful, Stored
  <2>2. task' \in [Uploads \cup Downloads -> [AllIndices -> TaskStates]]
    BY <1>1, <2>1, FinishType
  <2>3. /\ fetched' = [e \in Downloads |-> fetched'[e]]
        /\ \A e \in Downloads : fetched'[e] \in Seq([index : AllIndices, data : Data])
    <3>1. CASE fetched' = fetched
      BY <3>1 DEF TypeInv, TypeOK, FetchedType
    <3>2. ASSUME NEW o \in bucket,
                 fetched' = [fetched EXCEPT ![d] = Append(@, [index |-> i, data |-> o.data])]
          PROVE  /\ fetched' = [e \in Downloads |-> fetched'[e]]
                 /\ \A e \in Downloads : fetched'[e] \in Seq([index : AllIndices, data : Data])
      <4>1. [index |-> i, data |-> o.data] \in [index : AllIndices, data : Data]
        BY <3>2 DEF TypeInv, TypeOK
      <4>2. Append(fetched[d], [index |-> i, data |-> o.data])
              \in Seq([index : AllIndices, data : Data])
        <5>1. \A S : \A s \in Seq(S), e \in S : Append(s, e) \in Seq(S)
          OBVIOUS
        <5>2. fetched[d] \in Seq([index : AllIndices, data : Data])
          BY DEF TypeInv, TypeOK
        <5> QED
          BY <4>1, <5>1, <5>2
      <4> QED
        BY <3>2, <4>2 DEF TypeInv, TypeOK, FetchedType
    <3> QED
      BY <2>1, <3>1, <3>2
  <2> QED
    BY <1>5, <2>2, <2>3 DEF FetchChunk, TypeInv, TypeOK, FetchedType
<1>6. ASSUME NEW i \in AllIndices, FetchFails(d, i) PROVE TypeInv'
  <2>1. /\ task' \in [Uploads \cup Downloads -> [AllIndices -> TaskStates]]
        /\ failures' \in 0 .. MaxFailures
    BY <1>1, <1>6, FinishType, FailsType DEF FetchFails, TaskStates
  <2> QED
    BY <1>6, <2>1 DEF FetchFails, TypeInv, TypeOK, FetchedType
<1> QED
  BY <1>3, <1>4, <1>5, <1>6 DEF DownloadStep

LEMMA CancelType ==
  ASSUME TypeInv, NEW r \in Uploads \cup Downloads, CancelRest(r)
  PROVE  TypeInv'
<1>1. PICK dropped \in SUBSET AllIndices :
        task' = [task EXCEPT ![r] =
                   [i \in AllIndices |-> IF i \in dropped THEN "cancelled" ELSE @[i]]]
  BY DEF CancelRest, Pending
<1> DEFINE pool == [i \in AllIndices |-> IF i \in dropped THEN "cancelled" ELSE task[r][i]]
<1>2. pool \in [AllIndices -> TaskStates]
  BY DEF TypeInv, TypeOK, TaskStates
<1>3. task' = [task EXCEPT ![r] = pool]
  BY <1>1 DEF TypeInv, TypeOK
<1> HIDE DEF pool
<1>4. task' \in [Uploads \cup Downloads -> [AllIndices -> TaskStates]]
  BY <1>2, <1>3, PoolType
<1> QED
  BY <1>4 DEF CancelRest, TypeInv, TypeOK, FetchedType

LEMMA DeleteType ==
  ASSUME TypeInv, NEW x \in Deletes, ListObjects(x) \/ DeleteStep(x)
  PROVE  TypeInv'
<1>1. x \in Requests
  BY DEF Requests
<1>2. {"idle", "working"} \cup Ended = {"idle", "working", "200", "400", "404", "500", "lost"}
  BY DEF Ended, Answers
<1>3. CASE ListObjects(x)
  <2>1. pc' \in [Requests -> {"idle", "working"} \cup Ended]
    BY <1>1, <1>2, <1>3, MovesType DEF ListObjects
  <2>2. StoredIndices(FileOf[x]) \subseteq AllIndices
    BY DEF StoredIndices, TypeInv, TypeOK
  <2>3. listed' \in [Deletes -> SUBSET AllIndices] /\ quiet' \in [Deletes -> BOOLEAN]
    BY <1>3, <2>2 DEF ListObjects, TypeInv, TypeOK
  <2> QED
    BY <1>3, <2>1, <2>3 DEF ListObjects, TypeInv, TypeOK, FetchedType
<1>4. CASE RemoveObject(x)
  <2>1. listed' \in [Deletes -> SUBSET AllIndices]
    BY <1>4 DEF RemoveObject, TypeInv, TypeOK
  <2> QED
    BY <1>4, <2>1 DEF RemoveObject, TypeInv, TypeOK, FetchedType
<1>5. CASE RemoveFails(x)
  <2>1. pc' \in [Requests -> {"idle", "working"} \cup Ended] /\ failures' \in 0 .. MaxFailures
    BY <1>1, <1>2, <1>5, MovesType, FailsType DEF RemoveFails, failedDelete
  <2> QED
    BY <1>5, <2>1 DEF RemoveFails, failedDelete, TypeInv, TypeOK, FetchedType
<1>6. CASE EndDelete(x)
  <2>1. pc' \in [Requests -> {"idle", "working"} \cup Ended]
    BY <1>1, <1>2, <1>6, MovesType DEF EndDelete
  <2> QED
    BY <1>6, <2>1 DEF EndDelete, TypeInv, TypeOK, FetchedType
<1> QED
  BY <1>3, <1>4, <1>5, <1>6 DEF DeleteStep

LEMMA CrashType == ASSUME TypeInv, Crash PROVE TypeInv'
<1>1. pc' \in [Requests -> {"idle", "working"} \cup Ended]
  BY DEF Crash, TypeInv, TypeOK, Ended
<1>2. crashes' \in 0 .. MaxCrashes
  BY StorageAssumption DEF Crash, TypeInv, TypeOK
<1> QED
  BY <1>1, <1>2 DEF Crash, TypeInv, TypeOK, FetchedType

LEMMA StutterType == ASSUME TypeInv, UNCHANGED vars PROVE TypeInv'
<1>1. UNCHANGED <<bucket, pc, asked, task, fetched, listed, failures, crashes, quiet>>
  BY DEF vars
<1>2. FetchedType'
  BY <1>1 DEF TypeInv, FetchedType
<1>3. TypeOK'
  BY <1>1 DEF TypeInv, TypeOK
<1> QED
  BY <1>2, <1>3 DEF TypeInv

\* Objects, tasks and answers keep their types, the bucket holds only chunks
\* under their indices, and no bound is passed.
THEOREM Typing == Spec => []TypeOK
<1>1. Init => TypeInv
  BY TypeStart
<1>2. TypeInv /\ [Next]_vars => TypeInv'
  <2> SUFFICES ASSUME TypeInv, [Next]_vars PROVE TypeInv'
    OBVIOUS
  <2>1. CASE UNCHANGED vars
    BY <2>1, StutterType
  <2>2. CASE Finished
    BY <2>2, StutterType DEF Finished
  <2> QED
    BY <2>1, <2>2, UploadType, DownloadType, CancelType, DeleteType, CrashType DEF Next
<1>3. TypeInv => TypeOK
  BY DEF TypeInv
<1> QED
  BY <1>1, <1>2, <1>3, PTL DEF Spec
=============================================================================
