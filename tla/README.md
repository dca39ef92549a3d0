# Secure-Cloud in TLA+

This directory holds TLA+ models of Secure-Cloud, the TLC configurations that
check them on small instances, and TLAPS proofs of theorems that hold for every
value of the constants. Every definition is written from the code; paths below
are relative to the root of the repository. `PROJECT.json` maps each definition
to the lines it stands for.

- [The system](#the-system)
- [The modules](#the-modules)
- [The runs](#the-runs)
- [Fairness](#fairness)
- [What is proved](#what-is-proved)
- [Where code and documentation disagree](#where-code-and-documentation-disagree)
- [What is not modelled](#what-is-not-modelled)
- [Plan](#plan)

To check a run: `tlc -config Storage.cfg MCStorageService.tla`. To check the
proofs: `tlapm Web3ClientProofs.tla`.

## The system

A Next.js frontend talks to a Flask gateway. The gateway splits a user's request
over four services: storage (MinIO), blockchain (a contract on one of several EVM
networks), AI detection and a sandbox. Redis keeps sessions, rate limits, the level
log and the detector's buffer. Each service is a container with
`restart: unless-stopped`; the Flask servers are threaded, so the requests of a
service interleave. Nothing else coordinates the services: they call each other
over HTTP with timeouts, and a call that timed out goes on in the service.

| Component | Source | State it keeps | Operations |
|---|---|---|---|
| Smart contract | `blockchain/contracts/SecureDataManagement.sol` | file records, chunk lists, permissions, access log, anomaly index, events | `registerFile`, `grantAccess`, `revokeAccess`, `logAccess`, paginated views, `checkPermission` |
| Transaction sender | `backend/blockchain/web3_client.py` | per chain: local nonce and its lock; for all: 5 receipt permits, a pool of 10, the level log | `send_transaction`, `send_transaction_nowait`, `_await_receipt`, `audit_append`, `audit_entries` |
| Blockchain routes | `backend/blockchain/routes.py` | none of its own | `/register`, grant, revoke, check, `/file`, `/audit/log`, `/audit/all` and other listings |
| Storage service | `backend/storage_service.py` | objects in the bucket; a thread pool per request | upload, download, delete |
| Gateway file routes | `backend/gateway/routes_files.py`, `clients.py` | requests in flight; the pool of audit posts | upload, download, delete, grant, revoke |
| Audit trail | `clients.py:154-170`, `web3_client.py:35-131`, `routes.py:213-345` | queue of posts, level log in Redis and memory, access log on the chain | `blockchain_log`, `/audit/log`, `/audit/all` |
| Wallet login | `backend/gateway/routes_auth.py`, `clients.py`, `frontend/lib/{session,auth,api}.ts` | nonce, rate limit and session in Redis; the browser's cached session, its logins in flight | nonce, session, `require_session`, `getOrCreateSession`, clearing the cached session |
| Behavioural detector | `backend/ai_detection/{detector,behavioral,redis_buffer,routes}.py` | feature buffer, model, refit counter, history of each user | `/detect`, `/scan`, `/admin/reseed`, background refits |
| Content analysis | `backend/ai_detection/{binary_analysis,yara_scanner}.py`, `scan_file` of `routes.py` | none | scores and a level from a file's bytes |
| Sandbox | `backend/sandbox/` | one container per analysis | create, copy, look, run, look again, remove |
| Browser file list | `frontend/app/files/_hooks/useFiles.ts`, `frontend/app/upload/_hooks/useUpload.ts` | records in `localStorage`, each page's copy of them, its busy buttons | add, delete, delete all |

How they interact, and what is hard about it:

- **Upload**: gateway → AI scan, sandbox (both fail open: an error or a timeout
  counts as passed, `clients.py:93-133`) → storage → `/register` → audit entry.
  The analysis, storage and registration can each finish after the gateway gave up
  on them.
- **Download**: `/access/check` → `/file` (how many chunks) → `/detect` → storage.
  The permission, the number of chunks and the chunks are read at three moments.
- **Delete**: `/access/check` → storage → audit entry. The record on the chain
  stays; only the bucket tells that the file is gone.
- **Every transaction** is signed with the one key `PRIVATE_KEY`, so all request
  threads share the nonce sequence of that account on each chain.
- **Audit**: an entry goes through a pool in the gateway, a level log and a
  transaction; a query joins the two by `(file_id, action, ip_address)`.
- **Login**: nonce, signature and token are three calls; tabs share the nonce key
  of an account but not its cache; the wallet may switch accounts in between.
- **Detection**: each request pushes a sample to a shared buffer, may start a
  refit, and is scored by whatever model is there.
- **Sandbox**: a container lives for the 30 or 60 seconds of its `sleep`, whatever
  the service, the gateway's 90 seconds and the target do meanwhile.
- **File list**: every tab shows the list as it read it when its page opened, and a
  deletion saves the list as its page knew it when it began.

What makes each component correct is the list of properties under its module
below; `PROJECT.json` lists the hazards, at their lines, that each is for.

## The modules

`MC<Module>.tla` gives the constants of a module their values for TLC. Those of
`GatewayFiles` and of `AnomalyDetector` choose among small instances in the initial
state and hold back what an instance leaves out (`Absent`); they add nothing.

### SecureDataManagement

The contract. A transaction is one action, because the EVM runs it to its end or
reverts it; a revert is a stutter. `files`, `fileChunks`, `permissions`,
`accessLogs` and `anomalyLogIndices` are the contract's storage; `events` is its
event log. The four chunk arrays of a registration are one sequence. Hashes,
names, sizes and timestamps are left out. `PageSlice` is the paging arithmetic all
views share.

Properties: `EventsExplainPermissions` (the last event about a user gives its
permission), `AnomalyIndexExact`, `PagesCoverLogs` (walking the pages of each view
gives every matching entry once, in order, and nothing else). `RegisteredIsFinal` (a registered file keeps its owner and
chunks) is only proved.

### Web3Client

One job is one call of `send_transaction` or `send_transaction_nowait`. `pc` goes
from `idle` through `chosen` (inside the nonce lock, `holder`) to `await` or, for
a job of the pool, `queued`; `waiting` holds one of the permits. `localNonce` is
`chain.local_nonce`, `None` when it was forgotten. The node is external: it
accepts, mines in nonce order, drops on the chains in `Drops`, and reports a
pending count that may be late except on the chains in `AccurateView` (a provider
with several nodes). `SubmitFails` covers gas estimation, signing and sending, also
a lost answer to a transaction that the node has taken. `Crash` is a restart of the
container.

The history variable `current` holds the jobs that took a nonce since the local
nonce of their chain was last forgotten: the nonces that must not collide.

Properties: `UniqueWithinEpoch`, `ChosenIsNext` (on a chain with one up-to-date node
the nonce in the lock is exactly the one the node executes next), `StallIsWatched`
(a local nonce ahead of the chain is watched by a job that has not finished, so the
stall ends), `EveryJobEnds`, `AcceptedIsMined`.

Left out: gas and fees; the status of a receipt, which only picks a log line.

### StorageService

A request's `task` function is its thread pool: workers take tasks in index order,
at most `PoolSize` at a time; results are read in index order and the first error
cancels what has not started (`CancelRest`). The data of a chunk is the interval of
bytes it covers together with its upload, so a joined download can be compared
with the file; a download asks for any number of chunks under any password; AES-GCM and the key derivation are the test that the passwords
agree. A failed put may have stored its object.

Properties: `DownloadsAreExact`, `ImplementsFileStore`, `EveryRequestEnds`. The
first two need `FreshIds` (no two uploads under one id), which is what the gateway's
`uuid4` gives: the frontend never sends a `file_id`, though the form may
(`routes_files.py:76`). What holds when ids are shared is said in `GatewayFiles`.

### FileStore

What the storage service promises, in the caller's terms: a file has a *phase*
(none, stored, deleting, gone) and *content*, a set of pieces; a reader collects
pieces one by one and is served a beginning of the file, or refused. `Commit` is
possible only with all pieces there, and in the phases `stored` and `gone` no
action changes the content: that is durability and final deletion.

`StorageService` maps to it as follows: the content of a file is the data of its
objects in the bucket; it is stored once its upload was answered with 200 until a
delete starts, and gone once a delete was answered with 200 that started when no
upload of the file could run (`quiet`); what a reader has got is what its
pool has decrypted. A put, also one whose answer was lost, is `Add`, the end of an
upload `Commit`, a listing `AskDelete`; pools, failed operations and cancelled tasks
are stutters; a restart refuses every open reader at once.

### GatewayFiles

The file routes composed with storage, blockchain service, node and the contract
(`Contract == INSTANCE SecureDataManagement`). Each request has a `pc` that is
where its handler is or how it answered; `job` and `todo` are its work at the
storage service and `mempool` the transactions in flight, both of which outlive
the request. `CallLost` is the handler's `except`. `GatewayCrash` loses the
requests and leaves the rest. An entry for the audit log and the answer are two
steps (`succeeding`, `refusing`, `failing` are the places between them, and `Reply`
answers), so a restart may come after the entry.

Storage is coarser here than in `StorageService`: a bucket holds, per file id, chunks
by their number, each with the upload that put it; every put, removal and read is
a step. The form of an upload may name the file id (`routes_files.py:76`), so any
two uploads may share one, at any time: a put replaces the chunk of its number.
`settled` and `checked` are histories: the uploads that had ended when a delete
listed the chunks, and how many events the chain had when a permission was checked.
An upload has at most `MaxChunks` chunks, those of `MAX_UPLOAD_FILE_BYTES`, which
Flask enforces (`gateway/routes.py:21`).

`LARGE_FILE_THRESHOLD` equals `CHUNK_SIZE` (10 MB), so a file is registered with a
reference to its number of chunks exactly when it has more than one.

Properties:

- `RegisteredIsStored`: until a deletion begins, a file on the chain belongs to an
  upload that storage has stored to its end, and each of its chunk numbers is in the
  bucket; with that upload `Alone` under its id these are its own chunks and no more.
- `DeletedStaysGone`: once a delete was answered with success nothing is left, and
  nothing comes back, of the uploads that had ended when it listed the chunks. An
  upload that is still at work, or that comes later under the id, is not deleted.
- `DownloadIsWholeOrFirst`: a successful download has as many chunks as a submitted
  upload of its file, or the first alone when the metadata could not be read; they
  come from that upload when it is `Alone`.
- `OnlyGranteesAreServed`: the permission was in force at the check, granted by the
  last event about the user and the file. A revocation mined later is too late.
- `AuditAgreesWithAnswer`: an answer of success has left an entry of success; such an
  entry is left only by a request whose work at storage is done, and it is answered
  with success unless a restart comes in between.

### AuditTrail

`sender` is a call in the gateway's pool of five, `handler` the same call in the
blockchain service, `redis` and `deque` the two places of the level log, `mempool`
and `trail` the chain. An append is `LPUSH` (`LogAccess`) and `LTRIM` (`Trim`), two
steps between which others come, or a restart. When the push fails the entry goes
to memory instead; when the trim fails it goes to memory as well, whether Redis has
trimmed by then or not. `untrimmed` is a history: the calls that pushed after the
last trim. A query reads page after page (`ReadPage`), then the level log twice:
once for pending entries, once for levels; a read comes from memory when Redis
fails.

Properties: `PagesAreConsistent`, `AcceptedIsShown` (no call falls between the
chain, read first, and the level log, read later), `LevelsAreTheCallsOwn` (for
entries with a key of their own); `TypeOK` also bounds the level log: over its limit by
the untrimmed pushes and no more.

Left out: the exact age of an entry (any entry may be older than 300 s).

### AuthSession

A call of the browser goes from `idle` through the nonce (`nonce`, `expire`,
`issue`), the signature (`sign`), the session (`session`, `delete`, `create`,
`created`) to its request (`request`, `refresh`, `done`); calls that find a login
under way are `joined`. Every Redis command is a step. `cache` is `_mem` and
sessionStorage of a tab, `inflight` is `_inflight`. Time counts units of the 60 s
margin the browser keeps; nonces and rate limits may expire at any moment.

Properties: `ServedAsCaller`, `CachedIsLive`, `EveryCallEnds`.
`CachedIsLive` rests on an answer with a new token taking less than the margin
(guard of `Tick`), and on Redis keeping a session until its TTL: a Redis that loses
its data is not modelled, and then a cached session meets a 401.

### AnomalyDetector

A sample is the number of its push, a model is the window of samples it was
fitted on, so "fitted on an unbroken stretch of the recent past" can be said of a
model. A score is only whether it flags. Each Redis command and each section under
`model_lock` is a step; the counting in `run_pyod_detector` is one step without the
lock, because Python 3.10 switches threads only at calls and loop edges. A restart
connects to Redis once; without it (`connected = FALSE`) everything is skipped.

The history of a user is a list in Redis. `_persist_event` is `LPUSH`, `LTRIM`,
`EXPIRE` and `PUBLISH`, each a step, then the answer; so a request may see the event
of one that still runs, and one that a restart lost may have left its event. The
list keeps its events consecutive, so it is given by how many were written and how
many of those are gone (by `LTRIM`, expiry or reset). The features look at the newest
`HistoryRead` events (501) and count those of the last hour and of the last day: one
such span stands for both, and an event leaves it at any moment (`Age`). The key
expires (`Expire`) once every event written before its last `EXPIRE` has left the
span, for a week is longer than a day.

Properties: `WindowsAreConsecutive`, `ScoredWhenWarm`, `HistoryIsSeen` (the features
count every request that was answered before, of the span and among the newest
`HistoryRead`); `TypeOK` also bounds the buffer.

Left out: the values of the features but for the events they count, and the ECOD
score; `user_anomalies`, which nothing writes.

### ContentScan

Pure operators: the score of a file's content (formats, entropy, imports, archives,
patterns), of YARA's matches, their combination with the behavioural score, and the
level. A file is a record of the facts the code tests: extension class, first bytes,
entropy class, groups of marker strings, numbers of matching patterns, and for an
archive its executables and texts. Scores are integers, 10,000 for 1.0; the ensemble
counts in hundredths of those. `detect_platform` and `needs_sandbox` say which files
go where.

### Sandbox

One analysis. `steps` is the order of docker calls per image, and each call is an
action that succeeds or raises; `pc` is the next call. The container's own process
is its `sleep`, so it goes from `running` to `exited` at the age `life[image]`
whatever runs in it. The decoys are original, resized (at least one has another size),
overwritten in place, or gone (some are deleted or renamed, the others as they were);
`baseline` is what the first look saw. The hashes of the other two images tell each of
these, the sizes DOS compares for the decoys still there only the first. A target may
or may not end at the signal of `timeout` (`heeds`), and a command that fails inside the container goes unnoticed (`Install`
may leave the target absent), since no exit code is read. `Crash` restarts the
service between any two calls. Time counts units of ten seconds.

### Screening

`ContentScan` and `Sandbox` under the part of `upload_file` that calls them: `Scan`
asks for the level, sends the file on when it needs the sandbox, and the upload is
blocked or passes when the sandbox answers or the gateway stops waiting after 90
seconds (`HearNothing`). Both services fail open.

Properties: `EvidenceDecides` (one conclusive fact blocks, more evidence never lets
a blocked file pass, the behavioural score never changes what blocks),
`BadVerdictBlocks` (a bad verdict reaches the gateway in time unless docker was
slow outside the container's life), `InfectionIsReported`, `LifeIsLongEnough`,
`ContainerIsRemoved`, `ContainersStop`.

Left out: how bytes match patterns; the entropy of PE sections, which only adds a
reason; `needs_sandbox` for a name without an extension is that of its first bytes.

### FileList

`list` is the entry of `localStorage` all tabs share, `allFiles` each page's copy,
`deletion` the deletions under way with the list they will save (`known`), which
outlive their page. `actionLoading` and `deletingFileIds` are what disables the
buttons; the first deletion to end releases them for the others, as do downloads
and shares (`OtherAction`).

Properties: `ListIsExact` and `NothingVanishes`, for runs of operations that do not
overlap and start from a page that is up to date (`disturbed` says when not): only
then do they hold.

## The runs

| Run | Instance | What it shows |
|---|---|---|
| `Contract` | one file id and the empty one, two accounts and the zero address, 3 registry transactions, 3 log entries, pages of up to 2 | Three transactions suffice for register–grant–revoke and for two senders in conflict; three entries over pages of two give a full and a short page |
| `Web3` | 4 jobs, two on each of two chains, one of each blocking; one permit, one pool worker; one accurate node, one late provider that drops; one restart | Jobs compete for the last permit and the last worker across chains; failures, lost answers, timeouts and the restart leave no gap on the accurate chain, and the other chain's stalls do not reach it |
| `Storage` | one upload of three chunks, a pool of two, one download of 0 to 3 chunks under one of two passwords, one delete, one failure, one restart | All requests race on one file; three chunks over two workers show order, gaps, cancelled tasks and partial failure. Downloads write nothing, so one stands for all |
| `Gateway` | three instances: uploads of two chunks and of one under one id, a download, a delete, no refusal and no restart; one upload, a download and a delete by a second user, 2 shares, 3 transactions; one upload, a download and two deletes | Uploads overwrite each other, before and after a registration and a deletion; the second user is granted and revoked around its requests; a delete is repeated after a failed one. 1.7 million states |
| `Audit` | 3 calls on two chains (two share a key), one sender at a time, one query, pages of 1, level log of 2, one restart, Redis failing for one call and for the query | The level log overflows between push and trim, the chain grows between pages, Redis falls back. 5.4 million states |
| `AuthAccounts` | 3 calls of one tab, two accounts, time up to a session's TTL | The wallet switches accounts between any two steps; sessions expire |
| `AuthTabs` | 3 calls, two of them in one tab, one account, one restart | One login is shared in a tab and collides with the login of the other tab |
| `Detector` | two instances, all of one user: a scan, another request and a reseed within a day, buffer of 2, fits from 2, refits every 2, one failure, one restart; and another request with two scans that their content blocks, a history of 2 events of which 1 is read | The buffer trims, two fits overlap, a fit meets a reseed; three writers push, trim and expire a history past both its limits, a restart between any two commands. 2.6 million states |
| `Screening` | one upload out of all kinds of files `AllFiles` lists, three YARA outcomes, behavioural scores 0 and 1, traces at the thresholds, decoys resized, overwritten or gone, docker slow for up to 40 s | Every format with every group of markers, at and below each threshold; containers of the three images, each call failing, the container ending in each call, restarts |
| `FileList` | two tabs, three files, one of them of another network, two deletions, any upload of each file once | Deletions overlap in one tab and across tabs, pages are left and opened in between |
| `GatewayPartial` | one upload and a download | Violates `DownloadIsComplete`, see below |
| `AuthLimit` | three calls, a limit of 1, one restart | Violates `LimitIsTemporary`, see below |

Bounds named in the modules: `MaxAclTx`, `MaxLogs` (transactions that take effect),
`MaxNonce` (the largest nonce a node reports), `MaxSlow`, `MaxDeletes`, `MaxFailures`,
`MaxCrashes`, `MaxShares`, `MaxTime`. Limits of the code that are far above what TLC
reaches (10,000 chunks of a request, the largest upload, 2000 entries, 50 pages of 200,
50 samples, 1000 events of a user of which 501 are read, 5 permits) are constants too
and set to one, two or three, so that each limit is met within a few steps.

Deadlock is checked in the runs of `Web3Client`, `StorageService` and `Screening`, where an
explicit `Finished` step says when stopping is right. The other instances stop when
their bounded requests are used up and say `CHECK_DEADLOCK FALSE`.

Every property of a passing run has a mutated definition beside the definition it
changes (`nextNonce_NetworkOnly` beside `nextNonce`): a plausible slip in that line
of the code that the property catches.

## Fairness

Weak fairness only, and only where the code keeps something running:

- `Web3Client!ThreadFairness`: a thread inside the lock makes RPC calls that have a
  timeout; a receipt wait ends after 180 s; workers and permits are handed on.
  Requests need not arrive. `LiveChainSpec` adds, for `AcceptedIsMined` only, that
  a chain whose node is up to date and drops nothing goes on mining; the other
  chain need not mine, and `EveryJobEnds` holds on it all the same.
- `StorageService!FairSpec`: a thread at work goes on, since each object operation
  has a timeout and a bounded number of retries.
- `Screening!ScreeningSpec`: time passes in a running container, whatever the
  services do; and a service that was not stopped goes on with its docker calls.
  Nothing says that a target ends or that the gateway hears an answer.
- `AuthSession!FairSpec`: handlers and promises run on, and the user answers the
  wallet's prompt (or declines).

`GatewayFiles`, `AuditTrail`, `AnomalyDetector` and `FileList` claim no liveness:
whether an audit entry, a registration or a browser's answer ever arrives is not
guaranteed by the code.

## What is proved

`SecureDataManagementProofs`, for every set of files, accounts and chunk lists:

- `TypeCorrect`: `TypeOK` is inductive as it stands.
- `RegistrationFinal`: from `TypeOK`, one step per transaction; a registered file has
  a record that `registerFile` refuses and nothing else writes.
- `EventsExplain`: the property itself is inductive together with `TypeOK`; the new
  event is the last about the pair it concerns and leaves all other pairs alone.
- `IndexExact`: the four conjuncts of `AnomalyIndexExact` are inductive together.
- `PagesComplete`: `TypeOK` and `AnomalyIndexExact` imply `PagesCoverLogs`. A view copies
  the positions whose rank is on the page, so the proof counts positions: ranks grow
  (`RankGrows`), each number up to the size is one (`RankFound`, from the least position
  with that rank), hence the positions with ranks on the page are as many as its places
  (`RanksBetween`) and stand on it in order (`PageAt`). An anomaly's index has the rank
  of the flagged entry it points to (`FlaggedRanks`).

`Web3ClientProofs`, for every set of chains and jobs, every number of permits,
workers and restarts, and every choice of the chains that are up to date and that
drop:

- `TypeCorrect`.
- `NoncesUnique`: uniqueness alone is not inductive, since a new nonce could collide
  with an older one. `EpochInv` adds `BelowLocal`: each nonce of a `current` job
  is below the local nonce, which is not `None`; and that a job that has taken none
  is not `current` (`IdleTookNone`).
- `StallsAreWatched`: `WatchInv` adds that a mined transaction's nonce is below the
  confirmed count (`MinedIsUsed`), which is why a job whose receipt was found may
  stop watching, and that a job that has not submitted has no transaction that
  could be mined (`IdleIsUnsent`).
- `ChosenNonceIsNext`: `NetInv(c)` describes one chain whose node is up to date and
  drops nothing, so the proof takes one chain and shows that steps on the others
  leave it alone (`NetElsewhere`): the pool is a block of nonces that starts at the
  confirmed count (`PoolAbove`, `PoolDense`); outside the lock the local nonce, if
  there is one, follows this block (`LocalIsNext`); inside it the taken nonce does
  (`TakenIsNext`). Lemmas about the pool (`PoolGrows`, `PoolMined`,
  `NothingBeyond`, `SamePool`) carry the steps of the node.

`StorageServiceProofs`, for any requests, sizes, pool, failures and restarts:

- `Refinement`: `Spec => ImplementsFileStore`, under `FreshIds` and `Fits` (no file has
  more chunks than a download may ask for, or its reader could not read it). `IInv`
  says what each task stands for in the bucket: an object is a chunk of an upload
  under its own index (`BucketInv`); a put that is done has its object until a delete
  of the file starts (`Kept`), which makes `Commit` possible; a delete that no upload
  can cross has listed every object that is left (`QuietListed`), also one that a
  failed put or an earlier failed delete left behind, so nothing remains when it ends
  (`QuietGone`); what a reader has is the chunks of its done tasks (`GotInv`). Each
  action then maps to one step of `FileStore` or to a stutter.

- `ExactDownloads`: `[]DownloadsAreExact`, under the same two assumptions. `FetchedInv`
  counts: as many chunks were fetched as tasks are done (by `Cardinality`), one for
  each, all from the one upload of the file; with all tasks done the chunks are
  therefore a permutation of the indices, and `Joined` is the file's beginning.
  `ChunksCover` is the arithmetic of sizes: chunks of `ChunkSize` bytes and a shorter
  last one leave no gap.
- `Typing` needs neither `FreshIds` nor `Fits`.

`GatewayFilesProofs`, for any requests, files, users and sharing, and any file ids:

- `VisibleIsStored`, `DeletionIsFinal`, `WholeOrFirst`, `ServedWasGranted` and
  `AuditIsHonest`, from one invariant. Its core is an order over four places: an upload
  calls `/register` only when its storage job is done (`OrderInv`), the pool holds only
  registrations so submitted (`PoolInv`), the chain shows only those (`ActiveInv`), and
  a request is served only when the last event about its user at the check granted the
  permission (`GrantedInv`, `AllowedInv`), of which there is none for a file that is
  not on the chain (`BlankInv`). Uploads under one id only add numbers to a bucket
  that no deletion has touched, so what an upload has put stays there as a number,
  whoever put it last (`UploadInv`). A delete has all chunks of settled uploads on its
  list, and a settled upload puts nothing any more (`DeleteInv`): that is why the end
  of a delete is final for them and for no others. `ReadInv` carries what a download
  read of the chain to what it asks for. `AuditInv` ties the entry to the work.
- `Typing`: `DataType` is about chunk lists and counts: the chunk list on the chain
  is that of an upload, hence a download asks for no more than `MaxChunks` pieces
  (`DownloadData`).

`AuditTrailProofs`, for any calls, queries, chains and limits:

- `PagesJoin`: a query that is still paging has read `pages * PageLimit` entries
  (`PageInv`), so the next page begins where the last ended although the log grows.
- `NothingFallsBetween`: a call on its way to the chain is in the level log, unless it
  went to memory or a full log trimmed it (`KeptInv`), and this holds on from the
  query's start to its end because a call is appended once only (`OnceInv`).
- `OwnLevels`: the level log never has two entries of one call (`LevelLog`), so with a
  key of its own the dictionary finds that call or nothing.
- `Typing`: that the level log exceeds its limit by the untrimmed pushes only counts
  calls; a call is pushed once, so each push adds one to both sides. Among the entries of
  one key the dictionary keeps the oldest, so an entry that finds its key has a level;
  that there is an oldest is `LargestOf`.

`BrowserProofs`, for any tabs, accounts and calls of the login, and any tabs, files
and deletions of the file list:

- `CallersOwnSession`: the address that asked is carried through the login by
  `SignedInv` and `SessionInv`, and from there to whoever shares it, over the logins
  under way, the leader a call waits for and the cache (`FlightInv`, `LeaderInv`,
  `CacheInv`).
- `NoStaleCache`: what the browser stores as the end of a session is not after the
  gateway's, because the answer takes less than the margin (`CreatedInv`).

- `ExactList` and `NoSilentLoss`: while nothing is disturbed there is at most one
  deletion under way, it began from the list as it still is, and a fresh page knows the
  list (`FreshKnows`).

`AnomalyDetectorProofs`, for any requests, reseeds and users, any sizes of buffer, fit
and refit, failures and restarts:

- `Typing`: that the buffer is over its limit only by pushes that have not trimmed it
  counts requests, so `BoundInv` and the lemmas `UntrimmedStep` and `SeedsStep` say how
  each step moves that count; the refit counter is at most the number of requests that
  were counted (`CounterInv`).
- `WindowsAreConsecutiveAlways`: the buffer is always the last pushes in order
  (`BufferInv`), hence what a fit snapshots is an unbroken stretch, and it stays one
  however long the fit takes (`WindowsInv`).
- `ScoredWhenWarmAlways`: a chain over the steps of a request: what it found is enough
  for a fit (`SizesInv`, and `EnoughStays` since trims never go below `MinFit`), so a
  fit it starts has a window (`FitInv`) and leaves a model (`FittedInv`), which later fits
  replace but do not take away.
- `HistoryIsSeenAlways`: while nothing failed, the event of an answered request is in the
  list, has left the span or is not among the newest that are read, unless its key
  expired under its hands (`HistoryInv`): a trim drops none of the newest, and an
  expiry none of the span, because the expiry set last covers every event that was
  written before it.

`ScreeningProofs`, for any uploads, traces, delays, failures and restarts:

- `EvidenceDecidesAlways`: every part of a score grows with the facts (`ElfGrows` to
  `PartsGrow`), the loop over an archive's texts included, and `BlocksIff` shows that the
  combined score blocks exactly when YARA matched or the content alone scores .65,
  whatever the behaviour was. The loop is a recursive function, so `SetInduction` and
  `PartialSums` derive the induction they need from the library's theorem that a set of
  numbers has a least one (`LeastOf`).
- `BadVerdictBlocksAlways`, `InfectionIsReportedAlways`, `LifeIsLongEnoughAlways`,
  `ContainerIsRemovedAlways`: from one invariant of the analysis, over the order of calls
  of the three images (`CallOrder`). A container ends only when its life is over
  (`LifeInv`), so an error that is not docker's means just that (`ErrorInv`); the first
  look came before the target ran and saw the decoys as they were (`DecoysInv`); and an
  upload passed by the scan, by the verdict or by a gateway that waited in vain
  (`GatewayInv`), whose 90 seconds are 30 more than the longest life.
- `Typing`.

Each proof has one step per action. The theorems rest on the named assumption of the
module, on the two named premises of the storage theorems and on nothing else. The
disjointness in `GatewayAssumption` (a request is of one route) and the one in
`AuthAssumption` (`None` is no call, address or session) say what the code's types do.

Only model-checked: all liveness (`EveryJobEnds`, `AcceptedIsMined`,
`EveryRequestEnds`, `EveryCallEnds`, `ContainersStop`), because fairness needs ENABLED, which the
prover does not support. Every safety property the passing runs check is proved.

## Where code and documentation disagree

Two have a run whose counterexample shows the disagreement:

- **A download may be its first chunk only** (`GatewayPartial`). `num_chunks` stays 1
  when `GET /file` answers with an error (`routes_files.py:273-284`), and the
  first chunk is answered with 200; the page says "Download complete!"
  (`useFiles.ts:134`).
- **A rate limit may never end** (`AuthLimit`). `INCR` and `EXPIRE` are two
  commands and `EXPIRE` is sent for count 1 only (`routes_auth.py:32-34`). A restart
  between them leaves a counter without a TTL; the answer says "try again shortly".

Others were met while modelling and have no run:

- `user_anomalies:<user>` is read and reset but never written
  (`behavioral.py:53`, `78-106`), so the feature is always 0, while `README.md:270`
  names the prior anomaly rate as a feature.
- The sandbox fails open: an analysis that raises, that outlives its container
  (`timeout` sends a signal the target need not heed) or that the gateway does not
  wait for lets the upload pass (`clients.py:131-133`), and a target that could not
  be written into the container is CLEAN (`runners.py:49-53`), while `README.md:283-297`
  says that malicious and suspicious files are blocked before they reach storage.
- `README.md:319` has all uploaded executables run in the sandbox; `needs_sandbox`
  leaves out Windows executables but for `.com` (`routes_files.py:107-110`), and a
  `.jar`, which it sends there, is skipped (`sandbox/routes.py:41-43`).
- More evidence may lower the level from MEDIUM to NORMAL, because the weights
  switch (`ai_detection/routes.py:109-112`), though never below what blocks
  (`EvidenceDecides`).
- Behaviour alone never blocks an upload (45 of 100 parts is below HIGH), so the
  message about anomalous account activity (`routes_files.py:59`) is never shown
  for one.
- Delete All clears the records of files whose deletion failed (`useFiles.ts:100-103`),
  and a deletion that overlaps another one brings its record back
  (`useFiles.ts:67`).
- A stored upload whose registration fails answers 200 and is never registered
  (`routes_files.py:199-208`), while `frontend/app/upload/page.tsx:30` says "Files are
  chunked, encrypted, and registered on-chain".
- A deletion that times out, or that storage refuses, leaves no audit entry
  (`routes_files.py:364-371`), while `README.md:304` has every delete logged.
- The owner on the chain is the service's account for all files, while permissions
  are checked for the session's address, and nothing grants the uploader access: it
  has to share the file with itself. The browser records its own address as the
  owner (`frontend/app/upload/_hooks/useUpload.ts:66`).
- Pending entries of `/audit/all` come from one level log for all networks
  (`routes.py:287-310`), while `README.md:309` keeps audit logs per network.
- `/audit/all` reads at most 50 pages of 200 entries, the oldest ones
  (`routes.py:273-283`): past 10,000 entries the newest are missing.
- An upload may name its file id (`routes_files.py:76`), and storage replaces the chunks
  under it (`storage_service.py:121-131`), while the contract refuses a second
  registration: the record of the first stays, hash and number of chunks included, over
  another content, and a deleted file has content again. `GatewayFiles` says what holds
  all the same. The frontend never sends an id.
- A restart between the audit entry and the answer leaves an entry of success for a
  request nobody saw succeed (`routes_files.py:210-212`, `317-319`, `368-369`).
- In DOS a target that deletes or renames decoys, or overwrites them in place, is CLEAN
  (`runners.py:202-211`); the other images report every change.
- Repeated accesses to a file from one address show the level of the oldest in the audit
  page (`web3_client.py:126-131`).
- A fit that was started before a reseed may end after it and replace the model the
  panel has just fitted (`detector.py:22-24`).

## What is not modelled

- **Pages, widgets, health and statistics endpoints, `/verify`, demo proxy**: no state of
  their own. The audit page shows what its last answered poll returned; a late
  answer to a poll may turn the page back, which nothing depends on.
- **Pattern matching, YARA rules, features and ECOD**: what a given file or request
  scores is data; the models are told which groups match and whether a score flags.
- **Deployment scripts, measurement scripts, rules and build files**: outside the
  running system.

## Plan

Done, in this order: `SecureDataManagement` (everything else relies on it),
`Web3Client`, `StorageService`, `GatewayFiles` (composes the three),
`AuditTrail`, `AuthSession`, `AnomalyDetector`, `FileStore`, `ContentScan`,
`Sandbox`, `Screening` (composes the two), `FileList`.

Proved, in this order: the contract, the sender, `FileStore`'s refinement and the
download, the file list, the login, the gateway, the audit trail, the screening, the
detector.

Next: a node that reverts after the receipt was given up.
