------------------------------ MODULE AuditTrail ------------------------------
(***************************************************************************)
(* The audit trail: blockchain_log of backend/gateway/clients.py hands a   *)
(* call to a pool of five threads, which post it to the blockchain         *)
(* service; /audit/log of backend/blockchain/routes.py appends it to the   *)
(* level log, shared by the chains, and submits logAccess on the chain of  *)
(* the request; /audit/all reads the chain page by page, adds the recent   *)
(* entries of the level log that are not on the chain yet, and looks up    *)
(* the anomaly level of those that are.                                    *)
(*                                                                         *)
(* The key of a call is its (file_id, action, ip_address): all that ties   *)
(* an entry on the chain to one of the level log.  Redis keeps the level   *)
(* log over restarts; when it fails, an append goes to a deque in memory   *)
(* and a read comes from there.  An append is an LPUSH and an LTRIM, two   *)
(* commands: calls interleave between them, and when the LTRIM is the one  *)
(* that fails, the entry is in both logs and Redis has one too many.  The  *)
(* order and the outcome of the transactions is the node's, as in          *)
(* Web3Client.                                                             *)
(***************************************************************************)
EXTENDS Integers, Sequences, FiniteSets

CONSTANTS
  Chains, Calls, Queries,
  ChainOf,     \* the chain of a call or a query (X-Chain-ID)
  KeyOf,       \* [Calls -> key]
  LevelOf,     \* [Calls -> anomaly level]
  FlagOf,      \* [Calls -> anomaly flag]
  LogWorkers,  \* threads of _log_pool (5 in the code)
  LevelCap,    \* _AUDIT_MAXLEN (2000)
  PageLimit,   \* PAGE_LIMIT (200)
  MaxPages,    \* MAX_PAGES (50)
  PageSize,    \* page_size of the queries, which ask for page 0
  RedisFails,  \* calls and queries whose Redis commands may fail
  MaxCrashes   \* bound: restarts of either service

Levels == {"NORMAL", "MEDIUM", "HIGH", "CRITICAL"}

ASSUME AuditAssumption ==
  /\ ChainOf \in [Calls \cup Queries -> Chains]
  /\ LevelOf \in [Calls -> Levels]
  /\ FlagOf \in [Calls -> BOOLEAN]
  /\ \A n \in {LogWorkers, LevelCap, PageLimit, MaxPages, PageSize} : n \in Nat \ {0}
  /\ RedisFails \subseteq Calls \cup Queries
  /\ MaxCrashes \in Nat

VARIABLES
  sender,    \* the call in the gateway's pool
  handler,   \* the call in the blockchain service
  redis,     \* audit:level_log, newest first
  deque,     \* _level_log, newest first
  inMemory,  \* history: calls whose entry only went to the deque
  untrimmed, \* history: calls that pushed their entry after the last LTRIM
  mempool,   \* [chain -> transactions accepted, in nonce order]
  trail,     \* [chain -> calls in accessLogs]
  qpc,       \* where a query is
  raw,       \* [query -> entries read from the chain, oldest first]
  pages,     \* [query -> pages read]
  excused,   \* history: [query -> calls whose level-log entry it did not have to take]
  pending,   \* [query -> calls shown as pending]
  shown,     \* [query -> the page of entries shown with their levels]
  known,     \* history: [query -> calls its chain had accepted when it started]
  seen,      \* history: [query -> the level log its levels were taken from]
  crashes

senderVars == <<sender, handler, redis, deque, inMemory, untrimmed, mempool, trail, crashes>>
queryVars == <<qpc, raw, pages, excused, pending, shown, known, seen>>
vars == <<senderVars, queryVars>>

SetOf(s) == {s[i] : i \in DOMAIN s}

Init ==
  /\ sender = [c \in Calls |-> "idle"]
  /\ handler = [c \in Calls |-> "none"]
  /\ redis = <<>>
  /\ deque = <<>> /\ inMemory = {} /\ untrimmed = {}
  /\ mempool = [ch \in Chains |-> <<>>]
  /\ trail = [ch \in Chains |-> <<>>]
  /\ qpc = [q \in Queries |-> "idle"]
  /\ raw = [q \in Queries |-> <<>>]
  /\ pages = [q \in Queries |-> 0]
  /\ excused = [q \in Queries |-> {}]
  /\ pending = [q \in Queries |-> {}]
  /\ shown = [q \in Queries |-> <<>>]
  /\ known = [q \in Queries |-> {}]
  /\ seen = [q \in Queries |-> <<>>]
  /\ crashes = 0

-----------------------------------------------------------------------------
(* blockchain_log in the gateway.                                          *)

Log(c) ==
  /\ sender[c] = "idle"
  /\ sender' = [sender EXCEPT ![c] = "queued"]
  /\ UNCHANGED <<handler, redis, deque, inMemory, untrimmed, mempool, trail, crashes, queryVars>>

Send(c) ==
  /\ sender[c] = "queued"
  /\ Cardinality({d \in Calls : sender[d] = "posting"}) < LogWorkers
  /\ sender' = [sender EXCEPT ![c] = "posting"]
  /\ handler' = [handler EXCEPT ![c] = "sent"]
  /\ UNCHANGED <<redis, deque, inMemory, untrimmed, mempool, trail, crashes, queryVars>>

\* The post was answered, timed out or was refused: nothing tells which, and
\* the service may handle it later, or never.
SendEnds(c) ==
  /\ sender[c] = "posting"
  /\ sender' = [sender EXCEPT ![c] = "over"]
  /\ UNCHANGED <<handler, redis, deque, inMemory, untrimmed, mempool, trail, crashes, queryVars>>

-----------------------------------------------------------------------------
(* /audit/log in the blockchain service.                                   *)

trim_OneMore(s) == SubSeq(s, 1, IF Len(s) <= LevelCap THEN Len(s) ELSE LevelCap + 1)
trim_FromOne(s) == SubSeq(s, 2, IF Len(s) <= LevelCap THEN Len(s) ELSE LevelCap + 1)
trim(s) == SubSeq(s, 1, IF Len(s) < LevelCap THEN Len(s) ELSE LevelCap)

\* audit_append: LPUSH; when it fails, the entry goes to the deque instead.
LogAccess(c) ==
  /\ handler[c] = "sent"
  /\ \/ /\ redis' = <<c>> \o redis
        /\ untrimmed' = untrimmed \cup {c}
        /\ handler' = [handler EXCEPT ![c] = "pushed"]
        /\ UNCHANGED <<deque, inMemory>>
     \/ /\ c \in RedisFails
        /\ deque' = trim(<<c>> \o deque)
        /\ inMemory' = inMemory \cup {c}
        /\ handler' = [handler EXCEPT ![c] = "appended"]
        /\ UNCHANGED <<redis, untrimmed>>
  /\ UNCHANGED <<sender, mempool, trail, crashes, queryVars>>

\* audit_append: LTRIM; when it fails, the entry goes to the deque as well,
\* whether or not Redis trimmed its list before the connection broke.
Trim(c) ==
  /\ handler[c] = "pushed"
  /\ handler' = [handler EXCEPT ![c] = "appended"]
  /\ \/ redis' = trim(redis) /\ untrimmed' = {} /\ UNCHANGED deque
     \/ /\ c \in RedisFails
        /\ deque' = trim(<<c>> \o deque)
        /\ \/ redis' = trim(redis) /\ untrimmed' = {}
           \/ UNCHANGED <<redis, untrimmed>>
  /\ UNCHANGED <<sender, inMemory, mempool, trail, crashes, queryVars>>

\* send_transaction_nowait submits, or raises and the entry never gets there.
Submit(c) ==
  /\ handler[c] = "appended"
  /\ handler' = [handler EXCEPT ![c] = "done"]
  /\ mempool' \in {mempool, [mempool EXCEPT ![ChainOf[c]] = Append(@, c)]}
  /\ UNCHANGED <<sender, redis, deque, inMemory, untrimmed, trail, crashes, queryVars>>

\* The next logAccess is executed or evicted.
Mine(ch) ==
  /\ mempool[ch] # <<>>
  /\ mempool' = [mempool EXCEPT ![ch] = Tail(@)]
  /\ trail' \in {trail, [trail EXCEPT ![ch] = Append(@, Head(mempool[ch]))]}
  /\ UNCHANGED <<sender, handler, redis, deque, inMemory, untrimmed, crashes, queryVars>>

GatewayCrash ==
  /\ crashes < MaxCrashes
  /\ crashes' = crashes + 1
  /\ sender' = [c \in Calls |-> IF sender[c] \in {"queued", "posting"} THEN "over" ELSE sender[c]]
  /\ UNCHANGED <<handler, redis, deque, inMemory, untrimmed, mempool, trail, queryVars>>

BlockchainCrash ==
  /\ crashes < MaxCrashes
  /\ crashes' = crashes + 1
  /\ handler' = [c \in Calls |-> IF handler[c] = "none" THEN "none" ELSE "done"]
  /\ deque' = <<>>
  /\ qpc' = [q \in Queries |-> IF qpc[q] # "idle" THEN "over" ELSE "idle"]
  /\ UNCHANGED <<sender, redis, inMemory, untrimmed, mempool, trail,
                 raw, pages, excused, pending, shown, known, seen>>

-----------------------------------------------------------------------------
(* /audit/all                                                              *)

StartQuery(q) ==
  /\ qpc[q] = "idle"
  /\ qpc' = [qpc EXCEPT ![q] = "paging"]
  /\ known' = [known EXCEPT ![q] = SetOf(mempool[ChainOf[q]]) \cup SetOf(trail[ChainOf[q]])]
  /\ UNCHANGED <<senderVars, raw, pages, excused, pending, shown, seen>>

\* getAllAccessLogs(page, PAGE_LIMIT): a slice of the log, oldest first.
getAllAccessLogs_NewestFirst(ch, page) ==
  LET total == Len(trail[ch])
      newest == [i \in 1 .. total |-> trail[ch][total + 1 - i]]
      end == (page + 1) * PageLimit
  IN SubSeq(newest, page * PageLimit + 1, IF end > total THEN total ELSE end)
getAllAccessLogs(ch, page) ==
  LET end == (page + 1) * PageLimit
  IN SubSeq(trail[ch], page * PageLimit + 1, IF end > Len(trail[ch]) THEN Len(trail[ch]) ELSE end)

ReadPage(q) ==
  LET chunk == getAllAccessLogs(ChainOf[q], pages[q]) IN
  /\ qpc[q] = "paging"
  /\ raw' = [raw EXCEPT ![q] = @ \o chunk]
  /\ pages' = [pages EXCEPT ![q] = @ + 1]
  /\ qpc' = [qpc EXCEPT ![q] =
               IF Len(chunk) < PageLimit \/ pages[q] + 1 = MaxPages THEN "merging" ELSE @]
  /\ UNCHANGED <<senderVars, excused, pending, shown, known, seen>>

\* What audit_entries may return.
audit_entries(q) == {redis} \cup (IF q \in RedisFails THEN {deque} ELSE {})

\* all_raw[0 : page_size] after the reversal.
newestPage(q) ==
  LET total == Len(raw[q])
  IN [i \in 1 .. (IF total < PageSize THEN total ELSE PageSize) |-> raw[q][total + 1 - i]]

onchain_keys(q) == {KeyOf[c] : c \in SetOf(raw[q])}

\* Entries of the level log logged in the last 300 seconds, which may be any
\* of them, whose key is not on the chain.
MergePending(q) ==
  /\ qpc[q] = "merging"
  /\ \E entries \in audit_entries(q) : \E young \in SUBSET SetOf(entries) :
       /\ excused' = [excused EXCEPT ![q] =
            IF entries = redis THEN (SetOf(redis) \ young) \cup inMemory ELSE Calls]
       /\ pending' = [pending EXCEPT ![q] = {c \in young : KeyOf[c] \notin onchain_keys(q)}]
  /\ qpc' = [qpc EXCEPT ![q] = "levels"]
  /\ UNCHANGED <<senderVars, raw, pages, shown, known, seen>>

\* _build_level_log_map: of the entries with one key the last in the list,
\* which is the oldest, is the one the dictionary keeps.
WithKey(entries, key) == {i \in DOMAIN entries : KeyOf[entries[i]] = key}
levelOf_FirstEntry(entries, c) ==
  IF entries = <<>> THEN IF FlagOf[c] THEN "HIGH" ELSE "NORMAL" ELSE LevelOf[entries[1]]
levelOf(entries, c) ==
  LET same == WithKey(entries, KeyOf[c])
  IN IF same = {} THEN IF FlagOf[c] THEN "HIGH" ELSE "NORMAL"
     ELSE LevelOf[entries[CHOOSE i \in same : \A j \in same : j <= i]]

AnswerQuery(q) ==
  /\ qpc[q] = "levels"
  /\ \E entries \in audit_entries(q) :
       /\ shown' = [shown EXCEPT ![q] =
            [i \in DOMAIN newestPage(q) |->
               [call |-> newestPage(q)[i], level |-> levelOf(entries, newestPage(q)[i])]]]
       /\ seen' = [seen EXCEPT ![q] = entries]
  /\ qpc' = [qpc EXCEPT ![q] = "answered"]
  /\ UNCHANGED <<senderVars, raw, pages, excused, pending, known>>

-----------------------------------------------------------------------------

CallStep(c) == Send(c) \/ SendEnds(c) \/ LogAccess(c) \/ Trim(c) \/ Submit(c)
QueryStep(q) == ReadPage(q) \/ MergePending(q) \/ AnswerQuery(q)

Next ==
  \/ \E c \in Calls : Log(c) \/ CallStep(c)
  \/ \E ch \in Chains : Mine(ch)
  \/ \E q \in Queries : StartQuery(q) \/ QueryStep(q)
  \/ GatewayCrash
  \/ BlockchainCrash

Spec == Init /\ [][Next]_vars

-----------------------------------------------------------------------------
(* Properties.                                                             *)

\* The logs hold calls.  The level log in Redis exceeds its limit by the
\* entries pushed since it was last trimmed, and by no more.
TypeOK ==
  /\ sender \in [Calls -> {"idle", "queued", "posting", "over"}]
  /\ handler \in [Calls -> {"none", "sent", "pushed", "appended", "done"}]
  /\ SetOf(redis) \cup SetOf(deque) \cup untrimmed \subseteq Calls
  /\ Len(redis) <= LevelCap + Cardinality(untrimmed) /\ Len(deque) <= LevelCap
  /\ \A ch \in Chains : SetOf(mempool[ch]) \cup SetOf(trail[ch]) \subseteq Calls
  /\ qpc \in [Queries -> {"idle", "paging", "merging", "levels", "answered", "over"}]
  /\ \A q \in Queries : /\ SetOf(raw[q]) \subseteq Calls
                        /\ pages[q] \in 0 .. MaxPages
                        /\ SetOf(shown[q]) \subseteq [call : Calls, level : Levels]
  /\ inMemory \subseteq Calls
  /\ excused \in [Queries -> SUBSET Calls]
  /\ pending \in [Queries -> SUBSET Calls]
  /\ known \in [Queries -> SUBSET Calls]
  /\ crashes \in 0 .. MaxCrashes

\* The entries a query has read over several calls are a prefix of the log of
\* its chain, without an entry read twice or left out, although entries are
\* appended between the calls.
PagesAreConsistent ==
  \A q \in Queries :
    LET log == trail[ChainOf[q]]
    IN Len(raw[q]) <= Len(log) /\ raw[q] = SubSeq(log, 1, Len(raw[q]))

keysRead(q) == {KeyOf[c] : c \in SetOf(raw[q])}

\* A call whose transaction the node had when a query started is in the
\* answer under its key, on the chain as far as it was read or as pending,
\* unless LevelCap newer entries trimmed its own, or its own was too old or not
\* in Redis: no call falls between the chain, read first, and the level log,
\* read later.
AcceptedIsShown ==
  \A q \in Queries : qpc[q] = "levels" =>
    \A c \in known[q] \ excused[q] :
      \/ KeyOf[c] \in keysRead(q) \cup {KeyOf[d] : d \in pending[q]}
      \/ c \notin SetOf(redis) /\ Len(redis) >= LevelCap

\* An entry is shown with the level of its own call as long as no other call
\* has its key and its level-log entry was read; otherwise with the level the
\* flag on the chain stands for.
Alone(c) == \A d \in Calls \ {c} : KeyOf[d] # KeyOf[c]
LevelsAreTheCallsOwn ==
  \A q \in Queries : \A i \in DOMAIN shown[q] :
    LET c == shown[q][i].call
    IN Alone(c) =>
         shown[q][i].level = IF c \in SetOf(seen[q]) THEN LevelOf[c]
                             ELSE IF FlagOf[c] THEN "HIGH" ELSE "NORMAL"
=============================================================================
