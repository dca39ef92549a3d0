---------------------------- MODULE AnomalyDetector ----------------------------
(***************************************************************************)
(* The behavioural detector of backend/ai_detection: every request stores  *)
(* its features in a buffer in Redis and is scored by an ECOD model fitted *)
(* on a snapshot of that buffer.  The model is refitted by a thread of its *)
(* own once enough requests were counted, in the request itself while      *)
(* there is no model, at the start of the service, and when the demo panel *)
(* replaces the buffer.                                                    *)
(*                                                                         *)
(* A sample is the number of its RPUSH, and a model is the window of       *)
(* samples it was fitted on; what it scores is left out.  Each Redis       *)
(* command and each section under the lock is a step.  Python 3.10         *)
(* switches threads at calls and at loop edges only, so counting, the test *)
(* and the reset in run_pyod_detector are one step, without the lock.      *)
(*                                                                         *)
(* The history of a user is a list in Redis as well.  LPUSH, LTRIM and     *)
(* EXPIRE keep its events consecutive, so it is given by how many were     *)
(* written and how many of those are gone again; an event is its number.   *)
(* The features count the events of the last hour and of the last day      *)
(* among the newest 501: here one of the two spans, which an event leaves  *)
(* at any time.  They also count the user's earlier anomalies, a key of    *)
(* Redis that nothing writes: it is left out.                              *)
(***************************************************************************)
EXTENDS Integers, Sequences, FiniteSets

CONSTANTS
  Scans, Detects,  \* requests of /scan and of /detect
  Blocked,         \* scans whose content or a YARA god-mode rule decides
  Reseeds,         \* requests of /admin/reseed (DEMO_MODE)
  Users,
  UserOf,          \* the user of a request, and the one a reseed resets
  BufferMax,       \* BUFFER_MAXLEN (2000)
  MinFit,          \* MIN_FIT_SAMPLES (50)
  RefitEvery,      \* REFIT_EVERY (100)
  SeedSize,        \* samples of a profile (300)
  HistoryMax,      \* events of a user Redis keeps (1000)
  HistoryRead,     \* events of a user the features look at (501)
  MaxFailures,     \* bound: Redis commands and fits that fail
  MaxCrashes       \* bound: restarts of the service

Requests == Scans \cup Detects

ASSUME DetectorAssumption ==
  /\ Scans \cap Detects = {} /\ Requests \cap Reseeds = {}
  /\ Blocked \subseteq Scans
  /\ UserOf \in [Requests \cup Reseeds -> Users]
  /\ MinFit \in Nat \ {0} /\ RefitEvery \in Nat \ {0}
  /\ BufferMax \in Nat /\ BufferMax >= MinFit
  /\ SeedSize \in Nat /\ SeedSize >= MinFit
  /\ HistoryRead \in Nat \ {0} /\ HistoryMax \in Nat /\ HistoryMax >= HistoryRead
  /\ MaxFailures \in Nat /\ MaxCrashes \in Nat

VARIABLES
  buffer,      \* ai:feature_buffer, oldest first
  pushes,      \* samples pushed so far
  counter,     \* _events_since_refit
  model,       \* pyod_detector: the window it was fitted on, <<>> for None
  pc,
  size,        \* buf_size of a request
  window,      \* X of a request or a reseed
  fits,        \* [request -> the window its background fit works on]
  clf,         \* the model a request is scored by
  userEvents,  \* user_events:<user>: events written, the first of them gone, and the
               \* events written when the key's expiry was set, 0 for no expiry
  place,       \* [request -> the number of its event in its user's history, or 0]
  old,         \* requests whose event has left the span the features count
  features,    \* the requests whose events a request counted
  connected,   \* redis_client is not None
  failures,
  crashes,
  before,      \* history: requests whose events are due in the features of one
  overtaken,   \* history: requests whose key expired between their LPUSH and EXPIRE
  seedEnd      \* history: [reseed -> the last sample it wrote]

bufferVars == <<buffer, pushes>>
requestVars == <<size, window, clf>>
historyVars == <<userEvents, place, old, overtaken>>
startVars == <<features, before, seedEnd>>
faultVars == <<connected, failures, crashes>>
vars == <<bufferVars, counter, model, pc, requestVars, fits, historyVars, startVars, faultVars>>

Init ==
  /\ buffer = <<>> /\ pushes = 0
  /\ counter = 0
  /\ model = <<>>
  /\ pc = [r \in Requests \cup Reseeds |-> "idle"]
  /\ size = [r \in Requests |-> 0]
  /\ window = [r \in Requests \cup Reseeds |-> <<>>]
  /\ fits = [r \in Requests |-> <<>>]
  /\ clf = [r \in Requests |-> <<>>]
  /\ userEvents = [u \in Users |-> [written |-> 0, gone |-> 0, expiry |-> 0]]
  /\ place = [r \in Requests |-> 0]
  /\ old = {} /\ overtaken = {}
  /\ features = [r \in Requests |-> {}]
  /\ crashes = 0
  /\ connected = TRUE /\ failures = 0
  /\ before = [r \in Requests |-> {}]
  /\ seedEnd = [s \in Reseeds |-> 0]

Goes(r, from, to) == pc[r] = from /\ pc' = [pc EXCEPT ![r] = to]

LastOf(w) == IF w = <<>> THEN 0 ELSE w[Len(w)]

\* A call raises; without a client every Redis command is skipped.
Fails == failures < MaxFailures /\ failures' = failures + 1 /\ UNCHANGED <<connected, crashes>>
NoRedis == Fails \/ (~connected /\ UNCHANGED faultVars)
Works == connected /\ UNCHANGED faultVars

-----------------------------------------------------------------------------
(* The feature buffer (redis_buffer.py) and the model.                     *)

trimmed_Head(s) == IF Len(s) <= BufferMax THEN s ELSE SubSeq(s, 1, BufferMax)
trimmed_OneMore(s) == IF Len(s) <= BufferMax THEN s ELSE SubSeq(s, Len(s) - BufferMax, Len(s))
trimmed(s) == IF Len(s) <= BufferMax THEN s ELSE SubSeq(s, Len(s) - BufferMax + 1, Len(s))

\* load_buffer: the whole buffer, or None below MinFit or when Redis fails.
enough_Any == buffer # <<>>
enough == Len(buffer) >= MinFit
load_buffer(w) ==
  \/ Works /\ w = IF enough THEN buffer ELSE <<>>
  \/ NoRedis /\ w = <<>>

\* fit_detector: the model fitted on w replaces whatever is there, or the
\* fit raises.
fit_detector(w) ==
  \/ model' = w /\ UNCHANGED faultVars
  \/ Fails /\ UNCHANGED model

-----------------------------------------------------------------------------
(* /detect, and /scan up to its verdict.                                   *)

written(u) == userEvents[u].written
gone(u) == userEvents[u].gone
listed(q) == place[q] > gone(UserOf[q])

\* Answered requests of a user whose event is still of the span and not
\* followed by HistoryRead others; the key did not expire under its hands.
due_events(u) ==
  {q \in Requests : /\ UserOf[q] = u /\ pc[q] = "done" /\ q \notin old \cup overtaken
                    /\ place[q] = 0 \/ place[q] + HistoryRead > written(u)}

\* LRANGE 0 500, and the events of it young enough.
events(u) ==
  {q \in Requests : /\ UserOf[q] = u /\ listed(q) /\ q \notin old
                    /\ place[q] + HistoryRead > written(u)}

\* The history the features are computed from, none when Redis fails.
extract_features(r) ==
  /\ r \notin Blocked
  /\ Goes(r, "idle", "push")
  /\ \/ Works /\ features' = [features EXCEPT ![r] = events(UserOf[r])]
     \/ NoRedis /\ UNCHANGED features
  /\ before' = [before EXCEPT ![r] = due_events(UserOf[r])]
  /\ UNCHANGED <<bufferVars, counter, model, requestVars, fits, historyVars, seedEnd>>

\* No behavioural score.
BlockedByContent(r) ==
  /\ r \in Blocked
  /\ Goes(r, "idle", "persist")
  /\ UNCHANGED <<bufferVars, counter, model, requestVars, fits, historyVars, startVars, faultVars>>

\* _store_feature: RPUSH, LTRIM, LLEN; an exception makes the size 0.
Push(r) ==
  /\ connected
  /\ Goes(r, "push", "trim")
  /\ buffer' = Append(buffer, pushes + 1)
  /\ pushes' = pushes + 1
  /\ UNCHANGED <<counter, model, requestVars, fits, historyVars, startVars, faultVars>>

Trim(r) ==
  /\ Goes(r, "trim", "len")
  /\ buffer' = trimmed(buffer)
  /\ UNCHANGED <<pushes, counter, model, requestVars, fits, historyVars, startVars, faultVars>>

Length(r) ==
  /\ Goes(r, "len", "count")
  /\ size' = [size EXCEPT ![r] = Len(buffer)]
  /\ UNCHANGED <<bufferVars, counter, model, window, clf, fits, historyVars,
                 startVars, faultVars>>

StoreFails(r) ==
  /\ NoRedis
  /\ \E from \in {"push", "trim", "len"} : Goes(r, from, "count")
  /\ UNCHANGED <<bufferVars, counter, model, requestVars, fits, historyVars, startVars>>

due(r) == counter + 1 >= RefitEvery /\ size[r] >= MinFit

Count(r) ==
  /\ \/ Goes(r, "count", "reload") /\ due(r) /\ counter' = 0
     \/ Goes(r, "count", "lookup") /\ ~due(r) /\ counter' = counter + 1
  /\ UNCHANGED <<bufferVars, model, requestVars, fits, historyVars, startVars, faultVars>>

\* Load the buffer and start a thread that fits it.
StartRefit(r) ==
  /\ Goes(r, "reload", "lookup")
  /\ \E w \in {<<>>, buffer} : load_buffer(w) /\ fits' = [fits EXCEPT ![r] = w]
  /\ UNCHANGED <<bufferVars, counter, model, requestVars, historyVars, startVars>>

EndRefit(r) ==
  /\ fits[r] # <<>>
  /\ fit_detector(fits[r])
  /\ fits' = [fits EXCEPT ![r] = <<>>]
  /\ UNCHANGED <<bufferVars, counter, pc, requestVars, historyVars, startVars>>

fitsItself_Never(r) == FALSE
fitsItself(r) == model = <<>> /\ size[r] >= MinFit

Lookup(r) ==
  /\ \/ Goes(r, "lookup", "load") /\ fitsItself(r)
     \/ Goes(r, "lookup", "score") /\ ~fitsItself(r)
  /\ clf' = [clf EXCEPT ![r] = model]
  /\ UNCHANGED <<bufferVars, counter, model, size, window, fits, historyVars,
                 startVars, faultVars>>

Load(r) ==
  /\ \E w \in {<<>>, buffer} :
       /\ load_buffer(w)
       /\ window' = [window EXCEPT ![r] = w]
       /\ Goes(r, "load", IF w = <<>> THEN "score" ELSE "fit")
  /\ UNCHANGED <<bufferVars, counter, model, size, clf, fits, historyVars,
                 startVars>>

Fit(r) ==
  /\ Goes(r, "fit", "fitted")
  /\ fit_detector(window[r])
  /\ UNCHANGED <<bufferVars, counter, requestVars, fits, historyVars, startVars>>

LookupAgain(r) ==
  /\ Goes(r, "fitted", "score")
  /\ clf' = [clf EXCEPT ![r] = model]
  /\ UNCHANGED <<bufferVars, counter, model, size, window, fits, historyVars,
                 startVars, faultVars>>

\* classify_score: the level goes into the answer and the event, and decides
\* on nothing here.
Score(r) ==
  /\ Goes(r, "score", "persist")
  /\ UNCHANGED <<bufferVars, counter, model, requestVars, fits, historyVars, startVars, faultVars>>

\* _persist_event: LPUSH, LTRIM, EXPIRE, PUBLISH, then the request is
\* answered; a command that fails skips those after it.
WriteEvent(r) ==
  /\ connected
  /\ Goes(r, "persist", "trimEvents")
  /\ userEvents' = [userEvents EXCEPT ![UserOf[r]].written = @ + 1]
  /\ place' = [place EXCEPT ![r] = written(UserOf[r]) + 1]
  /\ UNCHANGED <<bufferVars, counter, model, requestVars, fits, old, overtaken, startVars, faultVars>>

TrimEvents(r) ==
  LET u == UserOf[r] IN
  /\ Goes(r, "trimEvents", "expire")
  /\ userEvents' = [userEvents EXCEPT ![u].gone =
                      IF written(u) > gone(u) + HistoryMax THEN written(u) - HistoryMax ELSE @]
  /\ UNCHANGED <<bufferVars, counter, model, requestVars, fits, place, old, overtaken, startVars, faultVars>>

\* A key without events has no expiry.
SetExpiry(r) ==
  LET u == UserOf[r] IN
  /\ Goes(r, "expire", "publish")
  /\ userEvents' = [userEvents EXCEPT ![u].expiry = IF written(u) > gone(u) THEN written(u) ELSE 0]
  /\ UNCHANGED <<bufferVars, counter, model, requestVars, fits, place, old, overtaken, startVars, faultVars>>

PersistFails(r) ==
  /\ NoRedis
  /\ \E from \in {"persist", "trimEvents", "expire"} : Goes(r, from, "publish")
  /\ UNCHANGED <<bufferVars, counter, model, requestVars, fits, historyVars, startVars>>

persist_event(r) == WriteEvent(r) \/ TrimEvents(r) \/ SetExpiry(r) \/ PersistFails(r)

Answer(r) ==
  /\ Goes(r, "publish", "done")
  /\ UNCHANGED <<bufferVars, counter, model, requestVars, fits, historyVars, startVars, faultVars>>

-----------------------------------------------------------------------------
(* Time passes for the history of a user.                                  *)

Age(r) ==
  /\ listed(r) /\ r \notin old
  /\ old' = old \cup {r}
  /\ UNCHANGED <<bufferVars, counter, model, pc, requestVars, fits, userEvents, place,
                 overtaken, startVars, faultVars>>

\* The key is dropped a week after its expiry was last set: the events written
\* by then have left the span, later ones need not have.
outlived_Soon(u) == TRUE
outlived(u) ==
  \A q \in Requests : UserOf[q] = u /\ listed(q) /\ place[q] <= userEvents[u].expiry => q \in old

Expire(u) ==
  /\ userEvents[u].expiry > 0 /\ outlived(u)
  /\ userEvents' = [userEvents EXCEPT ![u] = [written |-> written(u), gone |-> written(u), expiry |-> 0]]
  /\ overtaken' = overtaken \cup {q \in Requests : /\ UserOf[q] = u /\ listed(q)
                                                   /\ pc[q] \in {"trimEvents", "expire"}}
  /\ UNCHANGED <<bufferVars, counter, model, pc, requestVars, fits, place, old,
                 startVars, faultVars>>

TimePasses == (\E r \in Requests : Age(r)) \/ (\E u \in Users : Expire(u))

-----------------------------------------------------------------------------
(* /admin/reseed, and the start of the service.                            *)

\* DEL and the RPUSHes are one MULTI/EXEC.
load_into_buffer(s) ==
  /\ connected
  /\ Goes(s, "idle", "seeded")
  /\ buffer' = [i \in 1 .. SeedSize |-> pushes + i]
  /\ pushes' = pushes + SeedSize
  /\ seedEnd' = [seedEnd EXCEPT ![s] = pushes + SeedSize]
  /\ UNCHANGED <<counter, model, requestVars, fits, historyVars, features, before, faultVars>>

\* The address is optional.
reset_user(s) ==
  /\ Goes(s, "seeded", "load")
  /\ \/ UNCHANGED userEvents
     \/ userEvents' = [userEvents EXCEPT ![UserOf[s]] =
                         [written |-> written(UserOf[s]), gone |-> written(UserOf[s]), expiry |-> 0]]
  /\ UNCHANGED <<bufferVars, counter, model, requestVars, fits, place, old, overtaken, startVars, faultVars>>

ReseedFails(s) ==
  /\ NoRedis
  /\ \E from \in {"idle", "seeded"} : Goes(s, from, "failed")
  /\ UNCHANGED <<bufferVars, counter, model, requestVars, fits, historyVars, startVars>>

\* Without samples the request is answered with the model that is there.
load_models(s) ==
  /\ \E w \in {<<>>, buffer} :
       /\ load_buffer(w)
       /\ window' = [window EXCEPT ![s] = w]
       /\ Goes(s, "load", IF w = <<>> THEN "done" ELSE "fit")
  /\ UNCHANGED <<bufferVars, counter, model, size, clf, fits, historyVars,
                 startVars>>

FitSeeds(s) ==
  /\ Goes(s, "fit", "done")
  /\ fit_detector(window[s])
  /\ UNCHANGED <<bufferVars, counter, requestVars, fits, historyVars, startVars>>

\* The restarted service connects to Redis once, and fits what the buffer
\* holds before it serves.
Crash ==
  /\ crashes < MaxCrashes
  /\ crashes' = crashes + 1
  /\ pc' = [r \in DOMAIN pc |-> IF pc[r] \in {"idle", "done", "failed"} THEN pc[r] ELSE "lost"]
  /\ counter' = 0
  /\ fits' = [r \in Requests |-> <<>>]
  /\ \/ /\ connected' = TRUE /\ model' = IF enough THEN buffer ELSE <<>>
        /\ UNCHANGED failures
     \/ /\ failures < MaxFailures /\ failures' = failures + 1
        /\ connected' \in BOOLEAN /\ model' = <<>>
  /\ UNCHANGED <<bufferVars, requestVars, historyVars, startVars>>

-----------------------------------------------------------------------------

RequestStep(r) ==
  \/ extract_features(r) \/ BlockedByContent(r)
  \/ Push(r) \/ Trim(r) \/ Length(r) \/ StoreFails(r)
  \/ Count(r) \/ StartRefit(r) \/ EndRefit(r)
  \/ Lookup(r) \/ Load(r) \/ Fit(r) \/ LookupAgain(r)
  \/ Score(r) \/ persist_event(r) \/ Answer(r)

Next ==
  \/ \E r \in Requests : RequestStep(r)
  \/ \E s \in Reseeds : load_into_buffer(s) \/ reset_user(s) \/ load_models(s)
                          \/ FitSeeds(s) \/ ReseedFails(s)
  \/ TimePasses
  \/ Crash

Spec == Init /\ [][Next]_vars

-----------------------------------------------------------------------------
(* Properties.                                                             *)

Windows ==
  {<<>>, buffer, model} \cup {window[r] : r \in DOMAIN window}
    \cup {fits[r] : r \in Requests} \cup {clf[r] : r \in Requests}
Consecutive(w) == \A i \in DOMAIN w : i > 1 => w[i] = w[i - 1] + 1

came == {r \in Requests : pc[r] # "idle"}
Seeded == \E s \in Reseeds : seedEnd[s] > 0
untrimmed == Cardinality({r \in Requests : pc[r] \in {"trim", "lost"}}) + failures
limit == IF Seeded /\ SeedSize > BufferMax THEN SeedSize ELSE BufferMax

\* The buffer is over its limit by at most one sample of each request between
\* RPUSH and LTRIM, and by the seeds of the panel, which are not trimmed: the
\* next LTRIM makes up for every one that failed or that a restart lost.  A
\* model is fitted on MinFit samples at least.
TypeOK ==
  /\ Len(buffer) <= limit + untrimmed
  /\ pushes \in Nat /\ counter \in 0 .. Cardinality(came)
  /\ \A w \in Windows : \A i \in DOMAIN w : w[i] \in 1 .. pushes
  /\ \A w \in Windows \ {buffer} : w = <<>> \/ Len(w) >= MinFit
  /\ pc \in [Requests \cup Reseeds ->
               {"idle", "push", "trim", "len", "count", "reload", "lookup", "load", "fit",
                "fitted", "score", "persist", "trimEvents", "expire", "publish", "seeded", "done",
                "failed", "lost"}]
  /\ size \in [Requests -> Nat]
  /\ userEvents \in [Users -> [written : Nat, gone : Nat, expiry : Nat]]
  /\ place \in [Requests -> Nat] /\ old \cup overtaken \subseteq Requests
  /\ features \in [Requests -> SUBSET Requests]
  /\ before \in [Requests -> SUBSET Requests] /\ seedEnd \in [Reseeds -> Nat]
  /\ connected \in BOOLEAN /\ failures \in 0 .. MaxFailures /\ crashes \in 0 .. MaxCrashes

\* However the pushes, trims and loads of several requests fall, whatever
\* fails and whatever a restart cuts short, the buffer ends with the latest
\* sample and every model was fitted on consecutive samples, without one
\* missing in between.
WindowsAreConsecutive ==
  /\ LastOf(buffer) = pushes
  /\ \A w \in Windows : Consecutive(w)

\* A request that saw enough samples is scored by a model, even when it is the
\* first to need one and several fit at the same time: the score falls back
\* to 0.0 only while the buffer is short, or when something failed.
ScoredWhenWarm == failures = 0 =>
  \A r \in Requests :
    pc[r] \in {"score", "persist", "trimEvents", "expire", "publish", "done"} /\ size[r] >= MinFit
      => clf[r] # <<>>

\* The features of a request count every request of its user that was
\* answered before it came and whose event is of the span and among the
\* newest HistoryRead, however writes, trims and expiries fall and whatever a
\* restart cuts short, until the panel resets the user.  Requests that still
\* run, or that a restart lost, may be counted or not; and an event is gone
\* when the key expires after it was written and before its own EXPIRE.
HistoryIsSeen == (failures = 0 /\ ~Seeded) =>
  \A r \in Requests : before[r] \subseteq features[r]
=============================================================================
