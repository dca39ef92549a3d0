------------------------- MODULE AnomalyDetectorProofs -------------------------
(***************************************************************************)
(* That the behavioural detector keeps its buffer, its models and the      *)
(* histories of the users right, for any number of requests, reseeds and   *)
(* users, any sizes of the buffer and of a fit, and any number of failures *)
(* and restarts.                                                           *)
(***************************************************************************)
EXTENDS AnomalyDetector, FiniteSetTheorems, SequenceTheorems, TLAPS

-----------------------------------------------------------------------------
(* The inductive invariant.                                                *)

Phases == {"idle", "push", "trim", "len", "count", "reload", "lookup", "load", "fit",
           "fitted", "score", "persist", "trimEvents", "expire", "publish", "seeded", "done",
           "failed", "lost"}

Types ==
  /\ buffer \in Seq(Nat) /\ pushes \in Nat /\ counter \in Nat
  /\ model \in Seq(Nat)
  /\ pc \in [Requests \cup Reseeds -> Phases]
  /\ size \in [Requests -> Nat]
  /\ window \in [Requests \cup Reseeds -> Seq(Nat)]
  /\ fits \in [Requests -> Seq(Nat)] /\ clf \in [Requests -> Seq(Nat)]
  /\ userEvents \in [Users -> [written : Nat, gone : Nat, expiry : Nat]]
  /\ place \in [Requests -> Nat] /\ old \subseteq Requests /\ overtaken \subseteq Requests
  /\ features \in [Requests -> SUBSET Requests] /\ before \in [Requests -> SUBSET Requests]
  /\ seedEnd \in [Reseeds -> Nat]
  /\ connected \in BOOLEAN
  /\ failures \in Nat /\ failures <= MaxFailures
  /\ crashes \in Nat /\ crashes <= MaxCrashes

\* The buffer holds the latest samples.
BufferInv ==
  /\ Len(buffer) <= pushes
  /\ \A i \in 1 .. Len(buffer) : buffer[i] = pushes - Len(buffer) + i
  /\ buffer = <<>> => pushes = 0

\* A stretch of the first n samples that is long enough to be fitted on.
Stretch(w, n) ==
  /\ \A i \in 1 .. Len(w) : w[i] \in 1 .. n
  /\ \A i \in 1 .. Len(w) : i > 1 => w[i] = w[i - 1] + 1
  /\ w = <<>> \/ Len(w) >= MinFit

WindowsInv ==
  /\ Stretch(model, pushes)
  /\ \A r \in Requests \cup Reseeds : Stretch(window[r], pushes)
  /\ \A r \in Requests : Stretch(fits[r], pushes) /\ Stretch(clf[r], pushes)

\* An LTRIM is sent on the connection its RPUSH was sent on, and only a failure
\* leaves the service without one.
ConnectedInv ==
  /\ \A r \in Requests : pc[r] = "trim" => connected
  /\ failures = 0 => connected

BoundInv == Len(buffer) <= limit + untrimmed

\* A request has been counted when it is past the counting, or blocked.
Counted == {"reload", "lookup", "load", "fit", "fitted", "score", "persist", "trimEvents", "expire",
            "publish", "done", "lost"}
counted == {r \in Requests : pc[r] \in Counted}

CounterInv == IsFiniteSet(came) /\ counter <= Cardinality(counted)

\* A request has seen a size only of a buffer that is long enough still.
SizesInv ==
  /\ \A r \in Requests : pc[r] = "idle" => size[r] = 0
  /\ \A r \in Requests : size[r] >= MinFit => enough

\* A fit has a window to work on.
FitInv == \A r \in Requests \cup Reseeds : pc[r] = "fit" => window[r] # <<>>

\* Who fitted leaves a model behind, and no later fit takes it away.
FittedInv == failures = 0 => \A r \in Requests : pc[r] = "fitted" => model # <<>>

\* An event that was written is in the history, unless it has left the span,
\* was overtaken by an expiry, or has HistoryMax others after it; and the
\* expiry of the key was last set after the event was written, once its
\* request has seen to that.
Written == {"trimEvents", "expire", "publish", "done"}
EventInv(a) ==
  LET u == UserOf[a] IN
  /\ pc[a] \in Written =>
       /\ 1 <= place[a] /\ place[a] <= written(u)
       /\ \/ a \in old \cup overtaken \/ place[a] > gone(u)
          \/ place[a] + HistoryMax <= written(u)
  /\ pc[a] \in {"publish", "done"} => userEvents[u].expiry >= place[a] \/ place[a] <= gone(u)

HistoryInv ==
  /\ \A s \in Reseeds : pc[s] = "seeded" => seedEnd[s] > 0
  /\ failures = 0 /\ ~Seeded =>
       /\ \A u \in Users : gone(u) <= written(u)
       /\ \A a \in Requests : EventInv(a)
  /\ HistoryIsSeen

IInv ==
  /\ Types /\ BufferInv /\ WindowsInv /\ ConnectedInv /\ BoundInv /\ CounterInv
  /\ SizesInv /\ FitInv /\ FittedInv /\ ScoredWhenWarm /\ HistoryInv

-----------------------------------------------------------------------------
(* What a step does.                                                       *)

LEMMA Numbers ==
  /\ MinFit \in Nat /\ MinFit >= 1 /\ BufferMax \in Nat /\ BufferMax >= MinFit
  /\ SeedSize \in Nat /\ SeedSize >= MinFit
  /\ HistoryMax \in Nat /\ HistoryRead \in Nat /\ HistoryMax >= HistoryRead
  /\ MaxFailures \in Nat /\ MaxCrashes \in Nat
  BY DetectorAssumption

\* A step of one request or one reseed moves it on; which moves there are.
LEMMA Moves ==
  ASSUME Next
  PROVE  \/ pc' = pc
         \/ Crash
         \/ \E r \in Requests, from, to \in Phases :
              /\ Goes(r, from, to)
              /\ from \notin {"done", "lost"} /\ to \notin {"idle", "seeded", "lost"}
              /\ from \in Counted => to \in Counted
              /\ to = "trim" => Push(r)
              /\ from = "trim" => Trim(r) \/ StoreFails(r)
              /\ to = "fit" => Load(r)
              /\ to = "fitted" => Fit(r)
              /\ to = "score" => Lookup(r) \/ Load(r) \/ LookupAgain(r)
              /\ to = "persist" => BlockedByContent(r) \/ Score(r)
              /\ to = "trimEvents" => WriteEvent(r)
              /\ to = "expire" => TrimEvents(r)
              /\ to = "publish" => SetExpiry(r) \/ PersistFails(r)
              /\ to = "done" => Answer(r)
         \/ \E s \in Reseeds, from, to \in Phases :
              /\ Goes(s, from, to)
              /\ to = "seeded" => load_into_buffer(s)
              /\ to = "fit" => load_models(s)
<1> USE DEF Phases, Counted
<1>1. ASSUME NEW r \in Requests, RequestStep(r)
      PROVE  \/ pc' = pc
             \/ \E from, to \in Phases :
                  /\ Goes(r, from, to)
                  /\ from \notin {"done", "lost"} /\ to \notin {"idle", "seeded", "lost"}
                  /\ from \in Counted => to \in Counted
                  /\ to = "trim" => Push(r)
                  /\ from = "trim" => Trim(r) \/ StoreFails(r)
                  /\ to = "fit" => Load(r)
                  /\ to = "fitted" => Fit(r)
                  /\ to = "score" => Lookup(r) \/ Load(r) \/ LookupAgain(r)
                  /\ to = "persist" => BlockedByContent(r) \/ Score(r)
                  /\ to = "trimEvents" => WriteEvent(r)
                  /\ to = "expire" => TrimEvents(r)
                  /\ to = "publish" => SetExpiry(r) \/ PersistFails(r)
                  /\ to = "done" => Answer(r)
  <2>1. CASE extract_features(r)
    <3>1. Goes(r, "idle", "push")
      BY <2>1 DEF extract_features
    <3> QED
      BY <2>1, <3>1
  <2>2. CASE BlockedByContent(r)
    <3>1. Goes(r, "idle", "persist")
      BY <2>2 DEF BlockedByContent
    <3> QED
      BY <2>2, <3>1
  <2>3. CASE Push(r)
    <3>1. Goes(r, "push", "trim")
      BY <2>3 DEF Push
    <3> QED
      BY <2>3, <3>1
  <2>4. CASE Trim(r)
    <3>1. Goes(r, "trim", "len")
      BY <2>4 DEF Trim
    <3> QED
      BY <2>4, <3>1
  <2>5. CASE Length(r)
    <3>1. Goes(r, "len", "count")
      BY <2>5 DEF Length
    <3> QED
      BY <2>5, <3>1
  <2>6. CASE StoreFails(r)
    <3>1. Goes(r, "push", "count") \/ Goes(r, "trim", "count") \/ Goes(r, "len", "count")
      BY <2>6 DEF StoreFails
    <3> QED
      BY <2>6, <3>1
  <2>7. CASE Count(r)
    <3>1. Goes(r, "count", "reload") \/ Goes(r, "count", "lookup")
      BY <2>7 DEF Count
    <3> QED
      BY <2>7, <3>1
  <2>8. CASE StartRefit(r)
    <3>1. Goes(r, "reload", "lookup")
      BY <2>8 DEF StartRefit
    <3> QED
      BY <2>8, <3>1
  <2>9. CASE EndRefit(r)
    BY <2>9 DEF EndRefit
  <2>10. CASE Lookup(r)
    <3>1. Goes(r, "lookup", "load") \/ Goes(r, "lookup", "score")
      BY <2>10 DEF Lookup
    <3> QED
      BY <2>10, <3>1
  <2>11. CASE Load(r)
    <3>1. Goes(r, "load", "score") \/ Goes(r, "load", "fit")
      BY <2>11 DEF Load
    <3> QED
      BY <2>11, <3>1
  <2>12. CASE Fit(r)
    <3>1. Goes(r, "fit", "fitted")
      BY <2>12 DEF Fit
    <3> QED
      BY <2>12, <3>1
  <2>13. CASE LookupAgain(r)
    <3>1. Goes(r, "fitted", "score")
      BY <2>13 DEF LookupAgain
    <3> QED
      BY <2>13, <3>1
  <2>14. CASE Score(r)
    <3>1. Goes(r, "score", "persist")
      BY <2>14 DEF Score
    <3> QED
      BY <2>14, <3>1
  <2>15. CASE persist_event(r)
    <3>1. CASE WriteEvent(r)
      <4>1. Goes(r, "persist", "trimEvents")
        BY <3>1 DEF WriteEvent
      <4> QED
        BY <3>1, <4>1
    <3>2. CASE TrimEvents(r)
      <4>1. Goes(r, "trimEvents", "expire")
        BY <3>2 DEF TrimEvents
      <4> QED
        BY <3>2, <4>1
    <3>3. CASE SetExpiry(r)
      <4>1. Goes(r, "expire", "publish")
        BY <3>3 DEF SetExpiry
      <4> QED
        BY <3>3, <4>1
    <3>4. CASE PersistFails(r)
      <4>1. \/ Goes(r, "persist", "publish") \/ Goes(r, "trimEvents", "publish")
            \/ Goes(r, "expire", "publish")
        BY <3>4 DEF PersistFails
      <4> QED
        BY <3>4, <4>1
    <3> QED
      BY <2>15, <3>1, <3>2, <3>3, <3>4 DEF persist_event
  <2>16. CASE Answer(r)
    <3>1. Goes(r, "publish", "done")
      BY <2>16 DEF Answer
    <3> QED
      BY <2>16, <3>1
  <2> QED
    BY <1>1, <2>1, <2>2, <2>3, <2>4, <2>5, <2>6, <2>7, <2>8, <2>9, <2>10, <2>11, <2>12, <2>13, <2>14, <2>15, <2>16 DEF RequestStep
<1>2. ASSUME NEW s \in Reseeds,
             load_into_buffer(s) \/ reset_user(s) \/ load_models(s) \/ FitSeeds(s) \/ ReseedFails(s)
      PROVE  \E from, to \in Phases :
               /\ Goes(s, from, to)
               /\ to = "seeded" => load_into_buffer(s)
               /\ to = "fit" => load_models(s)
  <2>1. \/ Goes(s, "idle", "seeded") /\ load_into_buffer(s)
        \/ Goes(s, "seeded", "load") \/ Goes(s, "load", "done")
        \/ Goes(s, "load", "fit") /\ load_models(s)
        \/ Goes(s, "fit", "done") \/ Goes(s, "idle", "failed") \/ Goes(s, "seeded", "failed")
    BY <1>2 DEF load_into_buffer, reset_user, load_models, FitSeeds, ReseedFails
  <2> QED
    BY <2>1
<1>3. ASSUME TimePasses PROVE pc' = pc
  BY <1>3 DEF TimePasses, Age, Expire
<1> QED
  BY <1>1, <1>2, <1>3 DEF Next

LEMMA GoesType ==
  ASSUME Types, NEW r \in Requests \cup Reseeds, NEW from, NEW to \in Phases, Goes(r, from, to)
  PROVE  /\ pc' \in [Requests \cup Reseeds -> Phases]
         /\ \A q \in Requests \cup Reseeds : pc'[q] = IF q = r THEN to ELSE pc[q]
  BY DEF Types, Goes

\* Failures are counted up to their bound, and the connection only breaks with one.
LEMMA FaultsType ==
  ASSUME Types, NoRedis \/ Works \/ Fails
  PROVE  /\ connected' \in BOOLEAN
         /\ failures' \in Nat /\ failures' <= MaxFailures /\ failures <= failures'
         /\ crashes' \in Nat /\ crashes' <= MaxCrashes
         /\ connected' = connected
  BY Numbers DEF Types, NoRedis, Works, Fails, faultVars

\* The sets that are counted are sets of requests that have come.
LEMMA Counts ==
  ASSUME IsFiniteSet(came), NEW S \in SUBSET came
  PROVE  IsFiniteSet(S) /\ Cardinality(S) \in Nat /\ Cardinality(S) <= Cardinality(came)
  BY FS_Subset, FS_CardinalityType

\* LTRIM keeps the latest samples.
LEMMA Trimmed ==
  ASSUME NEW s \in Seq(Nat)
  PROVE  /\ trimmed(s) \in Seq(Nat)
         /\ Len(trimmed(s)) = IF Len(s) <= BufferMax THEN Len(s) ELSE BufferMax
         /\ \A i \in 1 .. Len(trimmed(s)) : trimmed(s)[i] = s[Len(s) - Len(trimmed(s)) + i]
<1>1. Len(s) \in Nat /\ BufferMax \in Nat /\ \A i \in 1 .. Len(s) : s[i] \in Nat
  BY Numbers
<1>2. CASE Len(s) <= BufferMax
  BY <1>1, <1>2 DEF trimmed
<1>3. CASE Len(s) > BufferMax
  <2> DEFINE m == Len(s) - BufferMax + 1
             t == SubSeq(s, m, Len(s))
  <2>1. m \in Int /\ Len(s) \in Int /\ \A i \in m .. Len(s) : s[i] \in Nat
    BY <1>1, <1>3
  <2> HIDE DEF m
  <2>2. /\ t \in Seq(Nat) /\ Len(t) = IF m <= Len(s) THEN Len(s) - m + 1 ELSE 0
        /\ \A i \in 1 .. Len(s) - m + 1 : t[i] = s[m + i - 1]
    BY <2>1, SubSeqProperties
  <2>3. t = trimmed(s)
    BY <1>1, <1>3 DEF trimmed, m
  <2> HIDE DEF t
  <2>4. Len(t) = BufferMax
    BY <1>1, <1>3, <2>2 DEF m
  <2>5. \A i \in 1 .. BufferMax : t[i] = s[Len(s) - BufferMax + i]
    BY <1>1, <1>3, <2>2 DEF m
  <2> QED
    BY <1>1, <1>3, <2>2, <2>3, <2>4, <2>5
<1> QED
  BY <1>1, <1>2, <1>3

\* The history of a user is a record of numbers.
LEMMA HistoryTypes ==
  ASSUME Types
  PROVE  /\ \A u \in Users : /\ written(u) \in Nat /\ gone(u) \in Nat
                             /\ userEvents[u].expiry \in Nat
                             /\ userEvents[u] \in [written : Nat, gone : Nat, expiry : Nat]
         /\ \A r \in Requests : UserOf[r] \in Users /\ place[r] \in Nat
<1>1. \A u \in Users : userEvents[u] \in [written : Nat, gone : Nat, expiry : Nat]
  BY DEF Types
<1>2. \A r \in Requests : UserOf[r] \in Users /\ place[r] \in Nat
  BY DetectorAssumption DEF Types
<1> QED
  BY <1>1, <1>2 DEF written, gone

\* LTRIM does not bring events back.
LEMMA TrimmedCount ==
  ASSUME NEW w \in Nat, NEW g \in Nat
  PROVE  (IF w > g + HistoryMax THEN w - HistoryMax ELSE g) \in Nat
  BY Numbers

LEMMA TypesStep == ASSUME Types, Next PROVE Types'
<1>0. \A r \in Requests :
        UserOf[r] \in Users /\ written(UserOf[r]) \in Nat /\ gone(UserOf[r]) \in Nat
  BY HistoryTypes
<1> USE DEF Types, bufferVars, requestVars, historyVars, startVars, faultVars
<1>1. ASSUME NEW r \in Requests, extract_features(r) PROVE Types'
  <2>1. pc' \in [Requests \cup Reseeds -> Phases]
    BY <1>1, GoesType DEF extract_features, Phases
  <2>2. /\ connected' \in BOOLEAN
        /\ failures' \in Nat /\ failures' <= MaxFailures
        /\ crashes' \in Nat /\ crashes' <= MaxCrashes
    BY <1>1, FaultsType DEF extract_features
  <2>3. events(UserOf[r]) \subseteq Requests /\ due_events(UserOf[r]) \subseteq Requests
    BY DEF events, due_events
  <2>4. /\ features' = [features EXCEPT ![r] = events(UserOf[r])] \/ features' = features
        /\ before' = [before EXCEPT ![r] = due_events(UserOf[r])]
    BY <1>1 DEF extract_features
  <2>5. features' \in [Requests -> SUBSET Requests]
    BY <2>3, <2>4
  <2>6. before' \in [Requests -> SUBSET Requests]
    BY <2>3, <2>4
  <2> QED
    BY <1>1, <2>1, <2>2, <2>5, <2>6 DEF extract_features
<1>2. ASSUME NEW r \in Requests, BlockedByContent(r) PROVE Types'
  <2>1. pc' \in [Requests \cup Reseeds -> Phases]
    BY <1>2, GoesType DEF BlockedByContent, Phases
  <2>2. /\ connected' \in BOOLEAN
        /\ failures' \in Nat /\ failures' <= MaxFailures
        /\ crashes' \in Nat /\ crashes' <= MaxCrashes
    BY <1>2, FaultsType DEF BlockedByContent
  <2> QED
    BY <1>2, <2>1, <2>2 DEF BlockedByContent
<1>3. ASSUME NEW r \in Requests, Push(r) PROVE Types'
  <2>1. pc' \in [Requests \cup Reseeds -> Phases]
    BY <1>3, GoesType DEF Push, Phases
  <2>2. /\ connected' \in BOOLEAN
        /\ failures' \in Nat /\ failures' <= MaxFailures
        /\ crashes' \in Nat /\ crashes' <= MaxCrashes
    BY <1>3, FaultsType DEF Push
  <2> QED
    BY <1>3, <2>1, <2>2 DEF Push
<1>4. ASSUME NEW r \in Requests, Trim(r) PROVE Types'
  <2>1. pc' \in [Requests \cup Reseeds -> Phases]
    BY <1>4, GoesType DEF Trim, Phases
  <2>2. /\ connected' \in BOOLEAN
        /\ failures' \in Nat /\ failures' <= MaxFailures
        /\ crashes' \in Nat /\ crashes' <= MaxCrashes
    BY <1>4, FaultsType DEF Trim
  <2>3. buffer' \in Seq(Nat)
    BY <1>4, Trimmed DEF Trim
  <2> QED
    BY <1>4, <2>1, <2>2, <2>3 DEF Trim
<1>5. ASSUME NEW r \in Requests, Length(r) PROVE Types'
  <2>1. pc' \in [Requests \cup Reseeds -> Phases]
    BY <1>5, GoesType DEF Length, Phases
  <2>2. /\ connected' \in BOOLEAN
        /\ failures' \in Nat /\ failures' <= MaxFailures
        /\ crashes' \in Nat /\ crashes' <= MaxCrashes
    BY <1>5, FaultsType DEF Length
  <2>3. Len(buffer) \in Nat
    OBVIOUS
  <2>4. size' \in [Requests -> Nat]
    BY <1>5, <2>3 DEF Length
  <2> QED
    BY <1>5, <2>1, <2>2, <2>4 DEF Length
<1>6. ASSUME NEW r \in Requests, StoreFails(r) PROVE Types'
  <2>1. pc' \in [Requests \cup Reseeds -> Phases]
    BY <1>6, GoesType DEF StoreFails, Phases
  <2>2. /\ connected' \in BOOLEAN
        /\ failures' \in Nat /\ failures' <= MaxFailures
        /\ crashes' \in Nat /\ crashes' <= MaxCrashes
    BY <1>6, FaultsType DEF StoreFails
  <2> QED
    BY <1>6, <2>1, <2>2 DEF StoreFails
<1>7. ASSUME NEW r \in Requests, Count(r) PROVE Types'
  <2>1. pc' \in [Requests \cup Reseeds -> Phases]
    BY <1>7, GoesType DEF Count, Phases
  <2>2. /\ connected' \in BOOLEAN
        /\ failures' \in Nat /\ failures' <= MaxFailures
        /\ crashes' \in Nat /\ crashes' <= MaxCrashes
    BY <1>7, FaultsType DEF Count
  <2>3. counter' = 0 \/ counter' = counter + 1
    BY <1>7 DEF Count
  <2>4. counter' \in Nat
    BY <2>3
  <2>5. UNCHANGED <<bufferVars, model, requestVars, fits, historyVars, startVars, faultVars>>
    BY <1>7 DEF Count
  <2> QED
    BY <2>1, <2>4, <2>5
<1>8. ASSUME NEW r \in Requests, StartRefit(r) PROVE Types'
  <2>1. pc' \in [Requests \cup Reseeds -> Phases]
    BY <1>8, GoesType DEF StartRefit, Phases
  <2>2. /\ connected' \in BOOLEAN
        /\ failures' \in Nat /\ failures' <= MaxFailures
        /\ crashes' \in Nat /\ crashes' <= MaxCrashes
    BY <1>8, FaultsType DEF StartRefit, load_buffer
  <2>3. <<>> \in Seq(Nat)
    OBVIOUS
  <2>4. fits' \in [Requests -> Seq(Nat)]
    BY <1>8, <2>3 DEF StartRefit
  <2> QED
    BY <1>8, <2>1, <2>2, <2>4 DEF StartRefit
<1>9. ASSUME NEW r \in Requests, EndRefit(r) PROVE Types'
  <2>1. pc' = pc
    BY <1>9 DEF EndRefit
  <2>2. /\ connected' \in BOOLEAN
        /\ failures' \in Nat /\ failures' <= MaxFailures
        /\ crashes' \in Nat /\ crashes' <= MaxCrashes
    BY <1>9, FaultsType DEF EndRefit, fit_detector
  <2>3. fits' = [fits EXCEPT ![r] = <<>>]
    BY <1>9 DEF EndRefit
  <2>4. fits' \in [Requests -> Seq(Nat)]
    <3>1. <<>> \in Seq(Nat)
      OBVIOUS
    <3> QED
      BY <2>3, <3>1
  <2>5. model' = fits[r] \/ model' = model
    BY <1>9 DEF EndRefit, fit_detector
  <2>6. model' \in Seq(Nat)
    BY <2>5
  <2>7. UNCHANGED <<bufferVars, counter, pc, requestVars, historyVars, startVars>>
    BY <1>9 DEF EndRefit
  <2> QED
    BY <2>2, <2>4, <2>6, <2>7
<1>10. ASSUME NEW r \in Requests, Lookup(r) PROVE Types'
  <2>1. pc' \in [Requests \cup Reseeds -> Phases]
    BY <1>10, GoesType DEF Lookup, Phases
  <2>2. /\ connected' \in BOOLEAN
        /\ failures' \in Nat /\ failures' <= MaxFailures
        /\ crashes' \in Nat /\ crashes' <= MaxCrashes
    BY <1>10, FaultsType DEF Lookup
  <2> QED
    BY <1>10, <2>1, <2>2 DEF Lookup
<1>11. ASSUME NEW r \in Requests, Load(r) PROVE Types'
  <2>1. pc' \in [Requests \cup Reseeds -> Phases]
    BY <1>11, GoesType DEF Load, Phases
  <2>2. /\ connected' \in BOOLEAN
        /\ failures' \in Nat /\ failures' <= MaxFailures
        /\ crashes' \in Nat /\ crashes' <= MaxCrashes
    BY <1>11, FaultsType DEF Load, load_buffer
  <2>3. <<>> \in Seq(Nat)
    OBVIOUS
  <2>4. window' \in [Requests \cup Reseeds -> Seq(Nat)]
    BY <1>11, <2>3 DEF Load
  <2> QED
    BY <1>11, <2>1, <2>2, <2>4 DEF Load
<1>12. ASSUME NEW r \in Requests, Fit(r) PROVE Types'
  <2>1. pc' \in [Requests \cup Reseeds -> Phases]
    BY <1>12, GoesType DEF Fit, Phases
  <2>2. /\ connected' \in BOOLEAN
        /\ failures' \in Nat /\ failures' <= MaxFailures
        /\ crashes' \in Nat /\ crashes' <= MaxCrashes
    BY <1>12, FaultsType DEF Fit, fit_detector
  <2> QED
    BY <1>12, <2>1, <2>2 DEF Fit, fit_detector
<1>13. ASSUME NEW r \in Requests, LookupAgain(r) PROVE Types'
  <2>1. pc' \in [Requests \cup Reseeds -> Phases]
    BY <1>13, GoesType DEF LookupAgain, Phases
  <2>2. /\ connected' \in BOOLEAN
        /\ failures' \in Nat /\ failures' <= MaxFailures
        /\ crashes' \in Nat /\ crashes' <= MaxCrashes
    BY <1>13, FaultsType DEF LookupAgain
  <2> QED
    BY <1>13, <2>1, <2>2 DEF LookupAgain
<1>14. ASSUME NEW r \in Requests, Score(r) PROVE Types'
  <2>1. pc' \in [Requests \cup Reseeds -> Phases]
    BY <1>14, GoesType DEF Score, Phases
  <2>2. /\ connected' \in BOOLEAN
        /\ failures' \in Nat /\ failures' <= MaxFailures
        /\ crashes' \in Nat /\ crashes' <= MaxCrashes
    BY <1>14, FaultsType DEF Score
  <2> QED
    BY <1>14, <2>1, <2>2 DEF Score
<1>15. ASSUME NEW r \in Requests, WriteEvent(r) PROVE Types'
  <2>1. pc' \in [Requests \cup Reseeds -> Phases]
    BY <1>15, GoesType DEF WriteEvent, Phases
  <2>2. /\ connected' \in BOOLEAN
        /\ failures' \in Nat /\ failures' <= MaxFailures
        /\ crashes' \in Nat /\ crashes' <= MaxCrashes
    BY <1>15, FaultsType DEF WriteEvent
  <2>3. UserOf[r] \in Users /\ written(UserOf[r]) + 1 \in Nat
    BY <1>0
  <2>4. userEvents' = [userEvents EXCEPT ![UserOf[r]].written = written(UserOf[r]) + 1]
    BY <1>15 DEF WriteEvent, written
  <2>5. userEvents' \in [Users -> [written : Nat, gone : Nat, expiry : Nat]]
    BY <2>3, <2>4
  <2>6. place' = [place EXCEPT ![r] = written(UserOf[r]) + 1]
    BY <1>15 DEF WriteEvent
  <2>7. place' \in [Requests -> Nat]
    BY <2>3, <2>6
  <2> QED
    BY <1>15, <2>1, <2>2, <2>5, <2>7 DEF WriteEvent
<1>22. ASSUME NEW r \in Requests, TrimEvents(r) PROVE Types'
  <2>1. pc' \in [Requests \cup Reseeds -> Phases]
    BY <1>22, GoesType DEF TrimEvents, Phases
  <2>2. /\ connected' \in BOOLEAN
        /\ failures' \in Nat /\ failures' <= MaxFailures
        /\ crashes' \in Nat /\ crashes' <= MaxCrashes
    BY <1>22, FaultsType DEF TrimEvents
  <2>3. PICK n : /\ userEvents' = [userEvents EXCEPT ![UserOf[r]].gone = n]
                 /\ n = IF written(UserOf[r]) > gone(UserOf[r]) + HistoryMax
                       THEN written(UserOf[r]) - HistoryMax ELSE gone(UserOf[r])
    BY <1>22 DEF TrimEvents, gone
  <2>4. UserOf[r] \in Users /\ n \in Nat
    BY <1>0, <2>3, TrimmedCount
  <2>5. userEvents' \in [Users -> [written : Nat, gone : Nat, expiry : Nat]]
    BY <2>3, <2>4
  <2> QED
    BY <1>22, <2>1, <2>2, <2>5 DEF TrimEvents
<1>23. ASSUME NEW r \in Requests, SetExpiry(r) PROVE Types'
  <2>1. pc' \in [Requests \cup Reseeds -> Phases]
    BY <1>23, GoesType DEF SetExpiry, Phases
  <2>2. /\ connected' \in BOOLEAN
        /\ failures' \in Nat /\ failures' <= MaxFailures
        /\ crashes' \in Nat /\ crashes' <= MaxCrashes
    BY <1>23, FaultsType DEF SetExpiry
  <2>3. userEvents' \in [Users -> [written : Nat, gone : Nat, expiry : Nat]]
    BY <1>23, HistoryTypes DEF SetExpiry
  <2> QED
    BY <1>23, <2>1, <2>2, <2>3 DEF SetExpiry
<1>24. ASSUME NEW r \in Requests, PersistFails(r) PROVE Types'
  <2>1. pc' \in [Requests \cup Reseeds -> Phases]
    BY <1>24, GoesType DEF PersistFails, Phases
  <2>2. /\ connected' \in BOOLEAN
        /\ failures' \in Nat /\ failures' <= MaxFailures
        /\ crashes' \in Nat /\ crashes' <= MaxCrashes
    BY <1>24, FaultsType DEF PersistFails
  <2> QED
    BY <1>24, <2>1, <2>2 DEF PersistFails
<1>25. ASSUME NEW r \in Requests, Answer(r) PROVE Types'
  <2>1. pc' \in [Requests \cup Reseeds -> Phases]
    BY <1>25, GoesType DEF Answer, Phases
  <2>2. /\ connected' \in BOOLEAN
        /\ failures' \in Nat /\ failures' <= MaxFailures
        /\ crashes' \in Nat /\ crashes' <= MaxCrashes
    BY <1>25, FaultsType DEF Answer
  <2> QED
    BY <1>25, <2>1, <2>2 DEF Answer
<1>26. ASSUME NEW r \in Requests, Age(r) PROVE Types'
  BY <1>26 DEF Age
<1>27. ASSUME NEW u \in Users, Expire(u) PROVE Types'
  <2>1. userEvents' \in [Users -> [written : Nat, gone : Nat, expiry : Nat]]
    BY <1>27, HistoryTypes DEF Expire
  <2>2. overtaken' \subseteq Requests
    BY <1>27 DEF Expire
  <2> QED
    BY <1>27, <2>1, <2>2 DEF Expire
<1>16. ASSUME NEW s \in Reseeds, load_into_buffer(s) PROVE Types'
  <2>1. pc' \in [Requests \cup Reseeds -> Phases]
    BY <1>16, GoesType DEF load_into_buffer, Phases
  <2>2. /\ connected' \in BOOLEAN
        /\ failures' \in Nat /\ failures' <= MaxFailures
        /\ crashes' \in Nat /\ crashes' <= MaxCrashes
    BY <1>16, FaultsType DEF load_into_buffer
  <2>3. SeedSize \in Nat
    BY Numbers
  <2>4. /\ pushes' \in Nat
        /\ buffer' = [i \in 1 .. SeedSize |-> pushes + i]
        /\ seedEnd' = [seedEnd EXCEPT ![s] = pushes + SeedSize]
    BY <1>16, <2>3 DEF load_into_buffer
  <2>5. buffer' \in Seq(Nat)
    BY <2>3, <2>4
  <2>6. seedEnd' \in [Reseeds -> Nat]
    BY <2>3, <2>4
  <2> QED
    BY <1>16, <2>1, <2>2, <2>4, <2>5, <2>6 DEF load_into_buffer
<1>17. ASSUME NEW s \in Reseeds, reset_user(s) PROVE Types'
  <2>1. pc' \in [Requests \cup Reseeds -> Phases]
    BY <1>17, GoesType DEF reset_user, Phases
  <2>2. /\ connected' \in BOOLEAN
        /\ failures' \in Nat /\ failures' <= MaxFailures
        /\ crashes' \in Nat /\ crashes' <= MaxCrashes
    BY <1>17, FaultsType DEF reset_user
  <2>3. UserOf[s] \in Users
    BY DetectorAssumption
  <2>4. userEvents' \in [Users -> [written : Nat, gone : Nat, expiry : Nat]]
    <3> DEFINE none == [written |-> written(UserOf[s]), gone |-> written(UserOf[s]), expiry |-> 0]
    <3>1. none \in [written : Nat, gone : Nat, expiry : Nat]
      BY <2>3, HistoryTypes
    <3>2. userEvents' = userEvents \/ userEvents' = [userEvents EXCEPT ![UserOf[s]] = none]
      BY <1>17 DEF reset_user
    <3> QED
      BY <2>3, <3>1, <3>2
  <2> QED
    BY <1>17, <2>1, <2>2, <2>4 DEF reset_user
<1>18. ASSUME NEW s \in Reseeds, load_models(s) PROVE Types'
  <2>1. pc' \in [Requests \cup Reseeds -> Phases]
    BY <1>18, GoesType DEF load_models, Phases
  <2>2. /\ connected' \in BOOLEAN
        /\ failures' \in Nat /\ failures' <= MaxFailures
        /\ crashes' \in Nat /\ crashes' <= MaxCrashes
    BY <1>18, FaultsType DEF load_models, load_buffer
  <2>3. <<>> \in Seq(Nat)
    OBVIOUS
  <2>4. window' \in [Requests \cup Reseeds -> Seq(Nat)]
    BY <1>18, <2>3 DEF load_models
  <2> QED
    BY <1>18, <2>1, <2>2, <2>4 DEF load_models
<1>19. ASSUME NEW s \in Reseeds, FitSeeds(s) PROVE Types'
  <2>1. pc' \in [Requests \cup Reseeds -> Phases]
    BY <1>19, GoesType DEF FitSeeds, Phases
  <2>2. /\ connected' \in BOOLEAN
        /\ failures' \in Nat /\ failures' <= MaxFailures
        /\ crashes' \in Nat /\ crashes' <= MaxCrashes
    BY <1>19, FaultsType DEF FitSeeds, fit_detector
  <2> QED
    BY <1>19, <2>1, <2>2 DEF FitSeeds, fit_detector
<1>20. ASSUME NEW s \in Reseeds, ReseedFails(s) PROVE Types'
  <2>1. pc' \in [Requests \cup Reseeds -> Phases]
    BY <1>20, GoesType DEF ReseedFails, Phases
  <2>2. /\ connected' \in BOOLEAN
        /\ failures' \in Nat /\ failures' <= MaxFailures
        /\ crashes' \in Nat /\ crashes' <= MaxCrashes
    BY <1>20, FaultsType DEF ReseedFails
  <2> QED
    BY <1>20, <2>1, <2>2 DEF ReseedFails
<1>21. CASE Crash
  <2>1. pc' \in [Requests \cup Reseeds -> Phases]
    <3>1. pc' = [r \in Requests \cup Reseeds |->
                   IF pc[r] \in {"idle", "done", "failed"} THEN pc[r] ELSE "lost"]
      BY <1>21 DEF Crash
    <3>2. \A r \in Requests \cup Reseeds :
            (IF pc[r] \in {"idle", "done", "failed"} THEN pc[r] ELSE "lost") \in Phases
      BY DEF Phases
    <3> QED
      BY <3>1, <3>2
  <2>2. model' \in Seq(Nat)
    <3>1. model' = buffer \/ model' = <<>>
      BY <1>21 DEF Crash
    <3>2. <<>> \in Seq(Nat)
      OBVIOUS
    <3> QED
      BY <3>1, <3>2
  <2>3. fits' \in [Requests -> Seq(Nat)]
    BY <1>21 DEF Crash
  <2>4. /\ connected' \in BOOLEAN
        /\ failures' \in Nat /\ failures' <= MaxFailures
        /\ crashes' \in Nat /\ crashes' <= MaxCrashes
    <3>1. crashes < MaxCrashes /\ crashes' = crashes + 1
      BY <1>21 DEF Crash
    <3>2. connected' \in BOOLEAN
      BY <1>21 DEF Crash
    <3>3. failures' = failures \/ (failures < MaxFailures /\ failures' = failures + 1)
      BY <1>21 DEF Crash
    <3> QED
      BY <3>1, <3>2, <3>3, Numbers
  <2> QED
    BY <1>21, <2>1, <2>2, <2>3, <2>4 DEF Crash
<1> QED
  BY <1>1, <1>2, <1>3, <1>4, <1>5, <1>6, <1>7, <1>8, <1>9, <1>10, <1>11, <1>12, <1>13, <1>14, <1>15, <1>16, <1>17, <1>18, <1>19, <1>20, <1>21, <1>22, <1>23, <1>24, <1>25, <1>26, <1>27
     DEF Next, RequestStep, persist_event, TimePasses

-----------------------------------------------------------------------------
(* The buffer.                                                             *)

\* Which steps touch what.
LEMMA Touches ==
  ASSUME Next
  PROVE  /\ \/ UNCHANGED bufferVars
            \/ \E r \in Requests : Push(r) \/ Trim(r)
            \/ \E s \in Reseeds : load_into_buffer(s)
         /\ UNCHANGED seedEnd \/ \E s \in Reseeds : load_into_buffer(s)
         /\ UNCHANGED size \/ \E r \in Requests : Length(r)
         /\ UNCHANGED counter \/ Crash \/ \E r \in Requests : Count(r)
         /\ UNCHANGED <<features, before>> \/ \E r \in Requests : extract_features(r)
         /\ \/ UNCHANGED historyVars \/ TimePasses
            \/ \E r \in Requests : persist_event(r)
            \/ \E s \in Reseeds : reset_user(s)
<1> USE DEF bufferVars, requestVars, startVars
<1>1. ASSUME NEW r \in Requests, RequestStep(r)
      PROVE  /\ UNCHANGED bufferVars \/ Push(r) \/ Trim(r)
             /\ UNCHANGED seedEnd
             /\ UNCHANGED size \/ Length(r)
             /\ UNCHANGED counter \/ Count(r)
             /\ UNCHANGED <<features, before>> \/ extract_features(r)
             /\ UNCHANGED historyVars \/ persist_event(r)
  BY <1>1 DEF RequestStep, extract_features, BlockedByContent, Push, Trim, Length, StoreFails,
     Count, StartRefit, EndRefit, Lookup, Load, Fit, LookupAgain, Score, persist_event, WriteEvent,
     TrimEvents, SetExpiry, PersistFails, Answer
<1>2. ASSUME NEW s \in Reseeds,
             load_into_buffer(s) \/ reset_user(s) \/ load_models(s) \/ FitSeeds(s) \/ ReseedFails(s)
      PROVE  /\ UNCHANGED bufferVars \/ load_into_buffer(s)
             /\ UNCHANGED seedEnd \/ load_into_buffer(s)
             /\ UNCHANGED <<size, counter, features, before>>
             /\ UNCHANGED historyVars \/ reset_user(s)
  BY <1>2 DEF load_into_buffer, reset_user, load_models, FitSeeds, ReseedFails
<1>3. ASSUME Crash
      PROVE  UNCHANGED <<bufferVars, seedEnd, size, features, before, historyVars>>
  BY <1>3 DEF Crash
<1>4. ASSUME TimePasses
      PROVE  UNCHANGED <<bufferVars, seedEnd, size, counter, features, before>>
  BY <1>4 DEF TimePasses, Age, Expire
<1> HIDE DEF bufferVars, requestVars, startVars
<1> QED
  BY <1>1, <1>2, <1>3, <1>4 DEF Next

LEMMA BufferStep == ASSUME Types, BufferInv, Next PROVE BufferInv' /\ pushes <= pushes'
<1>1. ASSUME NEW r \in Requests, Push(r) PROVE BufferInv' /\ pushes <= pushes'
  <2>1. /\ buffer' = Append(buffer, pushes + 1) /\ pushes' = pushes + 1
        /\ buffer \in Seq(Nat) /\ pushes \in Nat /\ pushes + 1 \in Nat
    BY <1>1 DEF Push, Types
  <2>2. /\ buffer' # <<>> /\ Len(buffer') = Len(buffer) + 1
        /\ \A i \in 1 .. Len(buffer) : buffer'[i] = buffer[i]
        /\ buffer'[Len(buffer) + 1] = pushes + 1
    BY <2>1, AppendProperties
  <2>3. Len(buffer) \in Nat
    BY <2>1
  <2>4. /\ Len(buffer) <= pushes
        /\ \A i \in 1 .. Len(buffer) : buffer[i] = pushes - Len(buffer) + i
    BY DEF BufferInv
  <2>5. ASSUME NEW i \in 1 .. Len(buffer')
        PROVE  buffer'[i] = pushes' - Len(buffer') + i
    <3>1. CASE i = Len(buffer) + 1
      BY <2>1, <2>2, <2>3, <3>1
    <3>2. CASE i \in 1 .. Len(buffer)
      BY <2>1, <2>2, <2>3, <2>4, <3>2
    <3> QED
      BY <2>2, <2>3, <3>1, <3>2
  <2>6. Len(buffer') <= pushes' /\ pushes <= pushes'
    BY <2>1, <2>2, <2>3, <2>4
  <2> QED
    BY <2>2, <2>5, <2>6 DEF BufferInv
<1>2. ASSUME NEW r \in Requests, Trim(r) PROVE BufferInv' /\ pushes <= pushes'
  <2>1. buffer' = trimmed(buffer) /\ pushes' = pushes /\ buffer \in Seq(Nat) /\ pushes \in Nat
    BY <1>2 DEF Trim, Types
  <2>2. /\ Len(buffer') = IF Len(buffer) <= BufferMax THEN Len(buffer) ELSE BufferMax
        /\ \A i \in 1 .. Len(buffer') : buffer'[i] = buffer[Len(buffer) - Len(buffer') + i]
    BY <2>1, Trimmed
  <2>3. Len(buffer) \in Nat /\ BufferMax \in Nat /\ BufferMax >= 1
    BY <2>1, Numbers
  <2>4. ASSUME buffer' = <<>> PROVE buffer = <<>>
    BY <2>1, <2>2, <2>3, <2>4
  <2>5. /\ Len(buffer) <= pushes
        /\ \A i \in 1 .. Len(buffer) : buffer[i] = pushes - Len(buffer) + i
        /\ buffer = <<>> => pushes = 0
    BY DEF BufferInv
  <2> DEFINE n == Len(buffer')
  <2>6. n \in Nat /\ n <= Len(buffer)
    BY <2>2, <2>3
  <2>7. \A i \in 1 .. n : buffer'[i] = buffer[Len(buffer) - n + i]
    BY <2>2
  <2> HIDE DEF n
  <2>8. ASSUME NEW i \in 1 .. n PROVE buffer'[i] = pushes' - n + i
    <3>1. Len(buffer) - n + i \in 1 .. Len(buffer)
      BY <2>3, <2>6
    <3>2. buffer'[i] = pushes - Len(buffer) + (Len(buffer) - n + i)
      BY <2>5, <2>7, <3>1
    <3> QED
      BY <2>1, <2>3, <2>6, <3>2
  <2>9. n <= pushes' /\ pushes <= pushes'
    BY <2>1, <2>3, <2>5, <2>6
  <2> QED
    BY <2>1, <2>4, <2>5, <2>8, <2>9 DEF BufferInv, n
<1>3. ASSUME NEW s \in Reseeds, load_into_buffer(s) PROVE BufferInv' /\ pushes <= pushes'
  <2>1. /\ buffer' = [i \in 1 .. SeedSize |-> pushes + i] /\ pushes' = pushes + SeedSize
        /\ SeedSize \in Nat /\ SeedSize >= 1 /\ pushes \in Nat
    BY <1>3, Numbers DEF load_into_buffer, Types
  <2>2. Len(buffer') = SeedSize
    BY <2>1
  <2>3. \A i \in 1 .. Len(buffer') : buffer'[i] = pushes' - Len(buffer') + i
    BY <2>1, <2>2
  <2>4. Len(buffer') <= pushes' /\ pushes <= pushes' /\ buffer' # <<>>
    BY <2>1, <2>2
  <2> QED
    BY <2>3, <2>4 DEF BufferInv
<1>4. CASE UNCHANGED bufferVars
  BY <1>4 DEF bufferVars, BufferInv, Types
<1> QED
  BY <1>1, <1>2, <1>3, <1>4, Touches

\* The buffer is a stretch of the samples when it is long enough for a fit.
LEMMA StretchGrows ==
  ASSUME NEW w \in Seq(Nat), NEW m \in Nat, NEW n \in Nat, m <= n, Stretch(w, m)
  PROVE  Stretch(w, n)
  BY DEF Stretch

LEMMA BufferStretch ==
  ASSUME Types, BufferInv, enough
  PROVE  Stretch(buffer, pushes) /\ buffer # <<>>
<1>1. Len(buffer) \in Nat /\ pushes \in Nat /\ MinFit \in Nat /\ MinFit >= 1 /\ Len(buffer) >= MinFit
  BY Numbers DEF Types, enough
<1>2. \A i \in 1 .. Len(buffer) : buffer[i] \in 1 .. pushes
  BY <1>1 DEF BufferInv
<1>3. ASSUME NEW i \in 1 .. Len(buffer), i > 1 PROVE buffer[i] = buffer[i - 1] + 1
  <2>1. i - 1 \in 1 .. Len(buffer)
    BY <1>1, <1>3
  <2>2. buffer[i] = pushes - Len(buffer) + i /\ buffer[i - 1] = pushes - Len(buffer) + (i - 1)
    BY <2>1 DEF BufferInv
  <2> QED
    BY <1>1, <2>2
<1> QED
  BY <1>1, <1>2, <1>3 DEF Stretch

LEMMA NoStretch == \A n : Stretch(<<>>, n)
  BY DEF Stretch

\* What is loaded from the buffer is enough for a fit, or nothing.
LEMMA Loaded ==
  ASSUME Types, BufferInv, NEW w, load_buffer(w)
  PROVE  w \in Seq(Nat) /\ Stretch(w, pushes)
<1>1. w = <<>> \/ (w = buffer /\ enough)
  BY DEF load_buffer
<1>2. <<>> \in Seq(Nat) /\ buffer \in Seq(Nat)
  BY DEF Types
<1> QED
  BY <1>1, <1>2, BufferStretch, NoStretch

-----------------------------------------------------------------------------
(* The windows.                                                            *)

LEMMA TouchesWindows ==
  ASSUME Next
  PROVE  /\ \/ UNCHANGED model \/ Crash
            \/ \E r \in Requests : model' = fits[r] /\ fits[r] # <<>>
            \/ \E r \in Requests \cup Reseeds : model' = window[r] /\ pc[r] = "fit"
         /\ \/ UNCHANGED window
            \/ \E r \in Requests \cup Reseeds, w \in {<<>>, buffer} :
                 load_buffer(w) /\ window' = [window EXCEPT ![r] = w]
         /\ \/ UNCHANGED fits \/ fits' = [r \in Requests |-> <<>>]
            \/ \E r \in Requests, w \in {<<>>, buffer} :
                 (w = <<>> \/ load_buffer(w)) /\ fits' = [fits EXCEPT ![r] = w]
         /\ \/ UNCHANGED clf
            \/ \E r \in Requests : clf' = [clf EXCEPT ![r] = model]
<1> USE DEF bufferVars, requestVars, startVars
<1>1. ASSUME NEW r \in Requests, RequestStep(r)
      PROVE  /\ \/ UNCHANGED model
                \/ model' = fits[r] /\ fits[r] # <<>>
                \/ model' = window[r] /\ pc[r] = "fit"
             /\ \/ UNCHANGED window
                \/ \E w \in {<<>>, buffer} : load_buffer(w) /\ window' = [window EXCEPT ![r] = w]
             /\ \/ UNCHANGED fits
                \/ \E w \in {<<>>, buffer} :
                     (w = <<>> \/ load_buffer(w)) /\ fits' = [fits EXCEPT ![r] = w]
             /\ UNCHANGED clf \/ clf' = [clf EXCEPT ![r] = model]
  <2>1. CASE Load(r)
    BY <2>1 DEF Load
  <2>2. CASE StartRefit(r)
    BY <2>2 DEF StartRefit
  <2>3. CASE EndRefit(r)
    BY <2>3 DEF EndRefit, fit_detector
  <2>4. CASE Fit(r)
    BY <2>4 DEF Fit, fit_detector, Goes
  <2>5. CASE Lookup(r) \/ LookupAgain(r)
    BY <2>5 DEF Lookup, LookupAgain
  <2>6. CASE \/ extract_features(r) \/ BlockedByContent(r) \/ Push(r) \/ Trim(r) \/ Length(r)
             \/ StoreFails(r) \/ Count(r) \/ Score(r) \/ persist_event(r) \/ Answer(r)
    BY <2>6 DEF extract_features, BlockedByContent, Push, Trim, Length, StoreFails, Count, Score,
       persist_event, WriteEvent, TrimEvents, SetExpiry, PersistFails, Answer
  <2> QED
    BY <1>1, <2>1, <2>2, <2>3, <2>4, <2>5, <2>6 DEF RequestStep
<1>2. ASSUME NEW s \in Reseeds,
             load_into_buffer(s) \/ reset_user(s) \/ load_models(s) \/ FitSeeds(s) \/ ReseedFails(s)
      PROVE  /\ UNCHANGED model \/ (model' = window[s] /\ pc[s] = "fit")
             /\ \/ UNCHANGED window
                \/ \E w \in {<<>>, buffer} : load_buffer(w) /\ window' = [window EXCEPT ![s] = w]
             /\ UNCHANGED <<fits, clf>>
  BY <1>2 DEF load_into_buffer, reset_user, load_models, FitSeeds, ReseedFails, fit_detector, Goes
<1>3. ASSUME Crash
      PROVE  UNCHANGED <<window, clf>> /\ fits' = [r \in Requests |-> <<>>]
  BY <1>3 DEF Crash
<1>4. ASSUME TimePasses PROVE UNCHANGED <<model, window, fits, clf>>
  BY <1>4 DEF TimePasses, Age, Expire
<1> HIDE DEF bufferVars, requestVars, startVars
<1> QED
  BY <1>1, <1>2, <1>3, <1>4 DEF Next

LEMMA WindowsStep ==
  ASSUME Types, BufferInv, WindowsInv, Next
  PROVE  WindowsInv'
<1>1. pushes \in Nat /\ pushes' \in Nat /\ pushes <= pushes'
  <2>1. pushes \in Nat
    BY DEF Types
  <2>2. pushes' \in Nat
    BY <2>1, Numbers, Touches DEF bufferVars, Push, Trim, load_into_buffer
  <2> QED
    BY <2>1, <2>2, BufferStep
<1>2. /\ Stretch(model, pushes')
      /\ \A r \in Requests \cup Reseeds : Stretch(window[r], pushes')
      /\ \A r \in Requests : Stretch(fits[r], pushes') /\ Stretch(clf[r], pushes')
  BY <1>1, StretchGrows DEF Types, WindowsInv
<1>3. ASSUME NEW w, load_buffer(w)
      PROVE  Stretch(w, pushes')
  BY <1>1, <1>3, Loaded, StretchGrows
<1>4. Stretch(model', pushes')
  <2>1. CASE Crash
    <3>1. (model' = buffer /\ enough) \/ model' = <<>>
      BY <2>1 DEF Crash
    <3>2. enough => Stretch(buffer, pushes')
      BY <1>1, BufferStretch, StretchGrows DEF Types
    <3> QED
      BY <3>1, <3>2, NoStretch
  <2> QED
    BY <1>2, <2>1, TouchesWindows
<1>5. \A r \in Requests \cup Reseeds : Stretch(window'[r], pushes')
  BY <1>2, <1>3, TouchesWindows DEF Types
<1>6. \A r \in Requests : Stretch(fits'[r], pushes')
  <2>1. CASE fits' = fits
    BY <1>2, <2>1
  <2>2. CASE fits' = [r \in Requests |-> <<>>]
    BY <2>2, NoStretch
  <2>3. ASSUME NEW r \in Requests, NEW w, w = <<>> \/ load_buffer(w), fits' = [fits EXCEPT ![r] = w]
        PROVE  \A q \in Requests : Stretch(fits'[q], pushes')
    <3>1. Stretch(w, pushes')
      BY <1>3, <2>3, NoStretch
    <3> QED
      BY <1>2, <2>3, <3>1 DEF Types
  <2> QED
    BY <2>1, <2>2, <2>3, TouchesWindows
<1>7. \A r \in Requests : Stretch(clf'[r], pushes')
  BY <1>2, TouchesWindows DEF Types
<1> QED
  BY <1>4, <1>5, <1>6, <1>7 DEF WindowsInv

-----------------------------------------------------------------------------
(* The limits of the buffer and of the counter.                            *)

LEMMA FaultsStep ==
  ASSUME Types, Next
  PROVE  /\ failures \in Nat /\ failures' \in Nat /\ failures <= failures'
         /\ Crash \/ connected' = connected
         /\ connected' \/ failures' > 0 \/ ~connected
<1>1. failures \in Nat
  BY DEF Types
<1>2. CASE Crash
  BY <1>1, <1>2 DEF Crash
<1>3. ASSUME ~Crash PROVE NoRedis \/ Works \/ Fails \/ UNCHANGED faultVars
  <2>1. ASSUME NEW r \in Requests, RequestStep(r) PROVE NoRedis \/ Works \/ Fails \/ UNCHANGED faultVars
    BY <2>1 DEF RequestStep, extract_features, BlockedByContent, Push, Trim, Length, StoreFails, Count,
       StartRefit, EndRefit, Lookup, Load, Fit, LookupAgain, Score, persist_event, WriteEvent,
       TrimEvents, SetExpiry, PersistFails, Answer, load_buffer, fit_detector
  <2>2. ASSUME NEW s \in Reseeds,
               load_into_buffer(s) \/ reset_user(s) \/ load_models(s) \/ FitSeeds(s) \/ ReseedFails(s)
        PROVE  NoRedis \/ Works \/ Fails \/ UNCHANGED faultVars
    BY <2>2 DEF load_into_buffer, reset_user, load_models, FitSeeds, ReseedFails, load_buffer, fit_detector
  <2>3. ASSUME TimePasses PROVE UNCHANGED faultVars
    BY <2>3 DEF TimePasses, Age, Expire
  <2> QED
    BY <1>3, <2>1, <2>2, <2>3 DEF Next
<1>4. CASE NoRedis \/ Works \/ Fails \/ UNCHANGED faultVars
  BY <1>1, <1>4 DEF NoRedis, Works, Fails, faultVars
<1> QED
  BY <1>2, <1>3, <1>4

LEMMA ConnectedStep == ASSUME Types, ConnectedInv, Next PROVE ConnectedInv'
<1>1. ASSUME failures' = 0 PROVE connected'
  BY <1>1, FaultsStep DEF ConnectedInv
<1>2. ASSUME NEW r \in Requests, pc'[r] = "trim" PROVE connected'
  <2>1. CASE Crash
    BY <1>2, <2>1 DEF Crash, Types
  <2>2. CASE ~Crash /\ pc[r] = "trim"
    BY <2>2, FaultsStep DEF ConnectedInv
  <2>3. CASE ~Crash /\ pc[r] # "trim"
    <3>1. ASSUME NEW s \in Reseeds, NEW from \in Phases, NEW to \in Phases, Goes(s, from, to)
          PROVE  FALSE
      BY <1>2, <2>3, <3>1, GoesType, DetectorAssumption
    <3>2. PICK q \in Requests : Push(q)
      BY <1>2, <2>3, <3>1, Moves, GoesType
    <3> QED
      BY <3>2 DEF Push, faultVars
  <2> QED
    BY <2>1, <2>2, <2>3
<1> QED
  BY <1>1, <1>2 DEF ConnectedInv

\* A request that has come stays, and one that was counted is not forgotten.
LEMMA CameStep ==
  ASSUME Types, IsFiniteSet(came), Next
  PROVE  IsFiniteSet(came') /\ counted \subseteq counted'
<1>1. CASE pc' = pc
  BY <1>1 DEF came, counted
<1>2. CASE Crash
  <2>1. \A r \in Requests : pc'[r] = IF pc[r] \in {"idle", "done", "failed"} THEN pc[r] ELSE "lost"
    BY <1>2 DEF Crash, Types
  <2>2. came' \subseteq came
    BY <2>1 DEF came
  <2>3. counted \subseteq counted'
    BY <2>1 DEF counted, Counted
  <2> QED
    BY <2>2, <2>3, FS_Subset
<1>3. ASSUME NEW r \in Requests, NEW from \in Phases, NEW to \in Phases, Goes(r, from, to),
             from \in Counted => to \in Counted
      PROVE  IsFiniteSet(came') /\ counted \subseteq counted'
  <2>1. \A q \in Requests : pc'[q] = IF q = r THEN to ELSE pc[q]
    BY <1>3, GoesType
  <2>2. came' \subseteq came \cup {r} /\ counted \subseteq counted'
    BY <1>3, <2>1 DEF came, counted, Goes
  <2> QED
    BY <2>2, FS_AddElement, FS_Subset
<1>4. ASSUME NEW s \in Reseeds, NEW from \in Phases, NEW to \in Phases, Goes(s, from, to)
      PROVE  IsFiniteSet(came') /\ counted \subseteq counted'
  <2>1. \A q \in Requests : pc'[q] = pc[q]
    BY <1>4, GoesType, DetectorAssumption
  <2> QED
    BY <2>1 DEF came, counted
<1> QED
  BY <1>1, <1>2, <1>3, <1>4, Moves

LEMMA CountedCame == counted \subseteq came
  BY DEF counted, came, Counted

LEMMA CounterStep == ASSUME Types, CounterInv, Next PROVE CounterInv'
<1>1. IsFiniteSet(came) /\ IsFiniteSet(came') /\ counted \subseteq counted'
  BY CameStep DEF CounterInv
<1>2. counted' \subseteq came'
  BY DEF counted, came, Counted
<1>3. /\ IsFiniteSet(counted) /\ Cardinality(counted) \in Nat
      /\ IsFiniteSet(counted') /\ Cardinality(counted') \in Nat
      /\ Cardinality(counted) <= Cardinality(counted')
  BY <1>1, <1>2, CountedCame, FS_Subset, FS_CardinalityType
<1>4. counter \in Nat /\ counter <= Cardinality(counted)
  BY DEF Types, CounterInv
<1>5. counter' <= Cardinality(counted')
  <2>1. CASE UNCHANGED counter
    BY <1>3, <1>4, <2>1
  <2>2. CASE Crash
    BY <1>3, <2>2 DEF Crash
  <2>3. ASSUME NEW r \in Requests, Count(r) PROVE counter' <= Cardinality(counted')
    <3>1. CASE counter' = 0
      BY <1>3, <3>1
    <3>2. CASE Goes(r, "count", "lookup") /\ counter' = counter + 1
      <4>1. \A q \in Requests : pc'[q] = IF q = r THEN "lookup" ELSE pc[q]
        BY <3>2, GoesType DEF Phases
      <4>2. r \notin counted /\ counted' = counted \cup {r}
        BY <3>2, <4>1 DEF counted, Counted, Goes
      <4>3. Cardinality(counted') = Cardinality(counted) + 1
        BY <1>3, <4>2, FS_AddElement
      <4> QED
        BY <1>3, <1>4, <3>2, <4>3
    <3> QED
      BY <2>3, <3>1, <3>2 DEF Count
  <2> QED
    BY <2>1, <2>2, <2>3, Touches
<1> QED
  BY <1>1, <1>5 DEF CounterInv

Untrimmed == {r \in Requests : pc[r] \in {"trim", "lost"}}

\* A sample that its LTRIM does not trim, it or a failure stands for.
LEMMA UntrimmedStep ==
  ASSUME Types, ConnectedInv, CounterInv, Next
  PROVE  /\ untrimmed \in Nat /\ untrimmed' \in Nat
         /\ untrimmed <= untrimmed' \/ \E r \in Requests : Trim(r)
         /\ \A r \in Requests : Push(r) => untrimmed' = untrimmed + 1
<1>1. IsFiniteSet(came) /\ IsFiniteSet(came')
  BY CameStep DEF CounterInv
<1>2. Untrimmed \subseteq came /\ Untrimmed' \subseteq came'
  BY DEF Untrimmed, came
<1>3. /\ IsFiniteSet(Untrimmed) /\ Cardinality(Untrimmed) \in Nat
      /\ IsFiniteSet(Untrimmed') /\ Cardinality(Untrimmed') \in Nat
  BY <1>1, <1>2, FS_Subset, FS_CardinalityType
<1>4. /\ failures \in Nat /\ failures' \in Nat /\ failures <= failures'
      /\ untrimmed = Cardinality(Untrimmed) + failures
      /\ untrimmed' = Cardinality(Untrimmed') + failures'
  BY FaultsStep DEF untrimmed, Untrimmed
<1>5. ASSUME Untrimmed \subseteq Untrimmed' PROVE untrimmed <= untrimmed'
  <2>1. Cardinality(Untrimmed) <= Cardinality(Untrimmed')
    BY <1>3, <1>5, FS_Subset
  <2> QED
    BY <1>3, <1>4, <2>1
<1>6. untrimmed <= untrimmed' \/ \E r \in Requests : Trim(r)
  <2>1. CASE pc' = pc
    BY <1>5, <2>1 DEF Untrimmed
  <2>2. CASE Crash
    <3>1. \A r \in Requests : pc'[r] = IF pc[r] \in {"idle", "done", "failed"} THEN pc[r] ELSE "lost"
      BY <2>2 DEF Crash, Types
    <3> QED
      BY <1>5, <3>1 DEF Untrimmed
  <2>3. ASSUME NEW r \in Requests, NEW from \in Phases, NEW to \in Phases, Goes(r, from, to),
               from # "lost", from = "trim" => Trim(r) \/ StoreFails(r)
        PROVE  untrimmed <= untrimmed' \/ Trim(r)
    <3>1. pc[r] = from /\ \A q \in Requests : pc'[q] = IF q = r THEN to ELSE pc[q]
      BY <2>3, GoesType DEF Goes
    <3>2. CASE from # "trim"
      BY <1>5, <2>3, <3>1, <3>2 DEF Untrimmed
    <3>3. CASE from = "trim" /\ StoreFails(r)
      <4>1. connected
        BY <3>1, <3>3 DEF ConnectedInv
      <4>2. failures' = failures + 1
        BY <3>3, <4>1 DEF StoreFails, NoRedis, Fails
      <4>3. Untrimmed \subseteq Untrimmed' \cup {r}
        BY <3>1 DEF Untrimmed
      <4>4. Cardinality(Untrimmed) <= Cardinality(Untrimmed') + 1
        <5>1. /\ IsFiniteSet(Untrimmed' \cup {r})
              /\ Cardinality(Untrimmed' \cup {r}) <= Cardinality(Untrimmed') + 1
          <6>1. /\ IsFiniteSet(Untrimmed' \cup {r})
                /\ Cardinality(Untrimmed' \cup {r})
                     = IF r \in Untrimmed' THEN Cardinality(Untrimmed') ELSE Cardinality(Untrimmed') + 1
            BY <1>3, FS_AddElement
          <6> QED
            BY <1>3, <6>1
        <5>2. /\ Cardinality(Untrimmed' \cup {r}) \in Nat
              /\ Cardinality(Untrimmed) <= Cardinality(Untrimmed' \cup {r})
          BY <4>3, <5>1, FS_Subset, FS_CardinalityType
        <5> QED
          BY <1>3, <5>1, <5>2
      <4> QED
        BY <1>3, <1>4, <4>2, <4>4
    <3> QED
      BY <2>3, <3>2, <3>3
  <2>4. ASSUME NEW s \in Reseeds, NEW from \in Phases, NEW to \in Phases, Goes(s, from, to)
        PROVE  untrimmed <= untrimmed'
    <3>1. \A q \in Requests : pc'[q] = pc[q]
      BY <2>4, GoesType, DetectorAssumption
    <3> QED
      BY <1>5, <3>1 DEF Untrimmed
  <2> QED
    BY <2>1, <2>2, <2>3, <2>4, Moves
<1>7. ASSUME NEW r \in Requests, Push(r) PROVE untrimmed' = untrimmed + 1
  <2>1. Goes(r, "push", "trim") /\ failures' = failures
    BY <1>7 DEF Push, faultVars
  <2>2. pc[r] = "push" /\ \A q \in Requests : pc'[q] = IF q = r THEN "trim" ELSE pc[q]
    BY <2>1, GoesType DEF Goes, Phases
  <2>3. r \notin Untrimmed /\ Untrimmed' = Untrimmed \cup {r}
    BY <2>2 DEF Untrimmed
  <2>4. Cardinality(Untrimmed') = Cardinality(Untrimmed) + 1
    BY <1>3, <2>3, FS_AddElement
  <2> QED
    BY <1>3, <1>4, <2>1, <2>4
<1> QED
  BY <1>3, <1>4, <1>6, <1>7

LEMMA SeedsStep ==
  ASSUME Types, Next
  PROVE  /\ Seeded => Seeded'
         /\ \A s \in Reseeds : load_into_buffer(s) => Seeded' /\ seedEnd'[s] > 0
         /\ \A s \in Reseeds : seedEnd[s] > 0 => seedEnd'[s] > 0
<1>1. SeedSize \in Nat /\ SeedSize >= 1 /\ pushes \in Nat
  BY Numbers DEF Types
<1>2. ASSUME NEW s \in Reseeds, load_into_buffer(s)
      PROVE  /\ seedEnd'[s] > 0
             /\ \A t \in Reseeds : seedEnd[t] > 0 => seedEnd'[t] > 0
  BY <1>1, <1>2 DEF load_into_buffer, Types
<1>3. \A t \in Reseeds : seedEnd[t] > 0 => seedEnd'[t] > 0
  BY <1>2, Touches
<1> QED
  BY <1>2, <1>3 DEF Seeded

LEMMA MoreIsMore ==
  ASSUME NEW a \in Nat, NEW b \in Nat, NEW c \in Nat, a <= b
  PROVE  a <= b + c
  OBVIOUS

LEMMA BoundStep ==
  ASSUME Types, ConnectedInv, CounterInv, BoundInv, Next
  PROVE  BoundInv'
<1>1. /\ Len(buffer) \in Nat /\ buffer \in Seq(Nat)
      /\ BufferMax \in Nat /\ SeedSize \in Nat
  BY Numbers DEF Types
<1>2. /\ untrimmed \in Nat /\ untrimmed' \in Nat
      /\ untrimmed <= untrimmed' \/ \E r \in Requests : Trim(r)
      /\ \A r \in Requests : Push(r) => untrimmed' = untrimmed + 1
  BY UntrimmedStep
<1>3. limit \in Nat /\ limit' \in Nat /\ limit <= limit' /\ BufferMax <= limit'
  BY <1>1, SeedsStep DEF limit
<1>4. Len(buffer) <= limit + untrimmed
  BY DEF BoundInv
<1>5. ASSUME NEW r \in Requests, Push(r) PROVE Len(buffer') <= limit' + untrimmed'
  <2>1. Len(buffer') = Len(buffer) + 1
    BY <1>1, <1>5 DEF Push, Types
  <2>2. untrimmed' = untrimmed + 1
    BY <1>2, <1>5
  <2> QED
    BY <1>1, <1>2, <1>3, <1>4, <2>1, <2>2
<1>6. ASSUME NEW r \in Requests, Trim(r) PROVE Len(buffer') <= limit' + untrimmed'
  <2>1. Len(buffer') = IF Len(buffer) <= BufferMax THEN Len(buffer) ELSE BufferMax
    BY <1>1, <1>6, Trimmed DEF Trim
  <2> QED
    BY <1>1, <1>2, <1>3, <2>1
<1>7. ASSUME NEW s \in Reseeds, load_into_buffer(s) PROVE Len(buffer') <= limit' + untrimmed'
  <2>1. Len(buffer') = SeedSize
    BY <1>1, <1>7 DEF load_into_buffer
  <2>2. SeedSize <= limit'
    BY <1>1, <1>7, SeedsStep DEF limit
  <2>3. SeedSize <= limit' + untrimmed'
    <3>1. SeedSize \in Nat /\ limit' \in Nat /\ untrimmed' \in Nat
      BY <1>1, <1>2, <1>3
    <3> QED
      BY <2>2, <3>1, MoreIsMore
  <2> QED
    BY <2>1, <2>3
<1>8. CASE UNCHANGED bufferVars /\ ~ \E r \in Requests : Trim(r)
  <2>1. Len(buffer') = Len(buffer)
    BY <1>8 DEF bufferVars
  <2> QED
    BY <1>1, <1>2, <1>3, <1>4, <1>8, <2>1 DEF BoundInv
<1> QED
  BY <1>5, <1>6, <1>7, <1>8, Touches DEF BoundInv

-----------------------------------------------------------------------------
(* Models and histories.                                                   *)

\* Once the buffer is long enough for a fit it stays so: LTRIM and the panel
\* leave at least as many.
LEMMA EnoughStays == ASSUME Types, enough, Next PROVE enough'
<1>1. /\ Len(buffer) \in Nat /\ buffer \in Seq(Nat) /\ pushes \in Nat /\ Len(buffer) >= MinFit
      /\ MinFit \in Nat /\ BufferMax \in Nat /\ BufferMax >= MinFit
      /\ SeedSize \in Nat /\ SeedSize >= MinFit
  BY Numbers DEF Types, enough
<1>2. ASSUME NEW r \in Requests, Push(r) PROVE Len(buffer') >= MinFit
  <2>1. Len(buffer') = Len(buffer) + 1
    BY <1>1, <1>2, AppendProperties DEF Push
  <2> QED
    BY <1>1, <2>1
<1>3. ASSUME NEW r \in Requests, Trim(r) PROVE Len(buffer') >= MinFit
  <2>1. Len(buffer') = IF Len(buffer) <= BufferMax THEN Len(buffer) ELSE BufferMax
    BY <1>1, <1>3, Trimmed DEF Trim
  <2> QED
    BY <1>1, <2>1
<1>4. ASSUME NEW s \in Reseeds, load_into_buffer(s) PROVE Len(buffer') >= MinFit
  <2>1. Len(buffer') = SeedSize
    BY <1>1, <1>4 DEF load_into_buffer
  <2> QED
    BY <1>1, <2>1
<1>5. CASE UNCHANGED bufferVars
  <2>1. buffer' = buffer
    BY <1>5 DEF bufferVars
  <2> QED
    BY <1>1, <2>1 DEF enough
<1> QED
  BY <1>2, <1>3, <1>4, <1>5, Touches DEF enough

LEMMA SizesStep == ASSUME Types, SizesInv, Next PROVE SizesInv'
<1>1. ASSUME NEW r \in Requests, size'[r] >= MinFit PROVE enough'
  <2>1. CASE UNCHANGED size
    BY <1>1, <2>1, EnoughStays DEF SizesInv
  <2>2. ASSUME NEW q \in Requests, Length(q) PROVE enough'
    <3>1. size' = [size EXCEPT ![q] = Len(buffer)] /\ UNCHANGED bufferVars
      BY <2>2 DEF Length
    <3>2. CASE r = q
      <4>1. Len(buffer') >= MinFit
        BY <1>1, <3>1, <3>2 DEF Types, bufferVars
      <4> QED
        BY <4>1 DEF enough
    <3>3. CASE r # q
      BY <1>1, <3>1, <3>3, EnoughStays DEF SizesInv, Types
    <3> QED
      BY <3>2, <3>3
  <2> QED
    BY <2>1, <2>2, Touches
<1>2. ASSUME NEW r \in Requests, pc'[r] = "idle" PROVE pc[r] = "idle" /\ size'[r] = 0
  <2>1. pc[r] = "idle"
    <3>1. CASE pc' = pc
      BY <1>2, <3>1
    <3>2. CASE Crash
      BY <1>2, <3>2 DEF Crash, Types
    <3>3. ASSUME NEW q \in Requests, NEW from \in Phases, NEW to \in Phases, Goes(q, from, to),
                 to # "idle"
          PROVE  pc[r] = "idle"
      BY <1>2, <3>3, GoesType
    <3>4. ASSUME NEW q \in Reseeds, NEW from \in Phases, NEW to \in Phases, Goes(q, from, to)
          PROVE  pc[r] = "idle"
      BY <1>2, <3>4, GoesType, DetectorAssumption
    <3> QED
      BY <3>1, <3>2, <3>3, <3>4, Moves
  <2>2. size[r] = 0
    BY <2>1 DEF SizesInv
  <2>3. ASSUME NEW q \in Requests, Length(q) PROVE q # r /\ size'[r] = size[r]
    BY <2>1, <2>3 DEF Length, Goes, Types
  <2> QED
    BY <2>1, <2>2, <2>3, Touches
<1> QED
  BY <1>1, <1>2 DEF SizesInv

\* Where a request or a reseed arrives, and by which step.
LEMMA Arrives ==
  ASSUME Types, Next, NEW r \in Requests, pc'[r] # pc[r], pc'[r] # "lost"
  PROVE  /\ pc'[r] \notin {"idle", "seeded"}
         /\ pc'[r] = "fit" => Load(r)
         /\ pc'[r] = "fitted" => Fit(r)
         /\ pc'[r] = "score" => Lookup(r) \/ Load(r) \/ LookupAgain(r)
         /\ pc'[r] = "persist" => BlockedByContent(r) \/ Score(r)
         /\ pc'[r] = "trimEvents" => WriteEvent(r)
         /\ pc'[r] = "expire" => TrimEvents(r)
         /\ pc'[r] = "publish" => SetExpiry(r) \/ PersistFails(r)
         /\ pc'[r] = "done" => Answer(r)
<1>1. ~Crash
  BY DEF Crash, Types
<1>2. ASSUME NEW s \in Reseeds, NEW from \in Phases, NEW to \in Phases, Goes(s, from, to)
      PROVE  FALSE
  BY <1>2, GoesType, DetectorAssumption
<1>3. ASSUME NEW q \in Requests, NEW from \in Phases, NEW to \in Phases, Goes(q, from, to)
      PROVE  q = r /\ pc'[r] = to
  BY <1>3, GoesType
<1> QED
  BY <1>1, <1>2, <1>3, Moves

LEMMA SeedArrives ==
  ASSUME Types, Next, NEW s \in Reseeds, pc'[s] # pc[s], pc'[s] # "lost"
  PROVE  /\ pc'[s] = "seeded" => load_into_buffer(s)
         /\ pc'[s] = "fit" => load_models(s)
<1>1. ~Crash
  BY DEF Crash, Types
<1>2. ASSUME NEW r \in Requests, NEW from \in Phases, NEW to \in Phases, Goes(r, from, to)
      PROVE  FALSE
  BY <1>2, GoesType, DetectorAssumption
<1>3. ASSUME NEW q \in Reseeds, NEW from \in Phases, NEW to \in Phases, Goes(q, from, to)
      PROVE  q = s /\ pc'[s] = to
  BY <1>3, GoesType
<1> QED
  BY <1>1, <1>2, <1>3, Moves

LEMMA TouchesModels ==
  ASSUME Next
  PROVE  /\ \/ UNCHANGED window
            \/ \E r \in Requests : Load(r)
            \/ \E s \in Reseeds : load_models(s)
         /\ UNCHANGED clf \/ \E r \in Requests : Lookup(r) \/ LookupAgain(r)
<1> USE DEF bufferVars, requestVars, startVars
<1>1. ASSUME NEW r \in Requests, RequestStep(r)
      PROVE  /\ UNCHANGED window \/ Load(r)
             /\ UNCHANGED clf \/ Lookup(r) \/ LookupAgain(r)
  BY <1>1 DEF RequestStep, extract_features, BlockedByContent, Push, Trim, Length, StoreFails,
     Count, StartRefit, EndRefit, Lookup, Load, Fit, LookupAgain, Score, persist_event, WriteEvent,
     TrimEvents, SetExpiry, PersistFails, Answer
<1>2. ASSUME NEW s \in Reseeds,
             load_into_buffer(s) \/ reset_user(s) \/ load_models(s) \/ FitSeeds(s) \/ ReseedFails(s)
      PROVE  UNCHANGED clf /\ (UNCHANGED window \/ load_models(s))
  BY <1>2 DEF load_into_buffer, reset_user, load_models, FitSeeds, ReseedFails
<1>3. ASSUME Crash \/ TimePasses PROVE UNCHANGED <<window, clf>>
  BY <1>3 DEF Crash, TimePasses, Age, Expire
<1> HIDE DEF bufferVars, requestVars, startVars
<1> QED
  BY <1>1, <1>2, <1>3 DEF Next

LEMMA FitStep == ASSUME Types, FitInv, Next PROVE FitInv'
<1> SUFFICES ASSUME NEW r \in Requests \cup Reseeds, pc'[r] = "fit" PROVE window'[r] # <<>>
  BY DEF FitInv
<1>1. CASE pc[r] = "fit"
  <2>1. ASSUME NEW q \in Requests \cup Reseeds, NEW w, pc[q] = "load",
               window' = [window EXCEPT ![q] = w]
        PROVE  window'[r] # <<>>
    BY <1>1, <2>1 DEF FitInv, Types
  <2>2. ASSUME NEW q \in Requests \cup Reseeds, Load(q) \/ load_models(q) PROVE window'[r] # <<>>
    BY <2>1, <2>2 DEF Load, load_models, Goes
  <2>3. CASE UNCHANGED window
    BY <1>1, <2>3 DEF FitInv
  <2> QED
    BY <2>2, <2>3, TouchesModels
<1>2. CASE pc[r] # "fit"
  <2>1. Load(r) \/ load_models(r)
    BY <1>2, Arrives, SeedArrives
  <2>2. PICK w : /\ window' = [window EXCEPT ![r] = w]
                 /\ \/ pc' = [pc EXCEPT ![r] = IF w = <<>> THEN "score" ELSE "fit"]
                    \/ pc' = [pc EXCEPT ![r] = IF w = <<>> THEN "done" ELSE "fit"]
    BY <2>1 DEF Load, load_models, Goes
  <2>3. w # <<>>
    BY <2>2 DEF Types
  <2> QED
    BY <2>2, <2>3 DEF Types
<1> QED
  BY <1>1, <1>2

LEMMA FittedStep == ASSUME Types, FitInv, FittedInv, Next PROVE FittedInv'
<1> SUFFICES ASSUME NEW r \in Requests, failures' = 0, pc'[r] = "fitted" PROVE model' # <<>>
  BY DEF FittedInv
<1>1. failures = 0
  BY FaultsStep
<1>2. ~Crash
  BY DEF Crash, Types
<1>3. CASE pc[r] = "fitted"
  BY <1>1, <1>2, <1>3, TouchesWindows DEF FittedInv, FitInv
<1>4. CASE pc[r] # "fitted"
  <2>1. Fit(r)
    BY <1>4, Arrives
  <2>2. window[r] # <<>>
    BY <2>1 DEF Fit, Goes, FitInv
  <2>3. ~Fails
    BY <1>1 DEF Fails
  <2> QED
    BY <2>1, <2>2, <2>3 DEF Fit, fit_detector
<1> QED
  BY <1>3, <1>4

LEMMA WarmStep ==
  ASSUME Types, ConnectedInv, SizesInv, FittedInv, ScoredWhenWarm, Next
  PROVE  ScoredWhenWarm'
<1> DEFINE Scored == {"score", "persist", "trimEvents", "expire", "publish", "done"}
<1> SUFFICES ASSUME failures' = 0, NEW r \in Requests, pc'[r] \in Scored, size'[r] >= MinFit
             PROVE  clf'[r] # <<>>
  BY DEF ScoredWhenWarm
<1>1. failures = 0 /\ connected
  BY FaultsStep DEF ConnectedInv
<1>2. CASE pc[r] \in Scored
  <2>1. size'[r] = size[r]
    <3>1. ASSUME NEW q \in Requests, Length(q) PROVE size'[r] = size[r]
      BY <1>2, <3>1 DEF Length, Goes, Types
    <3> QED
      BY <3>1, Touches
  <2>2. clf'[r] = clf[r]
    <3>1. ASSUME NEW q \in Requests, Lookup(q) \/ LookupAgain(q) PROVE clf'[r] = clf[r]
      BY <1>2, <3>1 DEF Lookup, LookupAgain, Goes, Types
    <3> QED
      BY <3>1, TouchesModels
  <2> QED
    BY <1>1, <1>2, <2>1, <2>2 DEF ScoredWhenWarm
<1>3. CASE pc[r] \notin Scored
  <2>1. Lookup(r) \/ Load(r) \/ LookupAgain(r) \/ BlockedByContent(r)
    <3>1. \/ Lookup(r) \/ Load(r) \/ LookupAgain(r) \/ BlockedByContent(r)
          \/ Score(r) \/ WriteEvent(r) \/ TrimEvents(r) \/ SetExpiry(r) \/ PersistFails(r)
          \/ Answer(r)
      BY <1>3, Arrives
    <3> QED
      BY <1>3, <3>1 DEF Score, WriteEvent, TrimEvents, SetExpiry, PersistFails, Answer, Goes
  <2>2. CASE Lookup(r)
    <3>1. Goes(r, "lookup", "score") /\ ~fitsItself(r)
      BY <1>3, <2>2 DEF Lookup, Goes, Types
    <3>2. size'[r] = size[r] /\ clf' = [clf EXCEPT ![r] = model]
      BY <2>2 DEF Lookup
    <3> QED
      BY <3>1, <3>2 DEF fitsItself, Types
  <2>3. CASE LookupAgain(r)
    <3>1. model # <<>>
      BY <1>1, <2>3 DEF LookupAgain, Goes, FittedInv
    <3> QED
      BY <2>3, <3>1 DEF LookupAgain, Types
  <2>4. CASE Load(r)
    <3>1. PICK w : /\ load_buffer(w)
                   /\ pc' = [pc EXCEPT ![r] = IF w = <<>> THEN "score" ELSE "fit"]
      BY <2>4 DEF Load, Goes
    <3>2. size[r] >= MinFit
      BY <2>4 DEF Load
    <3>3. enough
      BY <3>2 DEF SizesInv
    <3>4. buffer # <<>>
      BY <3>3, Numbers DEF enough
    <3>5. ~NoRedis
      BY <1>1 DEF NoRedis, Fails
    <3>6. w # <<>>
      BY <3>1, <3>3, <3>4, <3>5 DEF load_buffer
    <3> QED
      BY <3>1, <3>6 DEF Types
  <2>5. CASE BlockedByContent(r)
    <3>1. size'[r] = 0
      BY <2>5 DEF BlockedByContent, Goes, SizesInv, requestVars
    <3> QED
      BY <3>1, Numbers
  <2> QED
    BY <2>1, <2>2, <2>3, <2>4, <2>5
<1> QED
  BY <1>2, <1>3

LEMMA SeededStep ==
  ASSUME Types, HistoryInv, Next
  PROVE  \A s \in Reseeds : pc'[s] = "seeded" => seedEnd'[s] > 0
<1> SUFFICES ASSUME NEW s \in Reseeds, pc'[s] = "seeded" PROVE seedEnd'[s] > 0
  OBVIOUS
<1>1. CASE pc[s] = "seeded"
  BY <1>1, SeedsStep DEF HistoryInv
<1>2. CASE pc[s] # "seeded"
  BY <1>2, SeedArrives, SeedsStep
<1> QED
  BY <1>1, <1>2

\* How a step that keeps the answered requests answered changes their events.
LEMMA EventsStep ==
  ASSUME Types, ConnectedInv, HistoryInv, Next, failures' = 0, ~Seeded'
  PROVE  /\ \A u \in Users : (gone(u) <= written(u))'
         /\ \A a \in Requests : EventInv(a)'
<1>1. failures = 0 /\ connected
  BY FaultsStep DEF ConnectedInv
<1>2. ~Seeded
  BY SeedsStep
<1>3. /\ \A u \in Users : gone(u) <= written(u)
      /\ \A a \in Requests : EventInv(a)
  BY <1>1, <1>2 DEF HistoryInv
<1>4. ~NoRedis /\ ~Fails
  BY <1>1 DEF NoRedis, Fails
<1>5. ASSUME NEW s \in Reseeds, reset_user(s) PROVE FALSE
  <2>1. seedEnd[s] > 0
    BY <1>5 DEF reset_user, Goes, HistoryInv
  <2> QED
    BY <1>2, <2>1 DEF Seeded
<1>6. /\ HistoryMax \in Nat
      /\ \A u \in Users : written(u) \in Nat /\ gone(u) \in Nat /\ userEvents[u].expiry \in Nat
      /\ \A a \in Requests : UserOf[a] \in Users /\ place[a] \in Nat
  BY HistoryTypes, Numbers
<1>7. ASSUME NEW r \in Requests, WriteEvent(r)
      PROVE  /\ \A u \in Users : (gone(u) <= written(u))'
             /\ \A a \in Requests : EventInv(a)'
  <2>1. pc[r] = "persist" /\ \A a \in Requests : pc'[a] = IF a = r THEN "trimEvents" ELSE pc[a]
    BY <1>7, GoesType DEF WriteEvent, Goes, Phases
  <2>2. /\ userEvents' = [userEvents EXCEPT ![UserOf[r]].written = @ + 1]
        /\ place' = [place EXCEPT ![r] = written(UserOf[r]) + 1]
        /\ old' = old /\ overtaken' = overtaken
    BY <1>7 DEF WriteEvent
  <2>3. /\ \A a \in Requests : place'[a] = IF a = r THEN written(UserOf[r]) + 1 ELSE place[a]
        /\ \A u \in Users : /\ written(u)' = IF u = UserOf[r] THEN written(u) + 1 ELSE written(u)
                            /\ gone(u)' = gone(u) /\ userEvents'[u].expiry = userEvents[u].expiry
    BY <1>6, <2>2 DEF Types, written, gone
  <2>4. \A u \in Users : gone(u)' <= written(u)'
    BY <1>3, <1>6, <2>3
  <2>5. ASSUME NEW a \in Requests PROVE EventInv(a)'
    <3>1. CASE a = r
      BY <1>3, <1>6, <2>1, <2>3, <3>1 DEF EventInv
    <3>2. CASE a # r
      BY <1>3, <1>6, <2>1, <2>2, <2>3, <3>2 DEF EventInv, Written
    <3> QED
      BY <3>1, <3>2
  <2> QED
    BY <2>4, <2>5
<1>8. ASSUME NEW r \in Requests, TrimEvents(r)
      PROVE  /\ \A u \in Users : (gone(u) <= written(u))'
             /\ \A a \in Requests : EventInv(a)'
  <2> DEFINE u == UserOf[r]
             n == IF written(u) > gone(u) + HistoryMax THEN written(u) - HistoryMax ELSE gone(u)
  <2>1. /\ pc[r] = "trimEvents"
        /\ \A a \in Requests : pc'[a] = IF a = r THEN "expire" ELSE pc[a]
    BY <1>8, GoesType DEF TrimEvents, Goes, Phases
  <2>2. /\ userEvents' = [userEvents EXCEPT ![u].gone = n]
        /\ place' = place /\ old' = old /\ overtaken' = overtaken
    BY <1>8 DEF TrimEvents, gone
  <2>3. /\ u \in Users /\ n \in Nat /\ n >= gone(u) /\ n <= written(u)
        /\ n = gone(u) \/ n + HistoryMax = written(u)
    BY <1>3, <1>6
  <2> HIDE DEF n
  <2>4. \A v \in Users : /\ written(v)' = written(v)
                         /\ gone(v)' = IF v = u THEN n ELSE gone(v)
                         /\ userEvents'[v].expiry = userEvents[v].expiry
    BY <2>2, <2>3 DEF Types, written, gone
  <2>5. \A v \in Users : gone(v)' <= written(v)'
    BY <1>3, <2>3, <2>4
  <2>6. ASSUME NEW a \in Requests PROVE EventInv(a)'
    <3>1. EventInv(a) /\ (pc'[a] \in Written => pc[a] \in Written)
      BY <1>3, <2>1 DEF Written
    <3> QED
      BY <1>6, <2>1, <2>2, <2>3, <2>4, <3>1 DEF EventInv
  <2> QED
    BY <2>5, <2>6
<1>9. ASSUME NEW r \in Requests, SetExpiry(r)
      PROVE  /\ \A u \in Users : (gone(u) <= written(u))'
             /\ \A a \in Requests : EventInv(a)'
  <2> DEFINE u == UserOf[r]
  <2>1. /\ pc[r] = "expire"
        /\ \A a \in Requests : pc'[a] = IF a = r THEN "publish" ELSE pc[a]
    BY <1>9, GoesType DEF SetExpiry, Goes, Phases
  <2>2. /\ userEvents' = [userEvents EXCEPT ![u].expiry = IF written(u) > gone(u) THEN written(u) ELSE 0]
        /\ place' = place /\ old' = old /\ overtaken' = overtaken
    BY <1>9 DEF SetExpiry
  <2>3. \A v \in Users :
          /\ written(v)' = written(v) /\ gone(v)' = gone(v)
          /\ userEvents'[v].expiry = IF v # u THEN userEvents[v].expiry
                                     ELSE IF written(v) > gone(v) THEN written(v) ELSE 0
    BY <1>6, <2>2 DEF Types, written, gone
  <2>4. \A v \in Users : gone(v)' <= written(v)'
    BY <1>3, <2>3
  <2>5. ASSUME NEW a \in Requests PROVE EventInv(a)'
    <3>1. EventInv(a) /\ (pc'[a] \in Written => pc[a] \in Written)
      BY <1>3, <2>1 DEF Written
    <3>2. CASE UserOf[a] = u
      BY <1>6, <2>2, <2>3, <3>1, <3>2 DEF EventInv, Written
    <3>3. CASE UserOf[a] # u
      BY <1>6, <2>1, <2>2, <2>3, <3>1, <3>3 DEF EventInv
    <3> QED
      BY <3>2, <3>3
  <2> QED
    BY <2>4, <2>5
<1>10. ASSUME NEW u \in Users, Expire(u)
       PROVE  /\ \A v \in Users : (gone(v) <= written(v))'
              /\ \A a \in Requests : EventInv(a)'
  <2>1. /\ userEvents' = [userEvents EXCEPT ![u] =
                            [written |-> written(u), gone |-> written(u), expiry |-> 0]]
        /\ overtaken' = overtaken \cup {q \in Requests : /\ UserOf[q] = u /\ listed(q)
                                                         /\ pc[q] \in {"trimEvents", "expire"}}
        /\ outlived(u) /\ pc' = pc /\ place' = place /\ old' = old
    BY <1>10 DEF Expire
  <2>2. \A v \in Users : /\ written(v)' = written(v)
                         /\ gone(v)' = IF v = u THEN written(v) ELSE gone(v)
                         /\ v # u => userEvents'[v].expiry = userEvents[v].expiry
    BY <2>1 DEF Types, written, gone
  <2>3. \A v \in Users : gone(v)' <= written(v)'
    BY <1>3, <1>6, <2>2
  <2>4. ASSUME NEW a \in Requests PROVE EventInv(a)'
    <3>1. CASE UserOf[a] # u
      BY <1>3, <1>6, <2>1, <2>2, <3>1 DEF EventInv
    <3>2. CASE UserOf[a] = u
      <4>1. ASSUME pc[a] \in Written
            PROVE  /\ 1 <= place[a] /\ place[a] <= written(u)
                   /\ a \in old \cup overtaken' \/ place[a] + HistoryMax <= written(u)
        <5>1. EventInv(a)
          BY <1>3
        <5>2. CASE place[a] > gone(u) /\ pc[a] \in {"trimEvents", "expire"}
          BY <2>1, <3>2, <4>1, <5>1, <5>2 DEF listed, EventInv
        <5>3. CASE place[a] > gone(u) /\ pc[a] \in {"publish", "done"}
          <6>1. place[a] <= userEvents[u].expiry
            BY <1>6, <3>2, <5>1, <5>3 DEF EventInv
          <6>2. a \in old
            BY <2>1, <3>2, <5>3, <6>1 DEF outlived, listed
          <6> QED
            BY <3>2, <4>1, <5>1, <6>2 DEF EventInv
        <5>4. CASE ~(place[a] > gone(u))
          BY <2>1, <3>2, <4>1, <5>1, <5>4 DEF EventInv
        <5> QED
          BY <4>1, <5>2, <5>3, <5>4 DEF Written
      <4> QED
        BY <2>1, <2>2, <3>2, <4>1 DEF EventInv, Written
    <3> QED
      BY <3>1, <3>2
  <2> QED
    BY <2>3, <2>4
<1>11. ASSUME UNCHANGED <<userEvents, place, overtaken>>, old \subseteq old',
              \A a \in Requests : pc'[a] = pc[a] \/ pc'[a] \notin Written
                                    \/ (pc'[a] = "done" /\ pc[a] = "publish")
       PROVE  /\ \A v \in Users : (gone(v) <= written(v))'
              /\ \A a \in Requests : EventInv(a)'
  <2>1. \A v \in Users : /\ written(v)' = written(v) /\ gone(v)' = gone(v)
                         /\ userEvents'[v].expiry = userEvents[v].expiry
    BY <1>11 DEF written, gone
  <2>2. ASSUME NEW a \in Requests PROVE EventInv(a)'
    <3>1. EventInv(a) /\ UserOf[a] \in Users
      BY <1>3, <1>6
    <3>2. pc'[a] \in Written => pc[a] \in Written
      BY <1>11 DEF Written
    <3>3. pc'[a] \in {"publish", "done"} => pc[a] \in {"publish", "done"}
      BY <1>11 DEF Written
    <3> QED
      BY <1>11, <2>1, <3>1, <3>2, <3>3 DEF EventInv
  <2> QED
    BY <1>3, <2>1, <2>2
<1>12. ASSUME NEW r \in Requests, Age(r)
       PROVE  UNCHANGED <<userEvents, place, overtaken, pc>> /\ old \subseteq old'
  BY <1>12 DEF Age
<1>13. ASSUME ~TimePasses, ~ \E r \in Requests : persist_event(r)
       PROVE  \A a \in Requests : pc'[a] = pc[a] \/ pc'[a] \notin Written
                                    \/ (pc'[a] = "done" /\ pc[a] = "publish")
  <2> SUFFICES ASSUME NEW a \in Requests, pc'[a] # pc[a], pc'[a] \in Written
               PROVE  pc'[a] = "done" /\ pc[a] = "publish"
    OBVIOUS
  <2>1. Answer(a)
    BY <1>13, Arrives DEF Written, persist_event
  <2> QED
    BY <2>1 DEF Answer, Goes, Types
<1>14. ASSUME NEW r \in Requests, persist_event(r)
       PROVE  WriteEvent(r) \/ TrimEvents(r) \/ SetExpiry(r)
  BY <1>4, <1>14 DEF persist_event, PersistFails
<1>15. CASE TimePasses
  <2>1. CASE \E r \in Requests : Age(r)
    BY <1>11, <1>12, <2>1
  <2>2. CASE \E u \in Users : Expire(u)
    BY <1>10, <2>2
  <2> QED
    BY <1>15, <2>1, <2>2 DEF TimePasses
<1>16. CASE \E r \in Requests : persist_event(r)
  BY <1>7, <1>8, <1>9, <1>14, <1>16
<1>17. CASE ~TimePasses /\ ~ \E r \in Requests : persist_event(r)
  <2>1. UNCHANGED historyVars
    BY <1>5, <1>17, Touches
  <2> QED
    BY <1>11, <1>13, <1>17, <2>1 DEF historyVars
<1> QED
  BY <1>15, <1>16, <1>17

\* The features are read in the step that sees the history.
LEMMA SeenStep ==
  ASSUME Types, ConnectedInv, HistoryInv, Next
  PROVE  HistoryIsSeen'
<1> SUFFICES ASSUME failures' = 0, ~Seeded', NEW r \in Requests PROVE before'[r] \subseteq features'[r]
  BY DEF HistoryIsSeen
<1>1. failures = 0 /\ connected /\ ~Seeded
  BY FaultsStep, SeedsStep DEF ConnectedInv
<1>2. before[r] \subseteq features[r]
  BY <1>1 DEF HistoryInv, HistoryIsSeen
<1>3. ASSUME NEW u \in Users PROVE due_events(u) \subseteq events(u)
  <2> SUFFICES ASSUME NEW q \in due_events(u) PROVE q \in events(u)
    OBVIOUS
  <2>1. /\ q \in Requests /\ UserOf[q] = u /\ pc[q] = "done" /\ q \notin old \cup overtaken
        /\ place[q] = 0 \/ place[q] + HistoryRead > written(u)
    BY DEF due_events
  <2>2. EventInv(q)
    BY <1>1, <2>1 DEF HistoryInv
  <2>3. /\ written(u) \in Nat /\ place[q] \in Nat
        /\ HistoryMax \in Nat /\ HistoryRead \in Nat /\ HistoryMax >= HistoryRead
    BY <2>1, HistoryTypes, Numbers
  <2>4. place[q] + HistoryRead > written(u)
    BY <2>1, <2>2, <2>3 DEF EventInv, Written
  <2>5. place[q] > gone(u)
    BY <2>1, <2>2, <2>3, <2>4 DEF EventInv, Written
  <2> QED
    BY <2>1, <2>4, <2>5 DEF events, listed
<1>4. ASSUME NEW q \in Requests, extract_features(q) PROVE before'[r] \subseteq features'[r]
  <2>1. ~NoRedis
    BY <1>1 DEF NoRedis, Fails
  <2>2. /\ features' = [features EXCEPT ![q] = events(UserOf[q])]
        /\ before' = [before EXCEPT ![q] = due_events(UserOf[q])]
    BY <1>4, <2>1 DEF extract_features
  <2>3. UserOf[q] \in Users
    BY DetectorAssumption
  <2>4. due_events(UserOf[q]) \subseteq events(UserOf[q])
    BY <1>3, <2>3
  <2> QED
    BY <1>2, <2>2, <2>4 DEF Types
<1> QED
  BY <1>2, <1>4, Touches

LEMMA HistoryStep ==
  ASSUME Types, ConnectedInv, CounterInv, HistoryInv, Next
  PROVE  HistoryInv'
  BY EventsStep, SeededStep, SeenStep DEF HistoryInv

-----------------------------------------------------------------------------
(* The theorems.                                                           *)

LEMMA Start == ASSUME Init PROVE IInv
<1>1. <<>> \in Seq(Nat) /\ Len(<<>>) = 0
  OBVIOUS
<1>2. Types
  BY <1>1, Numbers DEF Init, Types, Phases
<1>3. came = {} /\ counted = {} /\ Untrimmed = {}
  BY DEF Init, came, counted, Counted, Untrimmed
<1>4. IsFiniteSet(came) /\ Cardinality({}) = 0
  BY <1>3, FS_EmptySet
<1>5. BufferInv /\ ConnectedInv /\ FitInv /\ FittedInv /\ ScoredWhenWarm
  BY <1>1 DEF Init, BufferInv, ConnectedInv, FitInv, FittedInv, ScoredWhenWarm
<1>6. WindowsInv
  BY NoStretch DEF Init, WindowsInv
<1>7. BoundInv
  <2>1. ~Seeded
    BY DEF Init, Seeded
  <2>2. limit = BufferMax
    BY <2>1 DEF limit
  <2>3. untrimmed = 0
    <3>1. untrimmed = Cardinality(Untrimmed) + failures /\ failures = 0
      BY DEF Init, untrimmed, Untrimmed
    <3> QED
      BY <1>3, <1>4, <3>1
  <2>4. Len(buffer) = 0
    BY DEF Init
  <2> QED
    BY <2>2, <2>3, <2>4, Numbers DEF BoundInv
<1>8. CounterInv
  BY <1>3, <1>4 DEF Init, CounterInv
<1>9. SizesInv
  BY Numbers DEF Init, SizesInv
<1>10. HistoryInv
  <2>1. \A a \in Requests : EventInv(a)
    BY DEF Init, EventInv, Written
  <2>2. \A u \in Users : gone(u) <= written(u)
    BY DEF Init, gone, written
  <2> QED
    BY <2>1, <2>2 DEF Init, HistoryInv, HistoryIsSeen
<1> QED
  BY <1>2, <1>5, <1>6, <1>7, <1>8, <1>9, <1>10 DEF IInv

LEMMA Stutter == ASSUME IInv, UNCHANGED vars PROVE IInv'
  BY DEF vars, bufferVars, requestVars, historyVars, startVars, faultVars, IInv, Types, BufferInv, WindowsInv,
     ConnectedInv, BoundInv, limit, Seeded, untrimmed, CounterInv, counted, came, SizesInv, enough,
     FitInv, FittedInv, ScoredWhenWarm, HistoryInv, HistoryIsSeen, EventInv,
     written, gone

LEMMA Step == ASSUME IInv, [Next]_vars PROVE IInv'
<1>1. CASE Next
  BY <1>1, TypesStep, BufferStep, WindowsStep, ConnectedStep, BoundStep, CounterStep, SizesStep,
     FitStep, FittedStep, WarmStep, HistoryStep DEF IInv
<1> QED
  BY <1>1, Stutter

LEMMA Inductive == Spec => []IInv
<1>1. Init => IInv
  BY Start
<1>2. IInv /\ [Next]_vars => IInv'
  BY Step
<1> QED
  BY <1>1, <1>2, PTL DEF Spec

\* Every window is a stretch of the samples.
LEMMA WindowsStretch ==
  ASSUME IInv, NEW w \in Windows
  PROVE  /\ w \in Seq(Nat)
         /\ \A i \in 1 .. Len(w) : w[i] \in 1 .. pushes
         /\ \A i \in 1 .. Len(w) : i > 1 => w[i] = w[i - 1] + 1
         /\ w # buffer => w = <<>> \/ Len(w) >= MinFit
<1>1. CASE w = buffer
  <2>1. /\ buffer \in Seq(Nat) /\ Len(buffer) \in Nat /\ pushes \in Nat /\ Len(buffer) <= pushes
        /\ \A i \in 1 .. Len(buffer) : buffer[i] = pushes - Len(buffer) + i
    BY DEF IInv, BufferInv, Types
  <2>2. \A i \in 1 .. Len(buffer) : buffer[i] \in 1 .. pushes
    BY <2>1
  <2>3. ASSUME NEW i \in 1 .. Len(buffer), i > 1 PROVE buffer[i] = buffer[i - 1] + 1
    <3>1. i - 1 \in 1 .. Len(buffer)
      BY <2>1, <2>3
    <3>2. buffer[i] = pushes - Len(buffer) + i /\ buffer[i - 1] = pushes - Len(buffer) + (i - 1)
      BY <2>1, <3>1
    <3> QED
      BY <2>1, <3>2
  <2>4. \A i \in 1 .. Len(w) : w[i] \in 1 .. pushes
    BY ONLY <1>1, <2>2
  <2>5. \A i \in 1 .. Len(w) : i > 1 => w[i] = w[i - 1] + 1
    BY ONLY <1>1, <2>3
  <2>6. w \in Seq(Nat)
    BY ONLY <1>1, <2>1
  <2> QED
    BY ONLY <1>1, <2>4, <2>5, <2>6
<1>2. CASE w # buffer
  <2>1. w \in Seq(Nat) /\ Stretch(w, pushes)
    <3>1. \/ w = <<>> \/ w = model
          \/ \E r \in Requests \cup Reseeds : w = window[r]
          \/ \E r \in Requests : w = fits[r] \/ w = clf[r]
      BY <1>2 DEF Windows, IInv, Types
    <3>2. <<>> \in Seq(Nat)
      OBVIOUS
    <3>3. model \in Seq(Nat) /\ Stretch(model, pushes)
      BY DEF IInv, WindowsInv, Types
    <3>4. \A r \in Requests \cup Reseeds : window[r] \in Seq(Nat) /\ Stretch(window[r], pushes)
      BY DEF IInv, WindowsInv, Types
    <3>5. \A r \in Requests : fits[r] \in Seq(Nat) /\ Stretch(fits[r], pushes)
      BY DEF IInv, WindowsInv, Types
    <3>6. \A r \in Requests : clf[r] \in Seq(Nat) /\ Stretch(clf[r], pushes)
      BY DEF IInv, WindowsInv, Types
    <3> QED
      BY <3>1, <3>2, <3>3, <3>4, <3>5, <3>6, NoStretch
  <2> QED
    BY <2>1 DEF Stretch
<1> QED
  BY <1>1, <1>2

\* The buffer is over its limit by no more than one sample of each request
\* that has not trimmed it, and every model is fitted on MinFit samples at
\* least that were pushed; the counter is no more than the requests that came.
THEOREM Typing == Spec => []TypeOK
<1>1. IInv => TypeOK
  <2> SUFFICES ASSUME IInv PROVE TypeOK
    OBVIOUS
  <2>1. Len(buffer) <= limit + untrimmed
    BY DEF IInv, BoundInv
  <2>2. counter \in 0 .. Cardinality(came)
    <3>1. Cardinality(counted) \in Nat /\ Cardinality(came) \in Nat
          /\ Cardinality(counted) <= Cardinality(came)
      BY CountedCame, Counts, FS_CardinalityType DEF IInv, CounterInv
    <3> QED
      BY <3>1 DEF IInv, CounterInv, Types
  <2>3. \A w \in Windows : \A i \in DOMAIN w : w[i] \in 1 .. pushes
    BY WindowsStretch
  <2>4. \A w \in Windows \ {buffer} : w = <<>> \/ Len(w) >= MinFit
    BY WindowsStretch
  <2>5. failures \in 0 .. MaxFailures /\ crashes \in 0 .. MaxCrashes
    BY Numbers DEF IInv, Types
  <2> QED
    BY <2>1, <2>2, <2>3, <2>4, <2>5 DEF TypeOK, IInv, Types, Phases
<1> QED
  BY <1>1, Inductive, PTL

\* The buffer ends with the latest sample, and every model was fitted on
\* consecutive samples, whatever fails and however the requests interleave.
THEOREM WindowsAreConsecutiveAlways == Spec => []WindowsAreConsecutive
<1>1. IInv => WindowsAreConsecutive
  <2> SUFFICES ASSUME IInv PROVE WindowsAreConsecutive
    OBVIOUS
  <2>1. LastOf(buffer) = pushes
    <3>1. buffer \in Seq(Nat) /\ pushes \in Nat /\ Len(buffer) \in Nat
      BY DEF IInv, Types
    <3>2. CASE buffer = <<>>
      BY <3>2 DEF LastOf, IInv, BufferInv
    <3>3. CASE buffer # <<>>
      BY <3>1, <3>3 DEF LastOf, IInv, BufferInv
    <3> QED
      BY <3>2, <3>3
  <2>2. \A w \in Windows : Consecutive(w)
    <3> SUFFICES ASSUME NEW w \in Windows, NEW i \in DOMAIN w, i > 1
                 PROVE  w[i] = w[i - 1] + 1
      BY DEF Consecutive
    <3>1. w \in Seq(Nat)
      BY WindowsStretch
    <3>2. i \in 1 .. Len(w)
      BY <3>1
    <3> QED
      BY <3>2, WindowsStretch
  <2> QED
    BY <2>1, <2>2 DEF WindowsAreConsecutive
<1> QED
  BY <1>1, Inductive, PTL

\* Without a failure, a request that saw enough samples is scored by a model.
THEOREM ScoredWhenWarmAlways == Spec => []ScoredWhenWarm
<1>1. IInv => ScoredWhenWarm
  BY DEF IInv
<1> QED
  BY <1>1, Inductive, PTL

\* Without a failure and a reset, the features of a request count every request
\* of its user that was answered before it came and whose event is of the span
\* and among the newest HistoryRead: for any numbers of requests and of events
\* kept, whatever runs at the same time, ages, expires or is lost in a restart,
\* but for an event whose key expires between its LPUSH and its EXPIRE.
THEOREM HistoryIsSeenAlways == Spec => []HistoryIsSeen
<1>1. IInv => HistoryIsSeen
  BY DEF IInv, HistoryInv
<1> QED
  BY <1>1, Inductive, PTL
=============================================================================
