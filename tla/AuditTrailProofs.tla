--------------------------- MODULE AuditTrailProofs ---------------------------
(***************************************************************************)
(* That the audit view is a consistent picture of two logs written and     *)
(* read without a lock between them: for any number of calls, queries and  *)
(* chains, any page size and limit of the level log, lost calls, failing   *)
(* Redis commands and restarts.                                            *)
(***************************************************************************)
EXTENDS AuditTrail, SequenceTheorems, FiniteSetTheorems, WellFoundedInduction, TLAPS

-----------------------------------------------------------------------------
(* The inductive invariant.                                                *)

StateType ==
  /\ sender \in [Calls -> {"idle", "queued", "posting", "over"}]
  /\ handler \in [Calls -> {"none", "sent", "pushed", "appended", "done"}]
  /\ mempool \in [Chains -> Seq(Calls)]
  /\ trail \in [Chains -> Seq(Calls)]

QueryType ==
  /\ qpc = [q \in Queries |-> qpc[q]]
  /\ raw \in [Queries -> Seq(Calls)]
  /\ pages \in [Queries -> Nat]
  /\ excused = [q \in Queries |-> excused[q]]
  /\ pending = [q \in Queries |-> pending[q]]
  /\ shown = [q \in Queries |-> shown[q]]
  /\ known \in [Queries -> SUBSET Calls]
  /\ seen = [q \in Queries |-> seen[q]]

\* A level log has an entry for a call at most once.
LevelLog(s) ==
  /\ s \in Seq(Calls)
  /\ \A i, j \in DOMAIN s : s[i] = s[j] => i = j
LevelLogInv == LevelLog(redis) /\ LevelLog(deque)

\* What Redis holds too much was pushed since it was last trimmed.
LengthInv ==
  /\ untrimmed \subseteq Calls /\ IsFiniteSet(untrimmed)
  /\ \A c \in untrimmed : handler[c] \notin {"none", "sent"}
  /\ Len(redis) <= LevelCap + Cardinality(untrimmed) /\ Len(deque) <= LevelCap

\* A call that got past the level log.
Logged(c) ==
  \/ handler[c] \in {"pushed", "appended"}
  \/ \E ch \in Chains : c \in SetOf(mempool[ch]) \cup SetOf(trail[ch])
  \/ \E q \in Queries : c \in known[q]

\* A call is sent once and appended once.
OnceInv == \A c \in Calls :
  /\ sender[c] \in {"idle", "queued"} => handler[c] = "none"
  /\ handler[c] \in {"none", "sent"} => c \notin SetOf(redis) \cup SetOf(deque) /\ ~Logged(c)
  /\ handler[c] = "pushed" => c \notin SetOf(deque)

\* Its entry is in Redis unless it went to memory or newer ones trimmed it.
Kept(c) == c \in SetOf(redis) \/ c \in inMemory \/ Len(redis) >= LevelCap
KeptInv == \A c \in Calls : Logged(c) => Kept(c)

\* What a query has read is where its next page begins.
PageInv == \A q \in Queries :
  /\ Len(raw[q]) <= Len(trail[ChainOf[q]])
  /\ \A i \in DOMAIN raw[q] : raw[q][i] = trail[ChainOf[q]][i]
  /\ qpc[q] \in {"idle", "paging"} => Len(raw[q]) = pages[q] * PageLimit

IInv ==
  /\ StateType /\ QueryType
  /\ LevelLogInv /\ LengthInv /\ OnceInv /\ KeptInv
  /\ PageInv /\ AcceptedIsShown /\ LevelsAreTheCallsOwn

-----------------------------------------------------------------------------
(* The level log.                                                          *)

LEMMA Constants ==
  /\ \A c \in Calls : ChainOf[c] \in Chains /\ LevelOf[c] \in Levels /\ FlagOf[c] \in BOOLEAN
  /\ \A q \in Queries : ChainOf[q] \in Chains
  /\ LevelCap \in Nat \ {0} /\ PageLimit \in Nat \ {0} /\ PageSize \in Nat \ {0}
  BY AuditAssumption

\* LPUSH: the new entry comes first.
LEMMA Pushed ==
  ASSUME NEW s, LevelLog(s), NEW c \in Calls, c \notin SetOf(s),
         NEW t, t = <<c>> \o s
  PROVE  LevelLog(t) /\ SetOf(t) = {c} \cup SetOf(s) /\ Len(t) = Len(s) + 1
<1>1. /\ s \in Seq(Calls) /\ Len(s) \in Nat /\ DOMAIN s = 1 .. Len(s)
      /\ \A i, j \in DOMAIN s : s[i] = s[j] => i = j
  BY DEF LevelLog
<1>2. /\ t \in Seq(Calls) /\ Len(t) = Len(s) + 1 /\ DOMAIN t = 1 .. Len(s) + 1
      /\ t[1] = c /\ \A i \in 2 .. Len(s) + 1 : t[i] = s[i - 1] /\ i - 1 \in DOMAIN s
  BY <1>1
<1>3. \A i \in 2 .. Len(s) + 1 : t[i] # c
  BY <1>2 DEF SetOf
<1>4. LevelLog(t)
  <2> SUFFICES ASSUME NEW i \in 1 .. Len(s) + 1, NEW j \in 1 .. Len(s) + 1, t[i] = t[j]
               PROVE  i = j
    BY <1>2 DEF LevelLog
  <2>1. CASE i = 1 \/ j = 1
    BY <1>1, <1>2, <1>3, <2>1
  <2>2. CASE i \in 2 .. Len(s) + 1 /\ j \in 2 .. Len(s) + 1
    <3>1. s[i - 1] = s[j - 1] /\ i - 1 \in DOMAIN s /\ j - 1 \in DOMAIN s
      BY <1>2, <2>2
    <3>2. i - 1 = j - 1
      BY <1>1, <3>1
    <3> QED
      BY <1>1, <3>2
  <2> QED
    BY <1>1, <2>1, <2>2
<1>5. SetOf(t) \subseteq {c} \cup SetOf(s)
  <2>1. \A i \in DOMAIN t : i = 1 \/ i \in 2 .. Len(s) + 1
    BY <1>1, <1>2
  <2> QED
    BY <1>2, <2>1 DEF SetOf
<1>6. {c} \cup SetOf(s) \subseteq SetOf(t)
  <2>1. c \in SetOf(t)
    BY <1>1, <1>2 DEF SetOf
  <2>2. ASSUME NEW i \in DOMAIN s PROVE s[i] \in SetOf(t)
    <3>1. i + 1 \in 2 .. Len(s) + 1 /\ (i + 1) - 1 = i
      BY <1>1
    <3>2. t[i + 1] = s[i] /\ i + 1 \in DOMAIN t
      BY <1>1, <1>2, <3>1
    <3> QED
      BY <3>2 DEF SetOf
  <2> QED
    BY <2>1, <2>2 DEF SetOf
<1> QED
  BY <1>2, <1>4, <1>5, <1>6

\* LTRIM: only a full log loses entries, and it stays full.
LEMMA Trimmed ==
  ASSUME NEW s, LevelLog(s), NEW t, t = trim(s)
  PROVE  /\ LevelLog(t) /\ Len(t) <= LevelCap /\ SetOf(t) \subseteq SetOf(s)
         /\ Len(s) >= LevelCap => Len(t) >= LevelCap
         /\ SetOf(s) \subseteq SetOf(t) \/ Len(t) >= LevelCap
<1>1. /\ s \in Seq(Calls) /\ Len(s) \in Nat /\ DOMAIN s = 1 .. Len(s)
      /\ \A i, j \in DOMAIN s : s[i] = s[j] => i = j
      /\ LevelCap \in Nat \ {0}
  BY Constants DEF LevelLog
<1> DEFINE n == IF Len(s) < LevelCap THEN Len(s) ELSE LevelCap
<1>2. n \in 0 .. Len(s) /\ n <= LevelCap
  BY <1>1
<1>3. t = SubSeq(s, 1, n)
  BY DEF trim
<1> HIDE DEF n
<1>4. t \in Seq(Calls) /\ Len(t) = n /\ DOMAIN t = 1 .. n /\ \A i \in 1 .. n : t[i] = s[i]
  <2>1. \A i \in 1 .. n : s[i] \in Calls
    BY <1>1, <1>2
  <2>2. /\ t \in Seq(Calls) /\ Len(t) = IF 1 <= n THEN n - 1 + 1 ELSE 0
        /\ \A i \in 1 .. n - 1 + 1 : t[i] = s[1 + i - 1]
    BY <1>1, <1>2, <1>3, <2>1, SubSeqProperties
  <2> QED
    BY <1>2, <2>2
<1>5. 1 .. n \subseteq DOMAIN s
  BY <1>1, <1>2
<1>6. LevelLog(t) /\ SetOf(t) \subseteq SetOf(s)
  BY <1>1, <1>4, <1>5 DEF LevelLog, SetOf
<1>7. Len(s) >= LevelCap => Len(t) >= LevelCap
  BY <1>1, <1>4 DEF n
<1>8. SetOf(s) \subseteq SetOf(t) \/ Len(t) >= LevelCap
  <2>1. CASE Len(s) < LevelCap
    BY <1>1, <1>4, <2>1 DEF n, SetOf
  <2>2. CASE ~(Len(s) < LevelCap)
    BY <1>1, <1>7, <2>2
  <2> QED
    BY <2>1, <2>2
<1> QED
  BY <1>2, <1>4, <1>6, <1>7, <1>8

LEMMA InitInv == ASSUME Init PROVE IInv
<1>1. StateType /\ QueryType
  BY DEF Init, StateType, QueryType
<1>2. LevelLogInv /\ LengthInv
  <2>1. IsFiniteSet({}) /\ Cardinality({}) = 0
    BY FS_EmptySet
  <2> QED
    BY <2>1, Constants DEF Init, LevelLogInv, LevelLog, LengthInv
<1>3. \A c \in Calls : ~Logged(c)
  BY DEF Init, Logged, SetOf
<1>4. OnceInv /\ KeptInv
  BY <1>3 DEF Init, OnceInv, KeptInv, SetOf
<1>5. PageInv
  BY Constants DEF Init, PageInv
<1>6. AcceptedIsShown /\ LevelsAreTheCallsOwn
  BY DEF Init, AcceptedIsShown, LevelsAreTheCallsOwn
<1> QED
  BY <1>1, <1>2, <1>4, <1>5, <1>6 DEF IInv

-----------------------------------------------------------------------------
(* Parts of the invariant a step does not touch.                           *)

\* Nothing is appended to the level log, and no call is sent or logged anew.
LEMMA LogFrame ==
  ASSUME IInv, UNCHANGED <<redis, inMemory, untrimmed>>, deque' = deque \/ deque' = <<>>,
         \A c \in Calls : Logged(c)' => Logged(c),
         \A c \in Calls : /\ sender'[c] \in {"idle", "queued"} => handler'[c] = "none"
                          /\ handler'[c] \in {"none", "sent"} => handler[c] \in {"none", "sent"}
                          /\ handler'[c] = "pushed" => handler[c] = "pushed"
  PROVE  LevelLogInv' /\ LengthInv' /\ OnceInv' /\ KeptInv'
<1>1. LevelLogInv' /\ SetOf(deque') \subseteq SetOf(deque)
  <2>1. LevelLog(<<>>) /\ SetOf(<<>>) = {}
    BY Constants DEF LevelLog, SetOf
  <2>2. LevelLog(redis') /\ LevelLog(deque')
    BY <2>1 DEF IInv, LevelLogInv, LevelLog
  <2> QED
    BY <2>1, <2>2 DEF LevelLogInv
<1>2. OnceInv'
  BY <1>1 DEF IInv, OnceInv
<1>3. KeptInv'
  BY DEF IInv, KeptInv, Kept
<1>4. LengthInv'
  BY Constants DEF IInv, LengthInv
<1> QED
  BY <1>1, <1>2, <1>3, <1>4

\* The log of a chain grows at its end, if at all.
Grows(log, longer) ==
  /\ Len(log) <= Len(longer)
  /\ \A i \in DOMAIN log : i \in DOMAIN longer /\ longer[i] = log[i]

\* The queries stand while calls are logged: an entry Redis has trimmed does not
\* come back, and a full level log stays full.
LEMMA QueryFrame ==
  ASSUME IInv, UNCHANGED queryVars, trail' \in [Chains -> Seq(Calls)],
         \A ch \in Chains : Grows(trail[ch], trail'[ch]),
         \A c \in Calls : Logged(c) /\ c \notin SetOf(redis) => c \notin SetOf(redis'),
         Len(redis) >= LevelCap => Len(redis') >= LevelCap
  PROVE  QueryType' /\ PageInv' /\ AcceptedIsShown' /\ LevelsAreTheCallsOwn'
<1>1. UNCHANGED <<qpc, raw, pages, excused, pending, shown, known, seen>>
  BY DEF queryVars
<1>2. QueryType'
  BY <1>1 DEF IInv, QueryType
<1>3. PageInv'
  <2> SUFFICES ASSUME NEW q \in Queries
               PROVE  /\ Len(raw[q]) <= Len(trail'[ChainOf[q]])
                      /\ \A i \in DOMAIN raw[q] : raw[q][i] = trail'[ChainOf[q]][i]
                      /\ qpc[q] \in {"idle", "paging"} => Len(raw[q]) = pages[q] * PageLimit
    BY <1>1 DEF PageInv
  <2> DEFINE log == trail[ChainOf[q]]
             longer == trail'[ChainOf[q]]
  <2>1. ChainOf[q] \in Chains
    BY Constants
  <2>2. log \in Seq(Calls) /\ longer \in Seq(Calls) /\ raw[q] \in Seq(Calls)
    BY <2>1 DEF IInv, StateType, QueryType
  <2>3. Grows(log, longer)
    BY <2>1
  <2>4. /\ Len(raw[q]) <= Len(log)
        /\ \A i \in DOMAIN raw[q] : raw[q][i] = log[i]
        /\ qpc[q] \in {"idle", "paging"} => Len(raw[q]) = pages[q] * PageLimit
    BY DEF IInv, PageInv
  <2> HIDE DEF log, longer
  <2>5. \A i \in DOMAIN raw[q] : i \in DOMAIN log
    BY <2>2, <2>4
  <2>6. Len(raw[q]) <= Len(longer)
    BY <2>2, <2>3, <2>4 DEF Grows
  <2>7. \A i \in DOMAIN raw[q] : raw[q][i] = longer[i]
    BY <2>3, <2>4, <2>5 DEF Grows
  <2> QED
    BY <2>4, <2>6, <2>7 DEF longer
<1>4. AcceptedIsShown'
  <2> SUFFICES ASSUME NEW q \in Queries, qpc[q] = "levels", NEW c \in known[q] \ excused[q]
               PROVE  \/ KeyOf[c] \in keysRead(q) \cup {KeyOf[d] : d \in pending[q]}
                      \/ c \notin SetOf(redis') /\ Len(redis') >= LevelCap
    BY <1>1 DEF AcceptedIsShown, keysRead
  <2>1. \/ KeyOf[c] \in keysRead(q) \cup {KeyOf[d] : d \in pending[q]}
        \/ c \notin SetOf(redis) /\ Len(redis) >= LevelCap
    BY DEF IInv, AcceptedIsShown
  <2>2. c \in Calls /\ Logged(c)
    BY DEF IInv, QueryType, Logged
  <2> QED
    BY <2>1, <2>2
<1>5. LevelsAreTheCallsOwn'
  BY <1>1 DEF IInv, LevelsAreTheCallsOwn
<1> QED
  BY <1>2, <1>3, <1>4, <1>5

LEMMA TrailStands ==
  ASSUME IInv
  PROVE  /\ trail \in [Chains -> Seq(Calls)]
         /\ \A ch \in Chains : Grows(trail[ch], trail[ch])
  BY DEF Grows, IInv, StateType

-----------------------------------------------------------------------------
(* One lemma per action: the calls.                                        *)

LEMMA LogInv == ASSUME IInv, NEW c \in Calls, Log(c) PROVE IInv'
<1>1. /\ sender[c] = "idle" /\ handler[c] = "none"
      /\ UNCHANGED <<handler, redis, deque, inMemory, untrimmed, mempool, trail, queryVars>>
  BY DEF Log, IInv, OnceInv
<1>2. /\ sender' \in [Calls -> {"idle", "queued", "posting", "over"}]
      /\ \A d \in Calls \ {c} : sender'[d] = sender[d]
  BY DEF Log, IInv, StateType
<1>3. StateType'
  BY <1>1, <1>2 DEF IInv, StateType
<1>4. LevelLogInv' /\ LengthInv' /\ OnceInv' /\ KeptInv'
  BY <1>1, <1>2, LogFrame DEF IInv, OnceInv, Logged, queryVars
<1>5. QueryType' /\ PageInv' /\ AcceptedIsShown' /\ LevelsAreTheCallsOwn'
  BY <1>1, QueryFrame, TrailStands
<1> QED
  BY <1>3, <1>4, <1>5 DEF IInv

LEMMA SendInv == ASSUME IInv, NEW c \in Calls, Send(c) PROVE IInv'
<1>1. /\ sender[c] = "queued" /\ handler[c] = "none"
      /\ UNCHANGED <<redis, deque, inMemory, untrimmed, mempool, trail, queryVars>>
  BY DEF Send, IInv, OnceInv
<1>2. /\ sender' \in [Calls -> {"idle", "queued", "posting", "over"}]
      /\ sender'[c] = "posting" /\ \A d \in Calls \ {c} : sender'[d] = sender[d]
  BY DEF Send, IInv, StateType
<1>3. /\ handler' \in [Calls -> {"none", "sent", "pushed", "appended", "done"}]
      /\ handler'[c] = "sent" /\ \A d \in Calls \ {c} : handler'[d] = handler[d]
  BY DEF Send, IInv, StateType
<1>4. StateType'
  BY <1>1, <1>2, <1>3 DEF IInv, StateType
<1>5. \A d \in Calls : Logged(d)' => Logged(d)
  BY <1>1, <1>3 DEF Logged, queryVars
<1>6. \A d \in Calls : /\ sender'[d] \in {"idle", "queued"} => handler'[d] = "none"
                       /\ handler'[d] \in {"none", "sent"} => handler[d] \in {"none", "sent"}
                       /\ handler'[d] = "pushed" => handler[d] = "pushed"
  BY <1>1, <1>2, <1>3 DEF IInv, OnceInv
<1>7. LevelLogInv' /\ LengthInv' /\ OnceInv' /\ KeptInv'
  BY <1>1, <1>5, <1>6, LogFrame
<1>8. QueryType' /\ PageInv' /\ AcceptedIsShown' /\ LevelsAreTheCallsOwn'
  BY <1>1, QueryFrame, TrailStands
<1> QED
  BY <1>4, <1>7, <1>8 DEF IInv

LEMMA SendEndsInv == ASSUME IInv, NEW c \in Calls, SendEnds(c) PROVE IInv'
<1>1. UNCHANGED <<handler, redis, deque, inMemory, untrimmed, mempool, trail, queryVars>>
  BY DEF SendEnds
<1>2. /\ sender' \in [Calls -> {"idle", "queued", "posting", "over"}]
      /\ sender'[c] = "over" /\ \A d \in Calls \ {c} : sender'[d] = sender[d]
  BY DEF SendEnds, IInv, StateType
<1>3. StateType'
  BY <1>1, <1>2 DEF IInv, StateType
<1>4. LevelLogInv' /\ LengthInv' /\ OnceInv' /\ KeptInv'
  BY <1>1, <1>2, LogFrame DEF IInv, OnceInv, Logged, queryVars
<1>5. QueryType' /\ PageInv' /\ AcceptedIsShown' /\ LevelsAreTheCallsOwn'
  BY <1>1, QueryFrame, TrailStands
<1> QED
  BY <1>3, <1>4, <1>5 DEF IInv

\* The level log takes an entry of its own: the call is new to it.  What it
\* loses, if anything, it loses as a full log.
LEMMA AppendFrame ==
  ASSUME IInv, NEW c \in Calls, UNCHANGED <<sender, mempool, trail, queryVars>>,
         handler' \in [Calls -> {"none", "sent", "pushed", "appended", "done"}],
         handler'[c] \in {"pushed", "appended"}, handler[c] \in {"sent", "pushed"},
         \A d \in Calls \ {c} : handler'[d] = handler[d],
         LevelLogInv', LengthInv',
         SetOf(redis') \subseteq {c} \cup SetOf(redis),
         SetOf(deque') \subseteq {c} \cup SetOf(deque),
         handler'[c] = "pushed" => SetOf(deque') \subseteq SetOf(deque),
         handler[c] = "pushed" => SetOf(redis') \subseteq SetOf(redis),
         inMemory \subseteq inMemory',
         SetOf(redis) \subseteq SetOf(redis') \/ Len(redis') >= LevelCap,
         Len(redis) >= LevelCap => Len(redis') >= LevelCap,
         c \in SetOf(redis') \cup inMemory' \/ Len(redis') >= LevelCap
  PROVE  IInv'
<1>1. StateType'
  BY DEF IInv, StateType
<1>2. \A d \in Calls \ {c} : Logged(d)' => Logged(d)
  BY DEF Logged, queryVars
<1>3. OnceInv'
  <2> SUFFICES ASSUME NEW d \in Calls
               PROVE  /\ sender'[d] \in {"idle", "queued"} => handler'[d] = "none"
                      /\ handler'[d] \in {"none", "sent"} =>
                           d \notin SetOf(redis') \cup SetOf(deque') /\ ~Logged(d)'
                      /\ handler'[d] = "pushed" => d \notin SetOf(deque')
    BY DEF OnceInv
  <2>1. CASE d = c
    <3>1. c \notin SetOf(deque)
      BY DEF IInv, OnceInv
    <3>2. sender[c] \notin {"idle", "queued"}
      BY DEF IInv, OnceInv
    <3> QED
      BY <2>1, <3>1, <3>2
  <2>2. CASE d # c
    BY <1>2, <2>2 DEF IInv, OnceInv
  <2> QED
    BY <2>1, <2>2
<1>4. KeptInv'
  <2> SUFFICES ASSUME NEW d \in Calls, Logged(d)'
               PROVE  d \in SetOf(redis') \/ d \in inMemory' \/ Len(redis') >= LevelCap
    BY DEF KeptInv, Kept
  <2>1. CASE d # c
    BY <1>2, <2>1 DEF IInv, KeptInv, Kept
  <2> QED
    BY <2>1
<1>5. \A d \in Calls : Logged(d) /\ d \notin SetOf(redis) => d \notin SetOf(redis')
  BY DEF IInv, OnceInv
<1>6. QueryType' /\ PageInv' /\ AcceptedIsShown' /\ LevelsAreTheCallsOwn'
  BY <1>5, QueryFrame, TrailStands
<1> QED
  BY <1>1, <1>3, <1>4, <1>6 DEF IInv

\* The deque takes an entry and drops its oldest.
LEMMA DequeTakes ==
  ASSUME IInv, NEW c \in Calls, c \notin SetOf(deque), deque' = trim(<<c>> \o deque)
  PROVE  LevelLog(deque') /\ Len(deque') <= LevelCap /\ SetOf(deque') \subseteq {c} \cup SetOf(deque)
<1> DEFINE longer == <<c>> \o deque
<1>1. LevelLog(longer) /\ SetOf(longer) = {c} \cup SetOf(deque)
  BY Pushed DEF IInv, LevelLogInv
<1> QED
  BY <1>1, Trimmed

LEMMA LogAccessInv == ASSUME IInv, NEW c \in Calls, LogAccess(c) PROVE IInv'
<1>1. /\ handler[c] = "sent" /\ ~Logged(c) /\ c \notin SetOf(redis) /\ c \notin SetOf(deque)
      /\ UNCHANGED <<sender, mempool, trail, queryVars>>
  BY DEF LogAccess, IInv, OnceInv
<1>2. CASE /\ redis' = <<c>> \o redis /\ untrimmed' = untrimmed \cup {c}
           /\ handler' = [handler EXCEPT ![c] = "pushed"] /\ UNCHANGED <<deque, inMemory>>
  <2>1. /\ LevelLog(redis') /\ SetOf(redis') = {c} \cup SetOf(redis)
        /\ Len(redis') = Len(redis) + 1
    BY <1>1, <1>2, Pushed DEF IInv, LevelLogInv
  <2>2. /\ handler' \in [Calls -> {"none", "sent", "pushed", "appended", "done"}]
        /\ handler'[c] = "pushed" /\ \A d \in Calls \ {c} : handler'[d] = handler[d]
    BY <1>2 DEF IInv, StateType
  <2>3. LevelLogInv'
    BY <1>2, <2>1 DEF IInv, LevelLogInv, LevelLog
  <2>4. LengthInv'
    <3>1. /\ c \notin untrimmed /\ IsFiniteSet(untrimmed) /\ untrimmed \subseteq Calls
          /\ Len(redis) <= LevelCap + Cardinality(untrimmed) /\ Len(deque) <= LevelCap
      BY <1>1 DEF IInv, LengthInv
    <3>2. /\ IsFiniteSet(untrimmed') /\ Cardinality(untrimmed') = Cardinality(untrimmed) + 1
          /\ Cardinality(untrimmed) \in Nat
      BY <1>2, <3>1, FS_AddElement, FS_CardinalityType
    <3>3. Len(redis) \in Nat /\ LevelCap \in Nat
      BY Constants DEF IInv, LevelLogInv, LevelLog
    <3>4. Len(redis') <= LevelCap + Cardinality(untrimmed')
      BY <2>1, <3>1, <3>2, <3>3
    <3>5. \A d \in untrimmed' : handler'[d] \notin {"none", "sent"}
      BY <1>2, <2>2, <3>1 DEF IInv, LengthInv
    <3> QED
      BY <1>2, <3>1, <3>2, <3>4, <3>5 DEF LengthInv
  <2>5. Len(redis) >= LevelCap => Len(redis') >= LevelCap
    BY <2>1, Constants DEF IInv, LevelLogInv, LevelLog
  <2> QED
    BY <1>1, <1>2, <2>1, <2>2, <2>3, <2>4, <2>5, AppendFrame
<1>3. CASE /\ deque' = trim(<<c>> \o deque) /\ inMemory' = inMemory \cup {c}
           /\ handler' = [handler EXCEPT ![c] = "appended"] /\ UNCHANGED <<redis, untrimmed>>
  <2>1. /\ LevelLog(deque') /\ Len(deque') <= LevelCap
        /\ SetOf(deque') \subseteq {c} \cup SetOf(deque)
    BY <1>1, <1>3, DequeTakes
  <2>2. /\ handler' \in [Calls -> {"none", "sent", "pushed", "appended", "done"}]
        /\ handler'[c] = "appended" /\ \A d \in Calls \ {c} : handler'[d] = handler[d]
    BY <1>3 DEF IInv, StateType
  <2>3. LevelLogInv'
    BY <1>3, <2>1 DEF IInv, LevelLogInv, LevelLog
  <2>4. LengthInv'
    BY <1>3, <2>1, <2>2 DEF IInv, LengthInv
  <2> QED
    BY <1>1, <1>3, <2>1, <2>2, <2>3, <2>4, AppendFrame
<1> QED
  BY <1>2, <1>3 DEF LogAccess

\* Redis trims its list or does not, and the deque takes the entry or does not.
LEMMA TrimInv == ASSUME IInv, NEW c \in Calls, Trim(c) PROVE IInv'
<1>1. /\ handler[c] = "pushed" /\ Logged(c) /\ c \notin SetOf(deque)
      /\ UNCHANGED <<sender, inMemory, mempool, trail, queryVars>>
  BY DEF Trim, IInv, OnceInv, Logged
<1>2. /\ handler' \in [Calls -> {"none", "sent", "pushed", "appended", "done"}]
      /\ handler'[c] = "appended" /\ \A d \in Calls \ {c} : handler'[d] = handler[d]
  BY DEF Trim, IInv, StateType
<1>3. /\ LevelLog(deque') /\ Len(deque') <= LevelCap
      /\ SetOf(deque') \subseteq {c} \cup SetOf(deque)
  <2>1. CASE deque' = deque
    BY <2>1 DEF IInv, LevelLogInv, LengthInv, LevelLog
  <2>2. CASE deque' = trim(<<c>> \o deque)
    BY <1>1, <2>2, DequeTakes
  <2> QED
    BY <2>1, <2>2 DEF Trim
<1>4. /\ LevelLog(redis') /\ SetOf(redis') \subseteq SetOf(redis)
      /\ SetOf(redis) \subseteq SetOf(redis') \/ Len(redis') >= LevelCap
      /\ Len(redis) >= LevelCap => Len(redis') >= LevelCap
      /\ \/ Len(redis') <= LevelCap /\ untrimmed' = {}
         \/ UNCHANGED <<redis, untrimmed>>
  <2>1. CASE redis' = trim(redis) /\ untrimmed' = {}
    BY <2>1, Trimmed DEF IInv, LevelLogInv
  <2>2. CASE UNCHANGED <<redis, untrimmed>>
    BY <2>2 DEF IInv, LevelLogInv, LevelLog
  <2> QED
    BY <2>1, <2>2 DEF Trim
<1>5. LevelLogInv'
  BY <1>3, <1>4 DEF LevelLogInv, LevelLog
<1>6. LengthInv'
  <2>1. CASE Len(redis') <= LevelCap /\ untrimmed' = {}
    <3>1. IsFiniteSet({}) /\ Cardinality({}) = 0
      BY FS_EmptySet
    <3>2. LevelCap + 0 = LevelCap
      BY Constants
    <3> QED
      BY <1>3, <2>1, <3>1, <3>2 DEF LengthInv
  <2>2. CASE UNCHANGED <<redis, untrimmed>>
    BY <1>2, <1>3, <2>2 DEF IInv, LengthInv
  <2> QED
    BY <1>4, <2>1, <2>2
<1>7. c \in SetOf(redis') \cup inMemory' \/ Len(redis') >= LevelCap
  BY <1>1, <1>4 DEF IInv, KeptInv, Kept
<1> QED
  BY <1>1, <1>2, <1>3, <1>4, <1>5, <1>6, <1>7, AppendFrame

LEMMA SetsOf ==
  ASSUME NEW S, NEW s \in Seq(S)
  PROVE  /\ SetOf(s) \subseteq S
         /\ \A x \in S : SetOf(Append(s, x)) \subseteq SetOf(s) \cup {x}
         /\ s # <<>> => Head(s) \in SetOf(s) /\ SetOf(Tail(s)) \subseteq SetOf(s)
<1>1. SetOf(s) \subseteq S
  BY DEF SetOf
<1>2. ASSUME NEW x \in S PROVE SetOf(Append(s, x)) \subseteq SetOf(s) \cup {x}
  <2>1. \A i \in DOMAIN Append(s, x) : Append(s, x)[i] = x \/ (i \in DOMAIN s /\ Append(s, x)[i] = s[i])
    OBVIOUS
  <2> QED
    BY <2>1 DEF SetOf
<1>3. ASSUME s # <<>> PROVE Head(s) \in SetOf(s) /\ SetOf(Tail(s)) \subseteq SetOf(s)
  <2>1. 1 \in DOMAIN s /\ Head(s) = s[1]
    BY <1>3
  <2>2. \A i \in DOMAIN Tail(s) : i + 1 \in DOMAIN s /\ Tail(s)[i] = s[i + 1]
    BY <1>3
  <2> QED
    BY <2>1, <2>2 DEF SetOf
<1> QED
  BY <1>1, <1>2, <1>3

LEMMA SubmitInv == ASSUME IInv, NEW c \in Calls, Submit(c) PROVE IInv'
<1>1. /\ handler[c] = "appended" /\ Logged(c)
      /\ UNCHANGED <<sender, redis, deque, inMemory, untrimmed, trail, queryVars>>
  BY DEF Submit, Logged
<1>2. /\ handler' \in [Calls -> {"none", "sent", "pushed", "appended", "done"}]
      /\ handler'[c] = "done" /\ \A d \in Calls \ {c} : handler'[d] = handler[d]
  BY DEF Submit, IInv, StateType
<1>3. ChainOf[c] \in Chains
  BY Constants
<1>4. /\ mempool' \in [Chains -> Seq(Calls)]
      /\ \A ch \in Chains : mempool'[ch] = mempool[ch] \/ mempool'[ch] = Append(mempool[ch], c)
  <2>1. mempool' = mempool \/ mempool' = [mempool EXCEPT ![ChainOf[c]] = Append(@, c)]
    BY DEF Submit
  <2>2. mempool \in [Chains -> Seq(Calls)]
    BY DEF IInv, StateType
  <2>3. \A ch \in Chains : Append(mempool[ch], c) \in Seq(Calls)
    BY <2>2
  <2> QED
    BY <1>3, <2>1, <2>2, <2>3
<1>5. \A ch \in Chains : SetOf(mempool'[ch]) \subseteq SetOf(mempool[ch]) \cup {c}
  BY <1>4, SetsOf DEF IInv, StateType
<1>6. StateType'
  BY <1>1, <1>2, <1>4 DEF IInv, StateType
<1>7. \A d \in Calls : Logged(d)' => Logged(d)
  BY <1>1, <1>2, <1>5 DEF Logged, queryVars
<1>8. \A d \in Calls : /\ sender'[d] \in {"idle", "queued"} => handler'[d] = "none"
                       /\ handler'[d] \in {"none", "sent"} => handler[d] \in {"none", "sent"}
                       /\ handler'[d] = "pushed" => handler[d] = "pushed"
  BY <1>1, <1>2 DEF IInv, OnceInv
<1>9. LevelLogInv' /\ LengthInv' /\ OnceInv' /\ KeptInv'
  BY <1>1, <1>7, <1>8, LogFrame
<1>10. QueryType' /\ PageInv' /\ AcceptedIsShown' /\ LevelsAreTheCallsOwn'
  BY <1>1, QueryFrame, TrailStands
<1> QED
  BY <1>6, <1>9, <1>10 DEF IInv

LEMMA MineInv == ASSUME IInv, NEW ch \in Chains, Mine(ch) PROVE IInv'
<1> DEFINE head == Head(mempool[ch])
<1>1. UNCHANGED <<sender, handler, redis, deque, inMemory, untrimmed, queryVars>>
  BY DEF Mine
<1>2. /\ mempool[ch] \in Seq(Calls) /\ mempool[ch] # <<>>
      /\ head \in SetOf(mempool[ch]) /\ SetOf(Tail(mempool[ch])) \subseteq SetOf(mempool[ch])
      /\ head \in Calls
  <2>1. mempool[ch] \in Seq(Calls) /\ mempool[ch] # <<>>
    BY DEF Mine, IInv, StateType
  <2> QED
    BY <2>1, SetsOf
<1>3. /\ mempool' \in [Chains -> Seq(Calls)]
      /\ \A other \in Chains : SetOf(mempool'[other]) \subseteq SetOf(mempool[other])
  <2>1. Tail(mempool[ch]) \in Seq(Calls)
    BY <1>2
  <2> QED
    BY <1>2, <2>1 DEF Mine, IInv, StateType
<1>4. /\ trail' \in [Chains -> Seq(Calls)]
      /\ \A other \in Chains :
           \/ trail'[other] = trail[other]
           \/ other = ch /\ trail'[other] = Append(trail[ch], head)
  <2>1. Append(trail[ch], head) \in Seq(Calls)
    BY <1>2 DEF IInv, StateType
  <2> QED
    BY <2>1 DEF Mine, IInv, StateType
<1> HIDE DEF head
<1>5. \A other \in Chains : /\ Grows(trail[other], trail'[other])
                            /\ SetOf(trail'[other]) \subseteq SetOf(trail[other]) \cup SetOf(mempool[other])
  <2> SUFFICES ASSUME NEW other \in Chains
               PROVE  /\ Grows(trail[other], trail'[other])
                      /\ SetOf(trail'[other]) \subseteq
                           SetOf(trail[other]) \cup SetOf(mempool[other])
    OBVIOUS
  <2>1. trail[other] \in Seq(Calls)
    BY DEF IInv, StateType
  <2>2. CASE trail'[other] = trail[other]
    BY <2>1, <2>2 DEF Grows
  <2>3. CASE other = ch /\ trail'[other] = Append(trail[ch], head)
    <3>1. SetOf(Append(trail[ch], head)) \subseteq SetOf(trail[ch]) \cup {head}
      BY <1>2, <2>1, <2>3, SetsOf
    <3>2. Grows(trail[ch], Append(trail[ch], head))
      BY <2>1, <2>3 DEF Grows
    <3> QED
      BY <1>2, <2>3, <3>1, <3>2
  <2> QED
    BY <1>4, <2>2, <2>3
<1>6. StateType'
  BY <1>1, <1>3, <1>4 DEF IInv, StateType
<1>7. \A d \in Calls : Logged(d)' => Logged(d)
  BY <1>1, <1>3, <1>5 DEF Logged, queryVars
<1>8. LevelLogInv' /\ LengthInv' /\ OnceInv' /\ KeptInv'
  BY <1>1, <1>7, LogFrame DEF IInv, OnceInv
<1>9. QueryType' /\ PageInv' /\ AcceptedIsShown' /\ LevelsAreTheCallsOwn'
  BY <1>1, <1>4, <1>5, QueryFrame
<1> QED
  BY <1>6, <1>8, <1>9 DEF IInv

LEMMA GatewayCrashInv == ASSUME IInv, GatewayCrash PROVE IInv'
<1>1. UNCHANGED <<handler, redis, deque, inMemory, untrimmed, mempool, trail, queryVars>>
  BY DEF GatewayCrash
<1>2. /\ sender' \in [Calls -> {"idle", "queued", "posting", "over"}]
      /\ \A c \in Calls : sender'[c] \in {"idle", "queued"} => sender[c] \in {"idle", "queued"}
  BY DEF GatewayCrash, IInv, StateType
<1>3. StateType'
  BY <1>1, <1>2 DEF IInv, StateType
<1>4. LevelLogInv' /\ LengthInv' /\ OnceInv' /\ KeptInv'
  BY <1>1, <1>2, LogFrame DEF IInv, OnceInv, Logged, queryVars
<1>5. QueryType' /\ PageInv' /\ AcceptedIsShown' /\ LevelsAreTheCallsOwn'
  BY <1>1, QueryFrame, TrailStands
<1> QED
  BY <1>3, <1>4, <1>5 DEF IInv

LEMMA BlockchainCrashInv == ASSUME IInv, BlockchainCrash PROVE IInv'
<1>1. /\ deque' = <<>>
      /\ UNCHANGED <<sender, redis, inMemory, untrimmed, mempool, trail,
                     raw, pages, excused, pending, shown, known, seen>>
  BY DEF BlockchainCrash
<1>2. /\ handler' \in [Calls -> {"none", "sent", "pushed", "appended", "done"}]
      /\ \A c \in Calls : handler'[c] = handler[c] \/ (handler'[c] = "done" /\ handler[c] # "none")
  BY DEF BlockchainCrash, IInv, StateType
<1>3. /\ qpc' = [q \in Queries |-> qpc'[q]]
      /\ \A q \in Queries : /\ qpc'[q] \notin {"paging", "levels"}
                            /\ qpc'[q] = "idle" => qpc[q] = "idle"
  BY DEF BlockchainCrash
<1>4. StateType'
  BY <1>1, <1>2 DEF IInv, StateType
<1>5. \A c \in Calls : Logged(c)' => Logged(c)
  BY <1>1, <1>2 DEF Logged
<1>6. \A c \in Calls : /\ sender'[c] \in {"idle", "queued"} => handler'[c] = "none"
                       /\ handler'[c] \in {"none", "sent"} => handler[c] \in {"none", "sent"}
                       /\ handler'[c] = "pushed" => handler[c] = "pushed"
  BY <1>1, <1>2 DEF IInv, OnceInv
<1>7. LevelLogInv' /\ LengthInv' /\ OnceInv' /\ KeptInv'
  BY <1>1, <1>5, <1>6, LogFrame
<1>8. QueryType' /\ PageInv'
  BY <1>1, <1>3 DEF IInv, QueryType, PageInv
<1>9. AcceptedIsShown' /\ LevelsAreTheCallsOwn'
  BY <1>1, <1>3 DEF IInv, AcceptedIsShown, LevelsAreTheCallsOwn
<1> QED
  BY <1>4, <1>7, <1>8, <1>9 DEF IInv

-----------------------------------------------------------------------------
(* The queries.                                                            *)

\* The calls stand while a query moves on.
LEMMA CallFrame ==
  ASSUME IInv, UNCHANGED <<senderVars, known>>
  PROVE  StateType' /\ LevelLogInv' /\ LengthInv' /\ OnceInv' /\ KeptInv'
<1>1. UNCHANGED <<sender, handler, redis, deque, inMemory, untrimmed, mempool, trail, known>>
  BY DEF senderVars
<1>2. StateType'
  BY <1>1 DEF IInv, StateType
<1>3. LevelLogInv' /\ LengthInv' /\ OnceInv' /\ KeptInv'
  BY <1>1, LogFrame DEF IInv, OnceInv, Logged
<1> QED
  BY <1>2, <1>3

\* The calls the chain has when the query starts are past the level log.
LEMMA StartQueryInv == ASSUME IInv, NEW q \in Queries, StartQuery(q) PROVE IInv'
<1> DEFINE there == SetOf(mempool[ChainOf[q]]) \cup SetOf(trail[ChainOf[q]])
<1>1. /\ UNCHANGED <<sender, handler, redis, deque, inMemory, untrimmed, mempool, trail,
                     raw, pages, excused, pending, shown, seen>>
      /\ qpc[q] = "idle" /\ ChainOf[q] \in Chains
  BY Constants DEF StartQuery, senderVars
<1>2. /\ qpc' = [p \in Queries |-> qpc'[p]] /\ qpc'[q] = "paging"
      /\ \A p \in Queries \ {q} : qpc'[p] = qpc[p]
  BY DEF StartQuery, IInv, QueryType
<1>3. there \subseteq Calls /\ \A c \in there : Logged(c)
  BY <1>1, SetsOf DEF IInv, StateType, Logged
<1>4. /\ known' \in [Queries -> SUBSET Calls] /\ known'[q] = there
      /\ \A p \in Queries \ {q} : known'[p] = known[p]
  BY <1>3 DEF StartQuery, IInv, QueryType
<1> HIDE DEF there
<1>5. \A c \in Calls : Logged(c)' => Logged(c)
  BY <1>1, <1>3, <1>4 DEF Logged
<1>6. StateType' /\ QueryType'
  BY <1>1, <1>2, <1>4 DEF IInv, StateType, QueryType
<1>7. LevelLogInv' /\ LengthInv' /\ OnceInv' /\ KeptInv'
  BY <1>1, <1>5, LogFrame DEF IInv, OnceInv
<1>8. PageInv'
  BY <1>1, <1>2 DEF IInv, PageInv
<1>9. AcceptedIsShown' /\ LevelsAreTheCallsOwn'
  BY <1>1, <1>2, <1>4 DEF IInv, AcceptedIsShown, LevelsAreTheCallsOwn, keysRead
<1> QED
  BY <1>6, <1>7, <1>8, <1>9 DEF IInv

\* The next page begins where the last one ended, and only a full page leaves
\* the query paging.
LEMMA ReadPageInv == ASSUME IInv, NEW q \in Queries, ReadPage(q) PROVE IInv'
<1> DEFINE log == trail[ChainOf[q]]
           n == Len(raw[q])
           last == IF n + PageLimit > Len(log) THEN Len(log) ELSE n + PageLimit
           chunk == SubSeq(log, n + 1, last)
<1>1. /\ UNCHANGED <<senderVars, excused, pending, shown, known, seen>>
      /\ UNCHANGED trail /\ qpc[q] = "paging" /\ ChainOf[q] \in Chains
  BY Constants DEF ReadPage, senderVars
<1>2. /\ log \in Seq(Calls) /\ raw[q] \in Seq(Calls) /\ pages[q] \in Nat /\ n \in Nat
      /\ PageLimit \in Nat \ {0}
  BY <1>1, Constants DEF IInv, StateType, QueryType
<1>3. /\ n = pages[q] * PageLimit /\ n <= Len(log)
      /\ \A i \in 1 .. n : raw[q][i] = log[i]
  BY <1>1, <1>2 DEF IInv, PageInv
<1>4. (pages[q] + 1) * PageLimit = n + PageLimit
  BY <1>2, <1>3
<1>5. getAllAccessLogs(ChainOf[q], pages[q]) = chunk
  BY <1>3, <1>4 DEF getAllAccessLogs
<1>6. last \in n .. Len(log) /\ last <= n + PageLimit
  BY <1>2, <1>3
<1> HIDE DEF log, last
<1>7. /\ chunk \in Seq(Calls) /\ Len(chunk) = last - n
      /\ \A i \in 1 .. last - n : chunk[i] = log[n + i]
  <2>1. \A i \in n + 1 .. last : log[i] \in Calls
    BY <1>2, <1>6
  <2>2. /\ chunk \in Seq(Calls)
        /\ Len(chunk) = IF n + 1 <= last THEN last - (n + 1) + 1 ELSE 0
        /\ \A i \in 1 .. last - (n + 1) + 1 : chunk[i] = log[n + 1 + i - 1]
    <3>1. n + 1 \in Int /\ last \in Int
      BY <1>2, <1>6
    <3> HIDE DEF n
    <3> QED
      BY <2>1, <3>1, SubSeqProperties
  <2>3. last - (n + 1) + 1 = last - n /\ (n + 1 <= last \/ last - n = 0)
    BY <1>2, <1>6
  <2>4. \A i \in 1 .. last - n : n + 1 + i - 1 = n + i
    BY <1>2, <1>6
  <2>5. Len(chunk) = last - n
    BY <2>2, <2>3
  <2> HIDE DEF chunk, n
  <2> QED
    BY <2>2, <2>3, <2>4, <2>5
<1> HIDE DEF chunk
<1>8. /\ raw' \in [Queries -> Seq(Calls)] /\ raw'[q] = raw[q] \o chunk
      /\ \A p \in Queries \ {q} : raw'[p] = raw[p]
  <2>1. raw' = [raw EXCEPT ![q] = @ \o chunk]
    BY <1>5 DEF ReadPage
  <2>2. raw[q] \o chunk \in Seq(Calls)
    BY <1>2, <1>7
  <2> QED
    BY <2>1, <2>2 DEF IInv, QueryType
<1>9. /\ pages' \in [Queries -> Nat] /\ pages'[q] = pages[q] + 1
      /\ \A p \in Queries \ {q} : pages'[p] = pages[p]
  BY DEF ReadPage, IInv, QueryType
<1>10. /\ qpc' = [p \in Queries |-> qpc'[p]]
       /\ qpc'[q] = "merging" \/ (qpc'[q] = "paging" /\ ~ (Len(chunk) < PageLimit))
       /\ \A p \in Queries \ {q} : qpc'[p] = qpc[p]
  BY <1>1, <1>5 DEF ReadPage, IInv, QueryType
<1>11. Len(raw'[q]) = last /\ \A i \in 1 .. last : raw'[q][i] = log[i]
  <2>1. Len(raw'[q]) = last
    BY <1>2, <1>6, <1>7, <1>8
  <2>2. ASSUME NEW i \in 1 .. last PROVE raw'[q][i] = log[i]
    <3>1. CASE i <= n
      <4>1. i \in 1 .. n
        BY <1>2, <1>6, <3>1
      <4>2. (raw[q] \o chunk)[i] = raw[q][i]
        BY <1>2, <1>7, <4>1
      <4> QED
        BY <1>3, <1>8, <4>1, <4>2
    <3>2. CASE ~ (i <= n)
      <4>1. i - n \in 1 .. last - n /\ n + (i - n) = i
        BY <1>2, <1>6, <3>2
      <4>2. (raw[q] \o chunk)[i] = chunk[i - n]
        BY <1>2, <1>6, <1>7, <3>2, <4>1
      <4>3. chunk[i - n] = log[n + (i - n)]
        BY <1>7, <4>1
      <4> QED
        BY <1>8, <4>1, <4>2, <4>3
    <3> QED
      BY <3>1, <3>2
  <2> QED
    BY <2>1, <2>2
<1>12. qpc'[q] = "paging" => last = (pages[q] + 1) * PageLimit
  <2> SUFFICES ASSUME qpc'[q] = "paging" PROVE last = (pages[q] + 1) * PageLimit
    OBVIOUS
  <2>1. ~ (last - n < PageLimit)
    BY <1>7, <1>10
  <2>2. last = n + PageLimit
    BY <1>2, <1>6, <2>1
  <2> QED
    BY <1>4, <2>2
<1>13. StateType' /\ LevelLogInv' /\ LengthInv' /\ OnceInv' /\ KeptInv'
  BY <1>1, CallFrame
<1>14. QueryType'
  BY <1>1, <1>8, <1>9, <1>10 DEF IInv, QueryType
<1>15. PageInv'
  <2> SUFFICES ASSUME NEW p \in Queries
               PROVE  /\ Len(raw'[p]) <= Len(trail[ChainOf[p]])
                      /\ \A i \in DOMAIN raw'[p] : raw'[p][i] = trail[ChainOf[p]][i]
                      /\ qpc'[p] \in {"idle", "paging"} => Len(raw'[p]) = pages'[p] * PageLimit
    BY <1>1 DEF PageInv
  <2>1. CASE p = q
    <3>1. Len(raw'[q]) <= Len(log) /\ DOMAIN raw'[q] = 1 .. last
      BY <1>2, <1>6, <1>8, <1>11
    <3>2. qpc'[q] \in {"idle", "paging"} => Len(raw'[q]) = pages'[q] * PageLimit
      BY <1>9, <1>10, <1>11, <1>12
    <3> QED
      BY <1>11, <2>1, <3>1, <3>2 DEF log
  <2>2. CASE p # q
    <3>1. /\ Len(raw[p]) <= Len(trail[ChainOf[p]])
          /\ \A i \in DOMAIN raw[p] : raw[p][i] = trail[ChainOf[p]][i]
          /\ qpc[p] \in {"idle", "paging"} => Len(raw[p]) = pages[p] * PageLimit
      BY DEF IInv, PageInv
    <3>2. raw'[p] = raw[p] /\ pages'[p] = pages[p] /\ qpc'[p] = qpc[p]
      BY <1>8, <1>9, <1>10, <2>2
    <3> QED
      BY <3>1, <3>2, Zenon
  <2> QED
    BY <2>1, <2>2
<1>16. AcceptedIsShown'
  BY <1>1, <1>8, <1>10 DEF IInv, AcceptedIsShown, keysRead, senderVars
<1>17. LevelsAreTheCallsOwn'
  BY <1>1 DEF IInv, LevelsAreTheCallsOwn
<1> QED
  BY <1>13, <1>14, <1>15, <1>16, <1>17 DEF IInv

\* The level log is read after the chain: what the chain had when the query
\* began and the level log has lost was trimmed.
LEMMA MergePendingInv == ASSUME IInv, NEW q \in Queries, MergePending(q) PROVE IInv'
<1>1. /\ UNCHANGED <<senderVars, raw, pages, shown, known, seen>>
      /\ UNCHANGED <<redis, trail>> /\ qpc[q] = "merging"
  BY DEF MergePending, senderVars
<1> DEFINE Takes(entries, young) ==
             /\ excused' = [excused EXCEPT ![q] =
                  IF entries = redis THEN (SetOf(redis) \ young) \cup inMemory ELSE Calls]
             /\ pending' = [pending EXCEPT ![q] = {c \in young : KeyOf[c] \notin onchain_keys(q)}]
<1>2. PICK entries \in audit_entries(q) : \E young \in SUBSET SetOf(entries) : Takes(entries, young)
  BY DEF MergePending
<1>21. PICK young \in SUBSET SetOf(entries) : Takes(entries, young)
  BY <1>2
<1>3. /\ excused' = [p \in Queries |-> excused'[p]]
      /\ excused'[q] = IF entries = redis THEN (SetOf(redis) \ young) \cup inMemory ELSE Calls
      /\ \A p \in Queries \ {q} : excused'[p] = excused[p]
  BY <1>21 DEF IInv, QueryType
<1>4. /\ pending' = [p \in Queries |-> pending'[p]]
      /\ pending'[q] = {c \in young : KeyOf[c] \notin onchain_keys(q)}
      /\ \A p \in Queries \ {q} : pending'[p] = pending[p]
  BY <1>21 DEF IInv, QueryType
<1>5. /\ qpc' = [p \in Queries |-> qpc'[p]] /\ qpc'[q] = "levels"
      /\ \A p \in Queries \ {q} : qpc'[p] = qpc[p]
  BY DEF MergePending, IInv, QueryType
<1>6. StateType' /\ LevelLogInv' /\ LengthInv' /\ OnceInv' /\ KeptInv'
  BY <1>1, CallFrame
<1>7. QueryType'
  BY <1>1, <1>3, <1>4, <1>5 DEF IInv, QueryType
<1>8. PageInv'
  BY <1>1, <1>5 DEF IInv, PageInv
<1>9. AcceptedIsShown'
  <2> SUFFICES ASSUME NEW p \in Queries, qpc'[p] = "levels", NEW c \in known[p] \ excused'[p]
               PROVE  \/ KeyOf[c] \in keysRead(p) \cup {KeyOf[d] : d \in pending'[p]}
                      \/ c \notin SetOf(redis) /\ Len(redis) >= LevelCap
    BY <1>1 DEF AcceptedIsShown, keysRead
  <2>1. CASE p = q
    <3>1. c \in Calls /\ Logged(c)
      BY DEF IInv, QueryType, Logged
    <3>2. entries = redis /\ c \notin inMemory /\ (c \in young \/ c \notin SetOf(redis))
      BY <1>3, <2>1, <3>1
    <3>3. CASE c \in young
      BY <1>4, <2>1, <3>3 DEF onchain_keys, keysRead
    <3>4. CASE c \notin SetOf(redis)
      BY <3>1, <3>2, <3>4 DEF IInv, KeptInv, Kept
    <3> QED
      BY <3>2, <3>3, <3>4
  <2>2. CASE p # q
    BY <1>3, <1>4, <1>5, <2>2 DEF IInv, AcceptedIsShown
  <2> QED
    BY <2>1, <2>2
<1>10. LevelsAreTheCallsOwn'
  BY <1>1 DEF IInv, LevelsAreTheCallsOwn
<1> QED
  BY <1>6, <1>7, <1>8, <1>9, <1>10 DEF IInv

\* A call that shares its key with no other finds its own entry or none.
LEMMA LevelIsOwn ==
  ASSUME NEW entries, LevelLog(entries), NEW c \in Calls, Alone(c)
  PROVE  levelOf(entries, c) = IF c \in SetOf(entries) THEN LevelOf[c]
                               ELSE IF FlagOf[c] THEN "HIGH" ELSE "NORMAL"
<1> DEFINE same == WithKey(entries, KeyOf[c])
<1>1. same = {i \in DOMAIN entries : entries[i] = c}
  <2>1. \A i \in DOMAIN entries : entries[i] \in Calls
    BY DEF LevelLog
  <2> QED
    BY <2>1 DEF WithKey, Alone
<1>2. CASE c \in SetOf(entries)
  <2>1. PICK k \in DOMAIN entries : entries[k] = c
    BY <1>2 DEF SetOf
  <2>2. same = {k} /\ k \in Nat
    BY <1>1, <2>1 DEF LevelLog
  <2> HIDE DEF same
  <2>3. (CHOOSE i \in same : \A j \in same : j <= i) = k
    BY <2>2
  <2>4. same # {}
    BY <2>2
  <2>5. levelOf(entries, c) =
          IF same = {} THEN IF FlagOf[c] THEN "HIGH" ELSE "NORMAL"
          ELSE LevelOf[entries[CHOOSE i \in same : \A j \in same : j <= i]]
    BY Zenon DEF levelOf, same
  <2>6. levelOf(entries, c) = LevelOf[entries[k]]
    BY <2>3, <2>4, <2>5, Zenon
  <2> QED
    BY <1>2, <2>1, <2>6
<1>3. CASE c \notin SetOf(entries)
  <2>1. same = {}
    BY <1>1, <1>3 DEF SetOf
  <2> QED
    BY <1>3, <2>1 DEF levelOf
<1> QED
  BY <1>2, <1>3

LEMMA AnswerQueryInv == ASSUME IInv, NEW q \in Queries, AnswerQuery(q) PROVE IInv'
<1>1. UNCHANGED <<senderVars, raw, pages, excused, pending, known>>
  BY DEF AnswerQuery
<1>2. UNCHANGED <<redis, trail>>
  BY DEF AnswerQuery, senderVars
<1>3. PICK entries \in audit_entries(q) :
        /\ shown' = [shown EXCEPT ![q] =
             [i \in DOMAIN newestPage(q) |->
                [call |-> newestPage(q)[i], level |-> levelOf(entries, newestPage(q)[i])]]]
        /\ seen' = [seen EXCEPT ![q] = entries]
  BY DEF AnswerQuery
<1>4. LevelLog(entries)
  BY DEF audit_entries, IInv, LevelLogInv
<1>5. /\ seen' = [p \in Queries |-> seen'[p]] /\ seen'[q] = entries
      /\ \A p \in Queries \ {q} : seen'[p] = seen[p]
  BY <1>3 DEF IInv, QueryType
<1>6. /\ shown' = [p \in Queries |-> shown'[p]]
      /\ shown'[q] = [i \in DOMAIN newestPage(q) |->
           [call |-> newestPage(q)[i], level |-> levelOf(entries, newestPage(q)[i])]]
      /\ \A p \in Queries \ {q} : shown'[p] = shown[p]
  BY <1>3 DEF IInv, QueryType
<1>7. /\ qpc' = [p \in Queries |-> qpc'[p]] /\ qpc'[q] = "answered"
      /\ \A p \in Queries \ {q} : qpc'[p] = qpc[p]
  BY DEF AnswerQuery, IInv, QueryType
<1>8. StateType' /\ LevelLogInv' /\ LengthInv' /\ OnceInv' /\ KeptInv'
  BY <1>1, CallFrame
<1>9. QueryType'
  BY <1>1, <1>5, <1>6, <1>7 DEF IInv, QueryType
<1>10. PageInv'
  BY <1>1, <1>2, <1>7 DEF IInv, PageInv
<1>11. AcceptedIsShown'
  BY <1>1, <1>2, <1>7 DEF IInv, AcceptedIsShown, keysRead
<1>12. LevelsAreTheCallsOwn'
  <2> SUFFICES ASSUME NEW p \in Queries, NEW i \in DOMAIN shown'[p], Alone(shown'[p][i].call)
               PROVE  shown'[p][i].level =
                        IF shown'[p][i].call \in SetOf(seen'[p]) THEN LevelOf[shown'[p][i].call]
                        ELSE IF FlagOf[shown'[p][i].call] THEN "HIGH" ELSE "NORMAL"
    BY DEF LevelsAreTheCallsOwn, Alone
  <2>1. CASE p = q
    <3>1. i \in DOMAIN newestPage(q)
      BY <1>6, <2>1
    <3>2. newestPage(q)[i] \in Calls
      <4>1. raw[q] \in Seq(Calls) /\ PageSize \in Nat
        BY Constants DEF IInv, QueryType
      <4>2. /\ i \in 1 .. Len(raw[q])
            /\ newestPage(q)[i] = raw[q][Len(raw[q]) + 1 - i]
        BY <3>1, <4>1 DEF newestPage
      <4>3. Len(raw[q]) + 1 - i \in DOMAIN raw[q]
        BY <4>1, <4>2
      <4> QED
        BY <4>1, <4>2, <4>3
    <3>3. /\ shown'[p][i].call = newestPage(q)[i]
          /\ shown'[p][i].level = levelOf(entries, newestPage(q)[i])
      BY <1>6, <2>1, <3>1
    <3> QED
      BY <1>4, <1>5, <2>1, <3>2, <3>3, LevelIsOwn
  <2>2. CASE p # q
    BY <1>5, <1>6, <2>2 DEF IInv, LevelsAreTheCallsOwn
  <2> QED
    BY <2>1, <2>2
<1> QED
  BY <1>8, <1>9, <1>10, <1>11, <1>12 DEF IInv

LEMMA StutterInv == ASSUME IInv, UNCHANGED vars PROVE IInv'
<1>1. UNCHANGED <<senderVars, queryVars, redis, trail, known>>
  BY DEF vars, senderVars, queryVars
<1>2. StateType' /\ LevelLogInv' /\ LengthInv' /\ OnceInv' /\ KeptInv'
  BY <1>1, CallFrame
<1>3. QueryType' /\ PageInv' /\ AcceptedIsShown' /\ LevelsAreTheCallsOwn'
  BY <1>1, QueryFrame, TrailStands
<1> QED
  BY <1>2, <1>3 DEF IInv

\* The invariant is inductive.
LEMMA Step == ASSUME IInv, [Next]_vars PROVE IInv'
<1>1. ASSUME NEW c \in Calls, Log(c) \/ CallStep(c) PROVE IInv'
  BY <1>1, LogInv, SendInv, SendEndsInv, LogAccessInv, TrimInv, SubmitInv DEF CallStep
<1>2. ASSUME NEW ch \in Chains, Mine(ch) PROVE IInv'
  BY <1>2, MineInv
<1>3. ASSUME NEW q \in Queries, StartQuery(q) \/ QueryStep(q) PROVE IInv'
  BY <1>3, StartQueryInv, ReadPageInv, MergePendingInv, AnswerQueryInv DEF QueryStep
<1>4. CASE GatewayCrash
  BY <1>4, GatewayCrashInv
<1>5. CASE BlockchainCrash
  BY <1>5, BlockchainCrashInv
<1>6. CASE UNCHANGED vars
  BY <1>6, StutterInv
<1> QED
  BY <1>1, <1>2, <1>3, <1>4, <1>5, <1>6 DEF Next

LEMMA Inductive == Spec => []IInv
<1>1. Init => IInv
  BY InitInv
<1>2. IInv /\ [Next]_vars => IInv'
  BY Step
<1> QED
  BY <1>1, <1>2, PTL DEF Spec

-----------------------------------------------------------------------------

\* What a query has read page by page is a prefix of its chain's log, whatever
\* was appended between the pages.
THEOREM PagesJoin == Spec => []PagesAreConsistent
<1>1. IInv => PagesAreConsistent
  <2> SUFFICES ASSUME IInv, NEW q \in Queries
               PROVE  /\ Len(raw[q]) <= Len(trail[ChainOf[q]])
                      /\ raw[q] = SubSeq(trail[ChainOf[q]], 1, Len(raw[q]))
    BY DEF PagesAreConsistent
  <2> DEFINE log == trail[ChainOf[q]]
             n == Len(raw[q])
  <2>1. log \in Seq(Calls) /\ raw[q] \in Seq(Calls) /\ n \in Nat
    BY Constants DEF IInv, StateType, QueryType
  <2>2. n <= Len(log) /\ \A i \in 1 .. n : raw[q][i] = log[i]
    BY <2>1 DEF IInv, PageInv
  <2>3. \A i \in 1 .. n : log[i] \in Calls
    BY <2>1, <2>2
  <2> HIDE DEF log
  <2>4. /\ SubSeq(log, 1, n) \in Seq(Calls) /\ Len(SubSeq(log, 1, n)) = n
        /\ \A i \in 1 .. n : SubSeq(log, 1, n)[i] = log[i]
    <3>1. /\ SubSeq(log, 1, n) \in Seq(Calls)
          /\ Len(SubSeq(log, 1, n)) = IF 1 <= n THEN n - 1 + 1 ELSE 0
          /\ \A i \in 1 .. n - 1 + 1 : SubSeq(log, 1, n)[i] = log[1 + i - 1]
      <4> HIDE DEF n
      <4> QED
        BY <2>1, <2>3, SubSeqProperties
    <3> QED
      BY <2>1, <3>1
  <2>5. raw[q] = SubSeq(log, 1, n)
    <3> HIDE DEF n
    <3>1. Len(raw[q]) = n
      BY DEF n
    <3> QED
      BY <2>1, <2>2, <2>4, <3>1, SeqEqual
  <2> QED
    BY <2>2, <2>5 DEF log
<1> QED
  BY <1>1, Inductive, PTL

\* A call the node had when a query began is in the answer, on the chain or as
\* pending: it cannot fall between the two logs, read one after the other.
THEOREM NothingFallsBetween == Spec => []AcceptedIsShown
<1>1. IInv => AcceptedIsShown
  BY DEF IInv
<1> QED
  BY <1>1, Inductive, PTL

\* An entry whose key is its own is shown with the level of its own call.
THEOREM OwnLevels == Spec => []LevelsAreTheCallsOwn
<1>1. IInv => LevelsAreTheCallsOwn
  BY DEF IInv
<1> QED
  BY <1>1, Inductive, PTL

-----------------------------------------------------------------------------
(* Type correctness: what a query answers with, and the bounds.            *)

Steps == {"idle", "paging", "merging", "levels", "answered", "over"}
Shown == [call : Calls, level : Levels]

AnswerType ==
  /\ \A q \in Queries : /\ qpc[q] \in Steps
                        /\ pages[q] <= MaxPages
                        /\ qpc[q] \in {"idle", "paging"} => pages[q] < MaxPages
                        /\ SetOf(shown[q]) \subseteq Shown
  /\ inMemory \subseteq Calls
  /\ excused \in [Queries -> SUBSET Calls] /\ pending \in [Queries -> SUBSET Calls]
  /\ crashes \in Nat /\ crashes <= MaxCrashes

LEMMA Bounds == MaxPages \in Nat \ {0} /\ MaxCrashes \in Nat
  BY AuditAssumption

LEMMA AnswerTypeStart == ASSUME Init PROVE AnswerType
<1>1. \A q \in Queries : SetOf(shown[q]) = {}
  BY DEF Init, SetOf
<1> QED
  BY <1>1, Bounds DEF Init, AnswerType, Steps

\* The steps of the calls leave the queries alone.
LEMMA CallsType ==
  ASSUME AnswerType, UNCHANGED queryVars, inMemory' \subseteq Calls,
         crashes' \in Nat, crashes' <= MaxCrashes
  PROVE  AnswerType'
  BY DEF AnswerType, queryVars

LEMMA CallStepType ==
  ASSUME AnswerType, NEW c \in Calls, Log(c) \/ CallStep(c)
  PROVE  AnswerType'
<1>1. UNCHANGED queryVars /\ UNCHANGED crashes
  BY DEF Log, CallStep, Send, SendEnds, LogAccess, Trim, Submit
<1>2. inMemory' \in {inMemory, inMemory \cup {c}}
  BY DEF Log, CallStep, Send, SendEnds, LogAccess, Trim, Submit
<1> QED
  BY <1>1, <1>2, CallsType DEF AnswerType

LEMMA MineType == ASSUME AnswerType, NEW ch \in Chains, Mine(ch) PROVE AnswerType'
  BY CallsType DEF Mine, AnswerType

LEMMA GatewayCrashType == ASSUME AnswerType, GatewayCrash PROVE AnswerType'
<1>1. crashes' \in Nat /\ crashes' <= MaxCrashes
  BY Bounds DEF GatewayCrash, AnswerType
<1> QED
  BY <1>1, CallsType DEF GatewayCrash, AnswerType

LEMMA BlockchainCrashType == ASSUME AnswerType, BlockchainCrash PROVE AnswerType'
<1>1. crashes' \in Nat /\ crashes' <= MaxCrashes
  BY Bounds DEF BlockchainCrash, AnswerType
<1>2. \A q \in Queries : qpc'[q] \in {"idle", "over"} /\ (qpc'[q] = "idle" => qpc[q] = "idle")
  BY DEF BlockchainCrash
<1> QED
  BY <1>1, <1>2 DEF BlockchainCrash, AnswerType, Steps

\* One query moves, and nothing else.
LEMMA QueriesType ==
  ASSUME QueryType, AnswerType, UNCHANGED senderVars, NEW q \in Queries, NEW to \in Steps,
         qpc' = [qpc EXCEPT ![q] = to],
         \A p \in Queries \ {q} : pages'[p] = pages[p] /\ shown'[p] = shown[p],
         pages'[q] <= MaxPages, to \in {"idle", "paging"} => pages'[q] < MaxPages,
         SetOf(shown'[q]) \subseteq Shown,
         excused' \in [Queries -> SUBSET Calls], pending' \in [Queries -> SUBSET Calls]
  PROVE  AnswerType'
<1>1. qpc'[q] = to /\ \A p \in Queries \ {q} : qpc'[p] = qpc[p]
  BY DEF QueryType
<1>2. \A p \in Queries : /\ qpc'[p] \in Steps
                         /\ pages'[p] <= MaxPages
                         /\ qpc'[p] \in {"idle", "paging"} => pages'[p] < MaxPages
                         /\ SetOf(shown'[p]) \subseteq Shown
  BY <1>1 DEF AnswerType
<1> QED
  BY <1>2 DEF AnswerType, senderVars

LEMMA StartQueryType ==
  ASSUME IInv, AnswerType, NEW q \in Queries, StartQuery(q)
  PROVE  AnswerType'
  BY QueriesType DEF StartQuery, IInv, AnswerType, Steps

LEMMA ReadPageType ==
  ASSUME IInv, AnswerType, NEW q \in Queries, ReadPage(q)
  PROVE  AnswerType'
<1>1. /\ pages[q] \in Nat /\ pages[q] < MaxPages /\ qpc[q] = "paging"
      /\ pages'[q] = pages[q] + 1 /\ \A p \in Queries \ {q} : pages'[p] = pages[p]
  BY DEF ReadPage, IInv, QueryType, AnswerType
<1>2. pages'[q] <= MaxPages /\ (pages[q] + 1 # MaxPages => pages'[q] < MaxPages)
  BY <1>1, Bounds
<1>3. PICK to \in {"merging", "paging"} :
        /\ qpc' = [qpc EXCEPT ![q] = to]
        /\ to = "paging" => pages[q] + 1 # MaxPages
  <2> DEFINE to == IF Len(getAllAccessLogs(ChainOf[q], pages[q])) < PageLimit
                        \/ pages[q] + 1 = MaxPages THEN "merging" ELSE "paging"
  <2>1. qpc' = [qpc EXCEPT ![q] = to]
    BY <1>1 DEF ReadPage, IInv, QueryType
  <2> QED
    BY <2>1
<1>4. /\ UNCHANGED <<senderVars, shown, excused, pending>>
      /\ SetOf(shown[q]) \subseteq Shown
      /\ excused \in [Queries -> SUBSET Calls] /\ pending \in [Queries -> SUBSET Calls]
  BY DEF ReadPage, AnswerType
<1> QED
  BY <1>1, <1>2, <1>3, <1>4, QueriesType DEF IInv, Steps

LEMMA EntriesType ==
  ASSUME IInv, NEW q \in Queries, NEW entries \in audit_entries(q)
  PROVE  entries \in Seq(Calls) /\ SetOf(entries) \subseteq Calls
<1>1. entries = redis \/ entries = deque
  BY DEF audit_entries
<1>2. entries \in Seq(Calls)
  BY <1>1 DEF IInv, LevelLogInv, LevelLog
<1> QED
  BY <1>2, SetsOf

LEMMA MergePendingType ==
  ASSUME IInv, AnswerType, NEW q \in Queries, MergePending(q)
  PROVE  AnswerType'
<1>1. PICK entries \in audit_entries(q) : \E young \in SUBSET SetOf(entries) :
        /\ excused' = [excused EXCEPT ![q] =
             IF entries = redis THEN (SetOf(redis) \ young) \cup inMemory ELSE Calls]
        /\ pending' = [pending EXCEPT ![q] = {c \in young : KeyOf[c] \notin onchain_keys(q)}]
  BY DEF MergePending
<1>2. SetOf(entries) \subseteq Calls /\ SetOf(redis) \subseteq Calls
  BY EntriesType DEF audit_entries
<1>3. excused' \in [Queries -> SUBSET Calls] /\ pending' \in [Queries -> SUBSET Calls]
  BY <1>1, <1>2 DEF AnswerType
<1>4. /\ UNCHANGED <<senderVars, shown, pages>> /\ qpc' = [qpc EXCEPT ![q] = "levels"]
      /\ pages[q] <= MaxPages /\ SetOf(shown[q]) \subseteq Shown
  BY DEF MergePending, AnswerType
<1> QED
  BY <1>3, <1>4, QueriesType DEF IInv, Steps

\* Some entry of a key is the oldest: a set of numbers has a smallest one.
LEMMA LeastOf ==
  ASSUME NEW S, S \subseteq Nat, S # {}
  PROVE  \E x \in S : \A y \in S : x <= y
<1> DEFINE R == OpToRel(<, Nat)
<1>1. IsWellFoundedOn(R, Nat)
  BY NatLessThanWellFounded
<1>2. R = {r \in Nat \X Nat : r[1] < r[2]}
  BY DEF OpToRel
<1> HIDE DEF R
<1>3. PICK x \in S : \A y \in S : <<y, x>> \notin R
  BY <1>1, WFMin
<1>4. \A y \in S : ~(y < x)
  BY <1>2, <1>3
<1> QED
  BY <1>3, <1>4

LEMMA LargestOf ==
  ASSUME NEW n \in Nat, NEW S, S \subseteq 1 .. n, S # {}
  PROVE  \E i \in S : \A j \in S : j <= i
<1> DEFINE ages == {n - i : i \in S}
<1>1. \A i \in S : n - i \in Nat
  OBVIOUS
<1>2. ages \subseteq Nat /\ ages # {}
  BY <1>1
<1>3. PICK i \in S : \A y \in ages : n - i <= y
  BY <1>2, LeastOf
<1>4. ASSUME NEW j \in S PROVE j <= i
  <2>1. n - i <= n - j
    BY <1>3
  <2> QED
    BY <2>1
<1> QED
  BY <1>4

LEMMA LevelType ==
  ASSUME NEW entries \in Seq(Calls), NEW c \in Calls
  PROVE  levelOf(entries, c) \in Levels
<1> DEFINE same == WithKey(entries, KeyOf[c])
           n == Len(entries)
<1>1. same \subseteq 1 .. n /\ n \in Nat
  BY DEF WithKey
<1>2. CASE same = {}
  BY <1>2 DEF levelOf, Levels
<1>3. CASE same # {}
  <2>1. \E i \in same : \A j \in same : j <= i
    BY <1>1, <1>3, LargestOf
  <2> DEFINE i == CHOOSE k \in same : \A j \in same : j <= k
  <2>2. i \in 1 .. n
    BY <1>1, <2>1
  <2>3. entries[i] \in Calls
    BY <2>2
  <2>4. levelOf(entries, c) = LevelOf[entries[i]]
    BY <1>3 DEF levelOf
  <2> QED
    BY <2>3, <2>4, Constants
<1> QED
  BY <1>2, <1>3

LEMMA AnswerQueryType ==
  ASSUME IInv, AnswerType, NEW q \in Queries, AnswerQuery(q)
  PROVE  AnswerType'
<1>1. PICK entries \in audit_entries(q) :
        shown' = [shown EXCEPT ![q] =
          [i \in DOMAIN newestPage(q) |->
             [call |-> newestPage(q)[i], level |-> levelOf(entries, newestPage(q)[i])]]]
  BY DEF AnswerQuery
<1>2. \A p \in Queries \ {q} : shown'[p] = shown[p]
  BY <1>1 DEF IInv, QueryType
<1>3. \A i \in DOMAIN newestPage(q) : newestPage(q)[i] \in Calls
  <2> SUFFICES ASSUME NEW i \in DOMAIN newestPage(q) PROVE newestPage(q)[i] \in Calls
    OBVIOUS
  <2>1. raw[q] \in Seq(Calls) /\ PageSize \in Nat
    BY Constants DEF IInv, QueryType
  <2>2. i \in 1 .. Len(raw[q]) /\ newestPage(q)[i] = raw[q][Len(raw[q]) + 1 - i]
    BY <2>1 DEF newestPage
  <2>3. Len(raw[q]) + 1 - i \in DOMAIN raw[q]
    BY <2>1, <2>2
  <2> QED
    BY <2>1, <2>2, <2>3
<1>4. \A i \in DOMAIN newestPage(q) : levelOf(entries, newestPage(q)[i]) \in Levels
  BY <1>3, EntriesType, LevelType
<1>5. SetOf(shown'[q]) \subseteq Shown
  <2>1. shown'[q] = [i \in DOMAIN newestPage(q) |->
             [call |-> newestPage(q)[i], level |-> levelOf(entries, newestPage(q)[i])]]
    BY <1>1 DEF IInv, QueryType
  <2> QED
    BY <1>3, <1>4, <2>1 DEF SetOf, Shown
<1>6. /\ UNCHANGED <<senderVars, pages, excused, pending>>
      /\ qpc' = [qpc EXCEPT ![q] = "answered"] /\ pages[q] <= MaxPages
      /\ excused \in [Queries -> SUBSET Calls] /\ pending \in [Queries -> SUBSET Calls]
  BY DEF AnswerQuery, AnswerType
<1> QED
  BY <1>2, <1>5, <1>6, QueriesType DEF IInv, Steps

LEMMA AnswerTypeStep == ASSUME IInv, AnswerType, [Next]_vars PROVE AnswerType'
<1>1. CASE UNCHANGED vars
  BY <1>1, CallsType DEF vars, senderVars, AnswerType
<1>2. ASSUME NEW q \in Queries, StartQuery(q) \/ QueryStep(q) PROVE AnswerType'
  BY <1>2, StartQueryType, ReadPageType, MergePendingType, AnswerQueryType DEF QueryStep
<1> QED
  BY <1>1, <1>2, CallStepType, MineType, GatewayCrashType, BlockchainCrashType DEF Next

\* The logs hold calls; Redis exceeds the limit of the level log by no more
\* than the entries pushed since it was last trimmed; and an answer shows calls,
\* each with one of the four levels.
THEOREM Typing == Spec => []TypeOK
<1> DEFINE Inv == IInv /\ AnswerType
<1>1. Init => Inv
  BY InitInv, AnswerTypeStart
<1>2. Inv /\ [Next]_vars => Inv'
  BY Step, AnswerTypeStep
<1>3. Inv => TypeOK
  <2> SUFFICES ASSUME IInv, AnswerType PROVE TypeOK
    OBVIOUS
  <2>1. /\ SetOf(redis) \cup SetOf(deque) \cup untrimmed \subseteq Calls
        /\ Len(redis) <= LevelCap + Cardinality(untrimmed) /\ Len(deque) <= LevelCap
    BY SetsOf DEF IInv, LevelLogInv, LevelLog, LengthInv
  <2>2. \A ch \in Chains : SetOf(mempool[ch]) \cup SetOf(trail[ch]) \subseteq Calls
    BY SetsOf DEF IInv, StateType
  <2>3. qpc \in [Queries -> Steps]
    BY DEF IInv, QueryType, AnswerType
  <2>4. \A q \in Queries : /\ SetOf(raw[q]) \subseteq Calls
                           /\ pages[q] \in 0 .. MaxPages
                           /\ SetOf(shown[q]) \subseteq Shown
    BY SetsOf, Bounds DEF IInv, QueryType, AnswerType
  <2>5. crashes \in 0 .. MaxCrashes
    BY Bounds DEF AnswerType
  <2> QED
    BY <2>1, <2>2, <2>3, <2>4, <2>5 DEF TypeOK, IInv, StateType, QueryType, AnswerType, Steps, Shown
<1> QED
  BY <1>1, <1>2, <1>3, PTL DEF Spec
=============================================================================
