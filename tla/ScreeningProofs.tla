---------------------------- MODULE ScreeningProofs ----------------------------
(***************************************************************************)
(* That the screening of an upload is right, for any kinds of files, any   *)
(* traces of the targets and however slow docker is: the order of docker   *)
(* calls, the container's life and the gateway's patience fit together,    *)
(* and no score but what is in a file decides whether it is blocked.       *)
(***************************************************************************)
EXTENDS Screening, WellFoundedInduction, TLAPS

-----------------------------------------------------------------------------
(* Scores.                                                                 *)

\* A set of numbers that is not empty has a smallest one: induction in the
\* form the provers can use.
LEMMA LeastOf ==
  ASSUME NEW S, S \subseteq Nat, S # {}
  PROVE  \E x \in S : \A y \in S : x <= y
<1> DEFINE R == OpToRel(<, Nat)
<1>1. IsWellFoundedOn(R, Nat)
  BY NatLessThanWellFounded
<1>2. R = {r \in Nat \X Nat : r[1] < r[2]}
  BY DEF OpToRel
<1> HIDE DEF R
<1>3. PICK x \in S : \A y \in S : <<y, x>> \notin R
  BY <1>1, WFMin
<1>4. \A y \in S : ~(y < x)
  BY <1>2, <1>3
<1> QED
  BY <1>3, <1>4

LEMMA SetInduction ==
  ASSUME NEW S, 0 \in S, \A n \in Nat : n \in S => n + 1 \in S
  PROVE  Nat \subseteq S
<1> SUFFICES ASSUME NEW m \in Nat, m \notin S PROVE FALSE
  OBVIOUS
<1>1. PICK x \in {n \in Nat : n \notin S} : \A y \in {n \in Nat : n \notin S} : x <= y
  BY LeastOf
<1>2. x - 1 \in Nat /\ x - 1 \in S
  BY <1>1
<1> QED
  BY <1>1, <1>2

\* What a loop that adds up does: the partial sums exist.
LEMMA PartialSums ==
  ASSUME NEW v, \A k \in Nat : v[k] \in Nat
  PROVE  \A n \in Nat : \E s \in [0 .. n -> Nat] :
           \A k \in 0 .. n : s[k] = IF k = 0 THEN 0 ELSE s[k - 1] + v[k]
<1> DEFINE Sums(n, s) == \A k \in 0 .. n : s[k] = IF k = 0 THEN 0 ELSE s[k - 1] + v[k]
           Summed == {n \in Nat : \E s \in [0 .. n -> Nat] : Sums(n, s)}
<1>1. 0 \in Summed
  <2>1. Sums(0, [k \in 0 .. 0 |-> 0])
    OBVIOUS
  <2> QED
    BY <2>1
<1>2. ASSUME NEW n \in Nat, n \in Summed PROVE n + 1 \in Summed
  <2>1. PICK s \in [0 .. n -> Nat] : Sums(n, s)
    BY <1>2
  <2> DEFINE longer == [k \in 0 .. n + 1 |-> IF k = n + 1 THEN s[n] + v[n + 1] ELSE s[k]]
  <2>2. longer \in [0 .. n + 1 -> Nat]
    OBVIOUS
  <2>3. ASSUME NEW k \in 0 .. n + 1
        PROVE  longer[k] = IF k = 0 THEN 0 ELSE longer[k - 1] + v[k]
    <3>1. CASE k = n + 1
      BY <3>1
    <3>2. CASE k \in 0 .. n
      BY <2>1, <3>2
    <3> QED
      BY <3>1, <3>2
  <2>4. Sums(n + 1, longer) /\ n + 1 \in Nat
    BY <2>3
  <2> HIDE DEF longer, Sums
  <2> QED
    BY <2>2, <2>4
<1> HIDE DEF Summed
<1>3. Nat \subseteq Summed
  BY <1>1, <1>2, SetInduction
<1> QED
  BY <1>3 DEF Summed

-----------------------------------------------------------------------------
(* Scores.                                                                 *)

\* A file with the same facts and perhaps more against it.
NoLess(f, g) ==
  /\ g.ext = f.ext /\ g.head = f.head /\ g.eicar = f.eicar
  /\ f.entropy <= g.entropy /\ f.marks \subseteq g.marks /\ f.strings <= g.strings
  /\ f.high <= g.high /\ f.medium <= g.medium
  /\ g.archive.kind = f.archive.kind /\ g.archive.oversized = f.archive.oversized
  /\ g.archive.texts = f.archive.texts /\ f.archive.executables <= g.archive.executables

LEMMA Capped ==
  ASSUME NEW cap \in Nat, NEW a \in Nat, NEW b \in Nat, a <= b
  PROVE  /\ AtMost(cap, a) \in Nat /\ AtMost(cap, a) <= cap
         /\ AtMost(cap, b) \in Nat /\ AtMost(cap, b) <= cap
         /\ AtMost(cap, a) <= AtMost(cap, b)
  BY DEF AtMost

LEMMA CappedUnit ==
  ASSUME NEW a \in Nat, NEW b \in Nat, a <= b
  PROVE  /\ AtMost(Unit, a) \in Nat /\ AtMost(Unit, a) <= Unit
         /\ AtMost(Unit, b) \in Nat /\ AtMost(Unit, b) <= Unit
         /\ AtMost(Unit, a) <= AtMost(Unit, b)
  BY DEF AtMost, Unit

LEMMA PatternGrows ==
  ASSUME NEW h \in Nat, NEW m \in Nat, NEW i \in Nat, NEW n \in Nat, h <= i, m <= n
  PROVE  /\ patternScore(h, m) \in Nat /\ patternScore(i, n) \in Nat
         /\ patternScore(h, m) <= patternScore(i, n)
<1>1. /\ AtMost(6000, 3000 * h) \in Nat /\ AtMost(6000, 3000 * i) \in Nat
      /\ AtMost(6000, 3000 * h) <= AtMost(6000, 3000 * i)
  BY Capped
<1>2. /\ AtMost(4500, 1500 * m) \in Nat /\ AtMost(4500, 1500 * n) \in Nat
      /\ AtMost(4500, 1500 * m) <= AtMost(4500, 1500 * n)
  BY Capped
<1> QED
  BY <1>1, <1>2 DEF patternScore

LEMMA ElfGrows ==
  ASSUME NEW f \in FileFacts, NEW g \in FileFacts, NoLess(f, g)
  PROVE  elfScore(f) \in Nat /\ elfScore(g) \in Nat /\ elfScore(f) <= elfScore(g)
<1> DEFINE infects(h) == {"walk", "write"} \subseteq h.marks
           spread(h) == IF infects(h) /\ "replicate" \in h.marks THEN 7500
                        ELSE IF infects(h) THEN 3500 ELSE 0
           traces(h) == IF "ptrace" \in h.marks THEN 2000 ELSE 0
           memory(h) == IF "procmem" \in h.marks THEN 2500 ELSE 0
<1>1. spread(f) \in Nat /\ spread(g) \in Nat /\ spread(f) <= spread(g)
  BY DEF NoLess
<1>2. traces(f) \in Nat /\ traces(g) \in Nat /\ traces(f) <= traces(g)
  BY DEF NoLess
<1>3. memory(f) \in Nat /\ memory(g) \in Nat /\ memory(f) <= memory(g)
  BY DEF NoLess
<1>4. /\ elfScore(f) = IF f.head # "elf" THEN 0 ELSE AtMost(9000, spread(f) + traces(f) + memory(f))
      /\ elfScore(g) = IF g.head # "elf" THEN 0 ELSE AtMost(9000, spread(g) + traces(g) + memory(g))
  BY DEF elfScore
<1> HIDE DEF spread, traces, memory
<1>5. /\ spread(f) + traces(f) + memory(f) \in Nat /\ spread(g) + traces(g) + memory(g) \in Nat
      /\ spread(f) + traces(f) + memory(f) <= spread(g) + traces(g) + memory(g)
  BY <1>1, <1>2, <1>3
<1> DEFINE sf == spread(f) + traces(f) + memory(f)
           sg == spread(g) + traces(g) + memory(g)
<1>6. elfScore(f) = IF f.head # "elf" THEN 0 ELSE AtMost(9000, sf)
  BY <1>4
<1>7. elfScore(g) = IF f.head # "elf" THEN 0 ELSE AtMost(9000, sg)
  BY <1>4 DEF NoLess
<1>8. sf \in Nat /\ sg \in Nat /\ sf <= sg
  BY <1>5
<1> HIDE DEF sf, sg
<1>9. /\ AtMost(9000, sf) \in Nat /\ AtMost(9000, sg) \in Nat
      /\ AtMost(9000, sf) <= AtMost(9000, sg)
  BY <1>8, Capped
<1> QED
  BY <1>6, <1>7, <1>9

LEMMA ImportGrows ==
  ASSUME NEW f \in FileFacts, NEW g \in FileFacts, NoLess(f, g)
  PROVE  importScore(f) \in Nat /\ importScore(g) \in Nat /\ importScore(f) <= importScore(g)
<1> DEFINE a(h) == IF "inject" \in h.marks THEN 3500 ELSE 0
           b(h) == IF "autorun" \in h.marks THEN 2500 ELSE 0
           c(h) == IF "encrypt" \in h.marks THEN 3000 ELSE 0
           d(h) == IF "debugger" \in h.marks THEN 1500 ELSE 0
<1>1. a(f) \in Nat /\ a(g) \in Nat /\ a(f) <= a(g)
  BY DEF NoLess
<1>2. b(f) \in Nat /\ b(g) \in Nat /\ b(f) <= b(g)
  BY DEF NoLess
<1>3. c(f) \in Nat /\ c(g) \in Nat /\ c(f) <= c(g)
  BY DEF NoLess
<1>4. d(f) \in Nat /\ d(g) \in Nat /\ d(f) <= d(g)
  BY DEF NoLess
<1>5. /\ importScore(f) = AtMost(9000, a(f) + b(f) + c(f) + d(f))
      /\ importScore(g) = AtMost(9000, a(g) + b(g) + c(g) + d(g))
  BY DEF importScore
<1> HIDE DEF a, b, c, d
<1>6. /\ a(f) + b(f) + c(f) + d(f) \in Nat /\ a(g) + b(g) + c(g) + d(g) \in Nat
      /\ a(f) + b(f) + c(f) + d(f) <= a(g) + b(g) + c(g) + d(g)
  BY <1>1, <1>2, <1>3, <1>4
<1> QED
  BY <1>5, <1>6, Capped

LEMMA PEGrows ==
  ASSUME NEW f \in FileFacts, NEW g \in FileFacts, NoLess(f, g)
  PROVE  peScore(f) \in Nat /\ peScore(g) \in Nat /\ peScore(f) <= peScore(g)
<1> DEFINE packed(h) == IF h.entropy >= Packed THEN 4000 ELSE 1000
<1>1. packed(f) \in Nat /\ packed(g) \in Nat /\ packed(f) <= packed(g)
  BY DEF NoLess, FileFacts, Packed
<1>2. IsPE(f) <=> IsPE(g)
  BY DEF NoLess, IsPE
<1>3. /\ peScore(f) = IF IsPE(f) THEN packed(f) + importScore(f) ELSE 0
      /\ peScore(g) = IF IsPE(g) THEN packed(g) + importScore(g) ELSE 0
  BY Zenon DEF peScore
<1> HIDE DEF packed
<1> QED
  BY <1>1, <1>2, <1>3, ImportGrows

LEMMA MachOGrows ==
  ASSUME NEW f \in FileFacts, NEW g \in FileFacts, NoLess(f, g)
  PROVE  machoScore(f) \in Nat /\ machoScore(g) \in Nat /\ machoScore(f) <= machoScore(g)
<1> DEFINE loads(h) == IF "loader" \in h.marks THEN 2500 ELSE 0
           calls(h) == AtMost(6000, 2000 * h.strings)
<1>1. loads(f) \in Nat /\ loads(g) \in Nat /\ loads(f) <= loads(g)
  BY DEF NoLess
<1>2. calls(f) \in Nat /\ calls(g) \in Nat /\ calls(f) <= calls(g)
  <2>1. f.strings \in Nat /\ g.strings \in Nat /\ f.strings <= g.strings
    BY DEF FileFacts, NoLess
  <2>2. 2000 * f.strings \in Nat /\ 2000 * g.strings \in Nat /\ 2000 * f.strings <= 2000 * g.strings
    BY <2>1
  <2> DEFINE a == 2000 * f.strings
             b == 2000 * g.strings
  <2>3. calls(f) = AtMost(6000, a) /\ calls(g) = AtMost(6000, b)
    OBVIOUS
  <2>4. a \in Nat /\ b \in Nat /\ a <= b
    BY <2>2
  <2> HIDE DEF a, b, calls
  <2> QED
    BY <2>3, <2>4, Capped
<1>3. /\ machoScore(f) = IF f.head # "macho" THEN 0 ELSE AtMost(9000, 1500 + loads(f) + calls(f))
      /\ machoScore(g) = IF g.head # "macho" THEN 0 ELSE AtMost(9000, 1500 + loads(g) + calls(g))
  BY DEF machoScore
<1> HIDE DEF loads, calls
<1>4. /\ 1500 + loads(f) + calls(f) \in Nat /\ 1500 + loads(g) + calls(g) \in Nat
      /\ 1500 + loads(f) + calls(f) <= 1500 + loads(g) + calls(g)
  BY <1>1, <1>2
<1> QED
  BY <1>3, <1>4, Capped DEF NoLess

LEMMA EntropyGrows ==
  ASSUME NEW f \in FileFacts, NEW g \in FileFacts, NoLess(f, g)
  PROVE  entropyScore(f) \in Nat /\ entropyScore(g) \in Nat /\ entropyScore(f) <= entropyScore(g)
  BY DEF entropyScore, NoLess, FileFacts, Random, Dense

LEMMA TextScoreType == ASSUME NEW t \in Texts PROVE textScore(t) \in Nat
<1>1. t.high \in Nat /\ t.medium \in Nat
  BY DEF Texts
<1>2. patternScore(t.high, t.medium) \in Nat
  BY <1>1 DEF patternScore, AtMost
<1> HIDE DEF patternScore
<1> QED
  BY <1>2 DEF textScore, Unit

\* The loop over the texts of an archive adds up to a score.
LEMMA TextsScoreType == ASSUME NEW texts \in Seq(Texts) PROVE textsScore(texts) \in Nat
<1> DEFINE n == Len(texts)
           v == [k \in Nat |-> IF k \in 1 .. n THEN textScore(texts[k]) ELSE 0]
           IsScore(s) == s = [k \in 0 .. n |-> IF k = 0 THEN 0 ELSE s[k - 1] + textScore(texts[k])]
           score == CHOOSE s : IsScore(s)
<1>1. n \in Nat /\ \A k \in 1 .. n : textScore(texts[k]) \in Nat
  BY TextScoreType
<1>2. \A k \in Nat : v[k] \in Nat
  BY <1>1
<1>3. \A k \in 1 .. n : v[k] = textScore(texts[k])
  BY <1>1
<1> HIDE DEF v, n
<1>4. PICK s \in [0 .. n -> Nat] :
        \A k \in 0 .. n : s[k] = IF k = 0 THEN 0 ELSE s[k - 1] + v[k]
  BY <1>1, <1>2, PartialSums
<1>5. IsScore(s)
  BY <1>1, <1>3, <1>4
<1>6. IsScore(score)
  BY <1>5
<1>7. textsScore(texts) = score[n]
  BY DEF textsScore, n
<1> HIDE DEF score
<1>8. \A k \in 0 .. n : score[k] = IF k = 0 THEN 0 ELSE score[k - 1] + textScore(texts[k])
  BY <1>6
<1> DEFINE Natural == {k \in Nat : k \in 0 .. n => score[k] \in Nat}
<1>9. 0 \in Natural
  BY <1>1, <1>8
<1>10. ASSUME NEW k \in Nat, k \in Natural PROVE k + 1 \in Natural
  <2>1. CASE k + 1 \in 0 .. n
    <3>1. k \in 0 .. n /\ k + 1 \in 1 .. n
      BY <1>1, <2>1
    <3>2. score[k + 1] = score[k] + textScore(texts[k + 1])
      BY <1>8, <2>1, <3>1
    <3>3. score[k] \in Nat
      BY <1>10, <3>1
    <3> QED
      BY <1>1, <3>1, <3>2, <3>3
  <2> QED
    BY <2>1
<1> HIDE DEF Natural
<1>11. n \in Natural
  BY <1>1, <1>9, <1>10, SetInduction
<1> QED
  BY <1>1, <1>7, <1>11 DEF Natural

-----------------------------------------------------------------------------
(* Contents.                                                               *)

LEMMA ArchiveGrows ==
  ASSUME NEW f \in FileFacts, NEW g \in FileFacts, NoLess(f, g)
  PROVE  /\ archiveScore(f.archive) \in Nat /\ archiveScore(f.archive) <= Unit
         /\ archiveScore(g.archive) \in Nat /\ archiveScore(g.archive) <= Unit
         /\ archiveScore(f.archive) <= archiveScore(g.archive)
<1> DEFINE names(a) == IF a.kind # "container" \/ a.executables = 0 THEN 0
                       ELSE IF a.executables >= 2 THEN 8000 ELSE 7000
           found == \E k \in DOMAIN Read(f.archive) : Read(f.archive)[k].high >= 3
           texts == textsScore(Read(f.archive))
<1>1. f.archive \in Archives /\ g.archive \in Archives
  BY DEF FileFacts
<1>2. names(f.archive) \in Nat /\ names(g.archive) \in Nat /\ names(f.archive) <= names(g.archive)
  BY <1>1 DEF NoLess, Archives
<1>3. Read(g.archive) = Read(f.archive)
  BY DEF NoLess, Read
<1>4. Read(f.archive) \in Seq(Texts)
  BY <1>1 DEF Read, Archives
<1>5. texts \in Nat
  BY <1>4, TextsScoreType
<1>6. archiveScore(f.archive) = IF found THEN Unit ELSE AtMost(Unit, names(f.archive) + texts)
  BY DEF archiveScore
<1>7. archiveScore(g.archive) = IF found THEN Unit ELSE AtMost(Unit, names(g.archive) + texts)
  BY <1>3 DEF archiveScore
<1> HIDE DEF names, found, texts
<1> DEFINE sf == names(f.archive) + texts
           sg == names(g.archive) + texts
<1>8. sf \in Nat /\ sg \in Nat /\ sf <= sg
  BY <1>2, <1>5
<1> HIDE DEF sf, sg
<1>9. /\ AtMost(Unit, sf) \in Nat /\ AtMost(Unit, sf) <= Unit
      /\ AtMost(Unit, sg) \in Nat /\ AtMost(Unit, sg) <= Unit
      /\ AtMost(Unit, sf) <= AtMost(Unit, sg)
  BY <1>8, CappedUnit
<1>10. archiveScore(f.archive) = IF found THEN Unit ELSE AtMost(Unit, sf)
  BY <1>6 DEF sf
<1>11. archiveScore(g.archive) = IF found THEN Unit ELSE AtMost(Unit, sg)
  BY <1>7 DEF sg
<1>12. Unit \in Nat
  BY DEF Unit
<1> QED
  BY <1>9, <1>10, <1>11, <1>12

\* The evidence of a file that is no archive adds up.
LEMMA PartsGrow ==
  ASSUME NEW f \in FileFacts, NEW g \in FileFacts, NoLess(f, g)
  PROVE  LET parts(h) == entropyScore(h) + elfScore(h) + peScore(h) + machoScore(h)
                           + patternScore(h.high, h.medium)
         IN  parts(f) \in Nat /\ parts(g) \in Nat /\ parts(f) <= parts(g)
<1>1. entropyScore(f) \in Nat /\ entropyScore(g) \in Nat /\ entropyScore(f) <= entropyScore(g)
  BY EntropyGrows
<1>2. elfScore(f) \in Nat /\ elfScore(g) \in Nat /\ elfScore(f) <= elfScore(g)
  BY ElfGrows
<1>3. peScore(f) \in Nat /\ peScore(g) \in Nat /\ peScore(f) <= peScore(g)
  BY PEGrows
<1>4. machoScore(f) \in Nat /\ machoScore(g) \in Nat /\ machoScore(f) <= machoScore(g)
  BY MachOGrows
<1>5. /\ f.high \in Nat /\ g.high \in Nat /\ f.medium \in Nat /\ g.medium \in Nat
      /\ f.high <= g.high /\ f.medium <= g.medium
  BY DEF FileFacts, NoLess
<1>6. /\ patternScore(f.high, f.medium) \in Nat /\ patternScore(g.high, g.medium) \in Nat
      /\ patternScore(f.high, f.medium) <= patternScore(g.high, g.medium)
  BY <1>5, PatternGrows
<1> QED
  BY <1>1, <1>2, <1>3, <1>4, <1>6

\* The score of a content is between 0 and 1, and grows with the evidence.
LEMMA ContentGrows ==
  ASSUME NEW f \in FileFacts, NEW g \in FileFacts, NoLess(f, g)
  PROVE  /\ contentScore(f) \in Nat /\ contentScore(f) <= Unit
         /\ contentScore(g) \in Nat /\ contentScore(g) <= Unit
         /\ contentScore(f) <= contentScore(g)
<1> DEFINE parts(h) == entropyScore(h) + elfScore(h) + peScore(h) + machoScore(h)
                         + patternScore(h.high, h.medium)
           plain(h) == IF h.high >= 3 THEN Unit ELSE AtMost(Unit, parts(h))
<1>1. /\ f.high \in Nat /\ g.high \in Nat /\ f.medium \in Nat /\ g.medium \in Nat
      /\ f.high <= g.high /\ f.medium <= g.medium
  BY DEF FileFacts, NoLess
<1>2. parts(f) \in Nat /\ parts(g) \in Nat /\ parts(f) <= parts(g)
  BY PartsGrow
<1>3. \A h : contentScore(h) = IF h.eicar THEN Unit
                               ELSE IF h.ext = "archive" THEN archiveScore(h.archive) ELSE plain(h)
  BY DEF contentScore
<1> DEFINE pf == parts(f)
           pg == parts(g)
<1>4. /\ plain(f) = IF f.high >= 3 THEN Unit ELSE AtMost(Unit, pf)
      /\ plain(g) = IF g.high >= 3 THEN Unit ELSE AtMost(Unit, pg)
      /\ pf \in Nat /\ pg \in Nat /\ pf <= pg
  BY <1>2
<1> HIDE DEF parts, plain, pf, pg
<1>5. /\ AtMost(Unit, pf) \in Nat /\ AtMost(Unit, pf) <= Unit
      /\ AtMost(Unit, pg) \in Nat /\ AtMost(Unit, pg) <= Unit
      /\ AtMost(Unit, pf) <= AtMost(Unit, pg)
  BY <1>4, CappedUnit
<1>6. /\ plain(f) \in Nat /\ plain(f) <= Unit /\ plain(g) \in Nat /\ plain(g) <= Unit
      /\ plain(f) <= plain(g)
  <2>1. Unit \in Nat
    BY DEF Unit
  <2> QED
    BY <1>1, <1>4, <1>5, <2>1
<1>7. Unit \in Nat
  BY DEF Unit
<1>8. /\ archiveScore(f.archive) \in Nat /\ archiveScore(f.archive) <= Unit
      /\ archiveScore(g.archive) \in Nat /\ archiveScore(g.archive) <= Unit
      /\ archiveScore(f.archive) <= archiveScore(g.archive)
  BY ArchiveGrows
<1>9. g.eicar = f.eicar /\ g.ext = f.ext
  BY DEF NoLess
<1>10. CASE f.eicar
  <2>1. contentScore(f) = Unit /\ contentScore(g) = Unit
    BY <1>9, <1>10 DEF contentScore
  <2> QED
    BY <1>7, <2>1
<1>11. CASE ~f.eicar /\ f.ext = "archive"
  BY <1>3, <1>8, <1>9, <1>11
<1>12. CASE ~f.eicar /\ f.ext # "archive"
  BY <1>3, <1>6, <1>9, <1>12
<1> QED
  BY <1>10, <1>11, <1>12

\* What blocks a file: a match of YARA, or a content score of .65, whatever the
\* weights and the user's behaviour make of it.
LEMMA BlocksIff ==
  ASSUME NEW f \in FileFacts, NEW m \in Matches, NEW b \in 0 .. Unit
  PROVE  blocks(f, m, b) <=> m # "none" \/ contentScore(f) >= 6500
<1> DEFINE c == contentScore(f)
           y == yaraScore(m)
           e == ensemble(f, m, b)
<1>1. c \in Nat /\ c <= 10000
  <2>1. NoLess(f, f)
    BY DEF NoLess, FileFacts, Archives
  <2> QED
    BY <2>1, ContentGrows DEF Unit
<1>2. y = IF m = "god_mode" THEN 10000 ELSE IF m = "signature" THEN 9000 ELSE 0
  BY DEF yaraScore, Unit
<1>3. \/ e = Larger(100 * Larger(c, y), 50 * c + 35 * y + 15 * b)
      \/ e = Larger(100 * Larger(c, y), 30 * c + 25 * y + 45 * b)
  BY DEF ensemble
<1>4. blocks(f, m, b) <=> m = "god_mode" \/ c = Unit \/ e >= 650000
  <2>1. scan_file(f, m, b) = IF m = "god_mode" \/ c = Unit THEN "CRITICAL" ELSE classify_score(e)
    BY DEF scan_file
  <2>2. e \in Int
    <3>1. c \in Int /\ y \in Int /\ b \in Int
      BY <1>1, <1>2
    <3> HIDE DEF c, y, e
    <3>2. Larger(c, y) \in Int
      BY <3>1 DEF Larger
    <3> QED
      BY <1>3, <3>1, <3>2 DEF Larger
  <2> HIDE DEF c, e
  <2>3. classify_score(e) \in Blocking <=> e >= 650000
    BY <2>2 DEF classify_score, Blocking
  <2> QED
    BY <2>1, <2>3 DEF blocks, Blocking
<1> HIDE DEF c, y, e
<1>5. b \in Nat /\ b <= 10000 /\ c \in Nat /\ c <= 10000
  BY <1>1 DEF Unit
<1>6. CASE m = "none"
  <2>1. y = 0
    BY <1>2, <1>6
  <2>2. Larger(c, y) = c
    BY <1>5, <2>1 DEF Larger
  <2>3. e >= 650000 <=> c >= 6500
    BY <1>3, <1>5, <2>1, <2>2 DEF Larger
  <2> QED
    BY <1>4, <1>5, <1>6, <2>3 DEF c, Unit
<1>7. CASE m # "none"
  <2>1. y >= 9000 /\ y \in Nat
    BY <1>2, <1>7 DEF Matches
  <2>2. Larger(c, y) \in Nat /\ Larger(c, y) >= 9000
    BY <1>5, <2>1 DEF Larger
  <2>3. e >= 650000
    BY <1>3, <1>5, <2>1, <2>2 DEF Larger
  <2> QED
    BY <1>4, <1>7, <2>3
<1> QED
  BY <1>6, <1>7

LEMMA ConclusiveBlocks ==
  ASSUME NEW f \in FileFacts, NEW m \in Matches, NEW b \in 0 .. Unit, Conclusive(f, m)
  PROVE  blocks(f, m, b)
<1>1. NoLess(f, f)
  BY DEF NoLess, FileFacts, Archives
<1>2. CASE f.eicar
  <2>1. contentScore(f) >= 6500
    BY <1>2 DEF contentScore, Unit
  <2> QED
    BY <2>1, BlocksIff
<1>3. CASE m # "none"
  BY <1>3, BlocksIff
<1>4. CASE ~f.eicar /\ f.ext = "archive"
           /\ \E k \in DOMAIN Read(f.archive) : Read(f.archive)[k].high >= 3
  <2>1. archiveScore(f.archive) = Unit
    BY <1>4 DEF archiveScore
  <2>2. contentScore(f) >= 6500
    BY <1>4, <2>1 DEF contentScore, Unit
  <2> QED
    BY <2>2, BlocksIff
<1>5. CASE /\ ~f.eicar /\ f.ext = "archive"
           /\ ~ \E k \in DOMAIN Read(f.archive) : Read(f.archive)[k].high >= 3
           /\ f.archive.kind = "container" /\ f.archive.executables > 0
  <2>1. f.archive \in Archives /\ f.archive.executables \in Nat \ {0}
    BY <1>5 DEF FileFacts, Archives
  <2> DEFINE names == IF f.archive.executables >= 2 THEN 8000 ELSE 7000
             texts == textsScore(Read(f.archive))
  <2>2. archiveScore(f.archive) = AtMost(Unit, names + texts)
    BY <1>5, <2>1 DEF archiveScore
  <2>3. Read(f.archive) \in Seq(Texts)
    BY <2>1 DEF Read, Archives
  <2>4. texts \in Nat /\ names \in {7000, 8000}
    BY <2>3, TextsScoreType
  <2> HIDE DEF names, texts
  <2>5. archiveScore(f.archive) >= 6500
    BY <2>2, <2>4 DEF AtMost, Unit
  <2>6. contentScore(f) >= 6500
    BY <1>5, <2>5 DEF contentScore
  <2> QED
    BY <2>6, BlocksIff
<1>6. CASE ~f.eicar /\ f.ext # "archive" /\ f.high >= 3
  <2>1. contentScore(f) >= 6500
    BY <1>6 DEF contentScore, Unit
  <2> QED
    BY <2>1, BlocksIff
<1>7. CASE /\ ~f.eicar /\ f.ext # "archive" /\ ~(f.high >= 3) /\ f.head = "elf"
           /\ {"walk", "write", "replicate"} \subseteq f.marks
  <2>1. entropyScore(f) \in Nat
    BY <1>1, EntropyGrows
  <2>2. peScore(f) \in Nat
    BY <1>1, PEGrows
  <2>3. machoScore(f) \in Nat
    BY <1>1, MachOGrows
  <2>4. elfScore(f) \in Nat
    BY <1>1, ElfGrows
  <2>5. patternScore(f.high, f.medium) \in Nat
    <3>1. f.high \in Nat /\ f.medium \in Nat /\ f.high <= f.high /\ f.medium <= f.medium
      BY DEF FileFacts
    <3> QED
      BY <3>1, PatternGrows
  <2>6. elfScore(f) >= 7500
    BY <1>7 DEF elfScore, AtMost
  <2>7. contentScore(f) = AtMost(Unit, entropyScore(f) + elfScore(f) + peScore(f)
                                         + machoScore(f) + patternScore(f.high, f.medium))
    BY <1>7 DEF contentScore
  <2>8. contentScore(f) >= 6500
    BY <2>1, <2>2, <2>3, <2>4, <2>5, <2>6, <2>7 DEF AtMost, Unit
  <2> QED
    BY <2>8, BlocksIff
<1> QED
  BY <1>2, <1>3, <1>4, <1>5, <1>6, <1>7 DEF Conclusive

LEMMA OneMoreGrows ==
  ASSUME NEW f \in FileFacts, NEW g \in OneMore(f)
  PROVE  g \in FileFacts /\ NoLess(f, g)
<1>1. /\ f.entropy \in 0 .. 3 /\ f.high \in Nat /\ f.medium \in Nat /\ f.strings \in Nat
      /\ f.marks \subseteq Marks /\ f.archive \in Archives /\ f.archive.executables \in Nat
  BY DEF FileFacts, Archives
<1>2. ASSUME NEW e \in f.entropy .. Random, g = [f EXCEPT !.entropy = e]
      PROVE  g \in FileFacts /\ NoLess(f, g)
  BY <1>1, <1>2 DEF FileFacts, NoLess, Random
<1>3. ASSUME NEW h \in f.high .. 3, g = [f EXCEPT !.high = h]
      PROVE  g \in FileFacts /\ NoLess(f, g)
  BY <1>1, <1>3 DEF FileFacts, NoLess
<1>4. CASE g = [f EXCEPT !.medium = @ + 1]
  BY <1>1, <1>4 DEF FileFacts, NoLess
<1>5. CASE g = [f EXCEPT !.strings = @ + 1]
  BY <1>1, <1>5 DEF FileFacts, NoLess
<1>6. CASE g = [f EXCEPT !.archive.executables = @ + 1]
  <2> DEFINE archive == [f.archive EXCEPT !.executables = @ + 1]
  <2>1. archive \in Archives
    BY <1>1 DEF Archives
  <2>2. /\ archive.kind = f.archive.kind /\ archive.oversized = f.archive.oversized
        /\ archive.texts = f.archive.texts /\ archive.executables = f.archive.executables + 1
    BY <1>1 DEF Archives
  <2>3. g = [f EXCEPT !.archive = archive]
    BY <1>6
  <2> HIDE DEF archive
  <2>4. g \in FileFacts /\ g.archive = archive
    BY <2>1, <2>3 DEF FileFacts
  <2>5. /\ g.ext = f.ext /\ g.head = f.head /\ g.eicar = f.eicar /\ g.entropy = f.entropy
        /\ g.marks = f.marks /\ g.strings = f.strings /\ g.high = f.high /\ g.medium = f.medium
    BY <2>3 DEF FileFacts
  <2> QED
    BY <1>1, <2>2, <2>4, <2>5 DEF NoLess
<1>7. ASSUME NEW mark \in Marks, g = [f EXCEPT !.marks = @ \cup {mark}]
      PROVE  g \in FileFacts /\ NoLess(f, g)
  BY <1>1, <1>7 DEF FileFacts, NoLess
<1> QED
  BY <1>2, <1>3, <1>4, <1>5, <1>6, <1>7 DEF OneMore

-----------------------------------------------------------------------------
(* The order of the docker calls.                                          *)

LEMMA NextCall ==
  ASSUME NEW k \in DOMAIN steps[image],
         \A j \in DOMAIN steps[image] : steps[image][j] = steps[image][k] => j = k
  PROVE  After(steps[image][k]) =
           IF k = Len(steps[image]) THEN "remove" ELSE steps[image][k + 1]
<1>1. (CHOOSE j \in DOMAIN steps[image] : steps[image][j] = steps[image][k]) = k
  OBVIOUS
<1> QED
  BY <1>1 DEF After

LEMMA ElfCalls ==
  ASSUME image = "elf"
  PROVE  /\ After("create") = "start" /\ After("start") = "copy"
         /\ After("copy") = "baseline" /\ After("baseline") = "install"
         /\ After("install") = "run" /\ After("run") = "look" /\ After("look") = "remove"
<1> DEFINE s == steps[image]
<1>1. /\ DOMAIN s = 1 .. 7 /\ Len(s) = 7
      /\ s[1] = "create" /\ s[2] = "start" /\ s[3] = "copy" /\ s[4] = "baseline"
      /\ s[5] = "install" /\ s[6] = "run" /\ s[7] = "look"
  BY DEF steps
<1>2. ASSUME NEW k \in DOMAIN s, \A j \in DOMAIN s : s[j] = s[k] => j = k
      PROVE  After(s[k]) = IF k = Len(s) THEN "remove" ELSE s[k + 1]
  BY <1>2, NextCall
<1> HIDE DEF s
<1> QED
  BY <1>1, <1>2

LEMMA WineCalls ==
  ASSUME image = "wine"
  PROVE  /\ After("create") = "start" /\ After("start") = "boot" /\ After("boot") = "copy"
         /\ After("copy") = "baseline" /\ After("baseline") = "install"
         /\ After("install") = "run" /\ After("run") = "look" /\ After("look") = "remove"
<1> DEFINE s == steps[image]
<1>1. /\ DOMAIN s = 1 .. 8 /\ Len(s) = 8
      /\ s[1] = "create" /\ s[2] = "start" /\ s[3] = "boot" /\ s[4] = "copy"
      /\ s[5] = "baseline" /\ s[6] = "install" /\ s[7] = "run" /\ s[8] = "look"
  BY DEF steps
<1>2. ASSUME NEW k \in DOMAIN s, \A j \in DOMAIN s : s[j] = s[k] => j = k
      PROVE  After(s[k]) = IF k = Len(s) THEN "remove" ELSE s[k + 1]
  BY <1>2, NextCall
<1> HIDE DEF s
<1> QED
  BY <1>1, <1>2

LEMMA DosCalls ==
  ASSUME image = "dos"
  PROVE  /\ After("create") = "start" /\ After("start") = "copy"
         /\ After("copy") = "install" /\ After("install") = "baseline"
         /\ After("baseline") = "run" /\ After("run") = "count" /\ After("count") = "look"
         /\ After("look") = "remove"
<1> DEFINE s == steps[image]
<1>1. /\ DOMAIN s = 1 .. 8 /\ Len(s) = 8
      /\ s[1] = "create" /\ s[2] = "start" /\ s[3] = "copy" /\ s[4] = "install"
      /\ s[5] = "baseline" /\ s[6] = "run" /\ s[7] = "count" /\ s[8] = "look"
  BY DEF steps
<1>2. ASSUME NEW k \in DOMAIN s, \A j \in DOMAIN s : s[j] = s[k] => j = k
      PROVE  After(s[k]) = IF k = Len(s) THEN "remove" ELSE s[k + 1]
  BY <1>2, NextCall
<1> HIDE DEF s
<1> QED
  BY <1>1, <1>2

\* A call of an image's list is followed by one of its list, or by the removal.
LEMMA CallOrder ==
  ASSUME image \in Images
  PROVE  /\ After("create") = "start"
         /\ After("start") = IF image = "wine" THEN "boot" ELSE "copy"
         /\ image = "wine" => After("boot") = "copy"
         /\ After("copy") = IF image = "dos" THEN "install" ELSE "baseline"
         /\ After("baseline") = IF image = "dos" THEN "run" ELSE "install"
         /\ After("install") = IF image = "dos" THEN "baseline" ELSE "run"
         /\ After("run") = IF image = "dos" THEN "count" ELSE "look"
         /\ image = "dos" => After("count") = "look"
         /\ After("look") = "remove"
<1>1. CASE image = "elf"
  BY <1>1, ElfCalls
<1>2. CASE image = "wine"
  BY <1>2, WineCalls
<1>3. CASE image = "dos"
  BY <1>3, DosCalls
<1> QED
  BY <1>1, <1>2, <1>3 DEF Images

-----------------------------------------------------------------------------
(* The inductive invariant.                                                *)

\* Where an analysis can be: wineboot and the count of new files belong to one
\* image each, and before it begins there is nothing.
Placed ==
  /\ pc = "boot" => image = "wine"
  /\ pc = "count" => image = "dos"
  /\ pc = "idle" => container = "none" /\ age = 0 /\ ran = 0 /\ verdict = "none"

\* A container ends at the end of its life only, and a target that heeds the
\* signal has not run longer than its limit.
LifeInv ==
  /\ container = "exited" => age = life[image]
  /\ heeds => ran <= limit[image]

\* An analysis gives up for no fault of docker only when the container's life
\* is over.
ErrorInv ==
  verdict = "ERROR" /\ faults \cap {"create", "docker"} = {} => age = life[image]

\* The target has not run, and decoys there are as they were written.
Clean == {"idle", "create", "start", "boot", "copy", "baseline", "install", "run"}

\* The first look came before the target ran, and found the decoys untouched.
LookedAt == pc = "run" \/ (pc = "install" /\ image # "dos")

DecoysInv ==
  /\ pc \in Clean => decoys \in {"absent", "original"}
  /\ LookedAt => baseline = decoys
  /\ pc \in {"count", "look"} => baseline \in {decoys, "original"} /\ baseline # "none"

\* There is a verdict from the last look on.
Judged == {"CLEAN", "SUSPICIOUS", "MALICIOUS"}
VerdictInv == verdict \in Judged => pc \in {"remove", "ended"}

\* The sandbox is asked after the scan, and an upload that passed was let pass
\* by the scan alone, by the verdict, or by a gateway that had waited in vain.
GatewayInv ==
  /\ upload = "scanning" => pc = "idle" /\ file \in Uploaded /\ behavioral \in Behaviours
  /\ upload = "passed" =>
       \/ unheard \/ slow >= 3
       \/ pc \in {"idle", "lost"}
       \/ pc = "ended" /\ verdict \notin {"MALICIOUS", "SUSPICIOUS"}

SandboxInv ==
  /\ SandboxTypeOK /\ Placed /\ LifeInv /\ ErrorInv /\ DecoysInv /\ VerdictInv
  /\ InfectionIsReported /\ ContainerIsRemoved

IInv == TypeOK /\ SandboxInv /\ GatewayInv

-----------------------------------------------------------------------------
(* The sandbox.                                                            *)

LEMMA Limits ==
  ASSUME image \in Images
  PROVE  /\ life[image] \in {3, 6} /\ limit[image] \in {2, 3}
         /\ limit[image] + 1 <= life[image]
  BY DEF Images, life, limit

LEMMA SandboxStart == ASSUME Init PROVE SandboxInv
<1>1. image \in Images /\ 0 \in 0 .. life[image]
  BY DEF Init, Images, life
<1>2. trace \in Traces /\ slow \in 0 .. MaxSlow
  BY SandboxAssumption DEF Init
<1>3. age \in 0 .. life[image] /\ ran \in 0 .. age
  BY <1>1 DEF Init
<1>4. SandboxTypeOK
  BY <1>1, <1>2, <1>3 DEF Init, SandboxTypeOK
<1> QED
  BY <1>4 DEF Init, SandboxInv, Placed, LifeInv, ErrorInv, DecoysInv, LookedAt, VerdictInv, Judged,
     InfectionIsReported, ContainerIsRemoved, limit

LEMMA SkipInv == ASSUME SandboxInv, Skip PROVE SandboxInv'
<1>1. SandboxTypeOK'
  BY DEF SandboxInv, SandboxTypeOK, Skip, Held, Verdicts
<1> QED
  BY <1>1 DEF SandboxInv, Skip, Held, Placed, LifeInv, ErrorInv, DecoysInv, LookedAt, VerdictInv,
     Judged, InfectionIsReported, ContainerIsRemoved, Clean

LEMMA BeginInv == ASSUME SandboxInv, NEW i \in Images, Begin(i) PROVE SandboxInv'
<1>1. SandboxTypeOK' /\ LifeInv'
  BY DEF SandboxInv, SandboxTypeOK, LifeInv, Placed, Begin, Verdicts, Images, life, limit, Calls
<1> QED
  BY <1>1 DEF SandboxInv, Begin, Placed, ErrorInv, DecoysInv, LookedAt, VerdictInv,
     Judged, InfectionIsReported, ContainerIsRemoved, Clean

LEMMA CreateInv == ASSUME SandboxInv, Create PROVE SandboxInv'
<1>1. pc = "create" /\ pc' = "start"
  BY CallOrder DEF SandboxInv, SandboxTypeOK, Create, Proceed
<1>2. SandboxTypeOK'
  BY <1>1 DEF SandboxInv, SandboxTypeOK, Create, Held, Calls
<1> QED
  BY <1>1, <1>2 DEF SandboxInv, Create, Held, Placed, LifeInv, ErrorInv, DecoysInv, LookedAt,
     VerdictInv, Judged, InfectionIsReported, ContainerIsRemoved, Clean

LEMMA CreateFailsInv == ASSUME SandboxInv, CreateFails PROVE SandboxInv'
<1>1. SandboxTypeOK'
  BY DEF SandboxInv, SandboxTypeOK, CreateFails, Held, Verdicts
<1> QED
  BY <1>1 DEF SandboxInv, CreateFails, Held, Placed, LifeInv, ErrorInv, DecoysInv, LookedAt,
     VerdictInv, Judged, InfectionIsReported, ContainerIsRemoved, Clean

LEMMA StartInv == ASSUME SandboxInv, Start PROVE SandboxInv'
<1>1. /\ image \in Images
      /\ pc = "start" /\ pc' = IF image = "wine" THEN "boot" ELSE "copy"
  BY CallOrder DEF SandboxInv, SandboxTypeOK, Start, Proceed
<1>2. SandboxTypeOK'
  BY <1>1 DEF SandboxInv, SandboxTypeOK, Start, Held, Calls, Commands
<1> QED
  BY <1>1, <1>2 DEF SandboxInv, Start, Held, Placed, LifeInv, ErrorInv, DecoysInv, LookedAt,
     VerdictInv, Judged, InfectionIsReported, ContainerIsRemoved, Clean

\* An error without a fault of docker comes from a container that has ended.
LEMMA CallFailsInv == ASSUME SandboxInv, CallFails PROVE SandboxInv'
<1>1. SandboxTypeOK'
  BY SandboxAssumption
  DEF SandboxInv, SandboxTypeOK, CallFails, Error, Forget, Held, Verdicts, Calls
<1>2. ErrorInv'
  BY DEF SandboxInv, ErrorInv, LifeInv, CallFails, Error, Held
<1> QED
  BY <1>1, <1>2 DEF SandboxInv, CallFails, Error, Forget, Held, Placed, LifeInv, DecoysInv, LookedAt,
     VerdictInv, Judged, InfectionIsReported, ContainerIsRemoved, Clean

\* A command that succeeds leaves the container, its time and the verdict alone.
LEMMA CommandFrame ==
  ASSUME SandboxInv, NEW s \in Commands, Executes(s), UNCHANGED <<Held, container, verdict, faults>>,
         pc' \in Commands, SandboxTypeOK', DecoysInv',
         pc' = "boot" => image = "wine", pc' = "count" => image = "dos"
  PROVE  SandboxInv'
<1>1. verdict \notin Judged
  BY DEF SandboxInv, VerdictInv, Executes, Commands
<1> QED
  BY <1>1 DEF SandboxInv, Held, Executes, Commands, Placed, LifeInv, ErrorInv, VerdictInv, Judged,
     InfectionIsReported, ContainerIsRemoved

LEMMA BootInv == ASSUME SandboxInv, Boot PROVE SandboxInv'
<1>1. pc = "boot" /\ pc' = "copy"
  BY CallOrder DEF SandboxInv, SandboxTypeOK, Placed, Boot, Executes, Proceed
<1>2. SandboxTypeOK' /\ DecoysInv'
  BY <1>1 DEF SandboxInv, SandboxTypeOK, Boot, Held, Calls, Commands, DecoysInv, LookedAt, Clean
<1> QED
  BY <1>1, <1>2, CommandFrame DEF Boot, Commands

LEMMA CopyInv == ASSUME SandboxInv, Copy PROVE SandboxInv'
<1>1. pc = "copy" /\ pc' = IF image = "dos" THEN "install" ELSE "baseline"
  BY CallOrder DEF SandboxInv, SandboxTypeOK, Copy, Executes, Proceed
<1>2. SandboxTypeOK' /\ DecoysInv'
  BY <1>1 DEF SandboxInv, SandboxTypeOK, Copy, Held, Calls, Commands, DecoysInv, LookedAt, Clean
<1> QED
  BY <1>1, <1>2, CommandFrame DEF Copy, Commands

LEMMA LookBeforeInv == ASSUME SandboxInv, LookBefore PROVE SandboxInv'
<1>1. pc = "baseline" /\ pc' = IF image = "dos" THEN "run" ELSE "install"
  BY CallOrder DEF SandboxInv, SandboxTypeOK, LookBefore, Executes, Proceed
<1>2. SandboxTypeOK' /\ DecoysInv'
  BY <1>1 DEF SandboxInv, SandboxTypeOK, LookBefore, Held, Calls, Commands, DecoysInv, LookedAt, Clean
<1> QED
  BY <1>1, <1>2, CommandFrame DEF LookBefore, Commands

LEMMA InstallInv == ASSUME SandboxInv, Install PROVE SandboxInv'
<1>1. pc = "install" /\ pc' = IF image = "dos" THEN "baseline" ELSE "run"
  BY CallOrder DEF SandboxInv, SandboxTypeOK, Install, Executes, Proceed
<1>2. SandboxTypeOK' /\ DecoysInv'
  BY <1>1 DEF SandboxInv, SandboxTypeOK, Install, Held, Calls, Commands, DecoysInv, LookedAt, Clean
<1> QED
  BY <1>1, <1>2, CommandFrame DEF Install, Commands

\* The target changes decoys only where they were written, and where the first
\* look has seen them.
LEMMA RunInv == ASSUME SandboxInv, Run PROVE SandboxInv'
<1>1. pc = "run" /\ pc' = IF image = "dos" THEN "count" ELSE "look"
  BY CallOrder DEF SandboxInv, SandboxTypeOK, Run, Executes, Proceed
<1>2. SandboxTypeOK'
  BY <1>1, SandboxAssumption DEF SandboxInv, SandboxTypeOK, Run, Held, Calls, Commands
<1>3. DecoysInv'
  BY <1>1 DEF SandboxInv, SandboxTypeOK, Run, DecoysInv, LookedAt, Clean
<1> QED
  BY <1>1, <1>2, <1>3, CommandFrame DEF Run, Commands

LEMMA CountInv == ASSUME SandboxInv, Count PROVE SandboxInv'
<1>1. pc = "count" /\ pc' = "look"
  BY CallOrder DEF SandboxInv, SandboxTypeOK, Placed, Count, Executes, Proceed
<1>2. SandboxTypeOK' /\ DecoysInv'
  BY <1>1 DEF SandboxInv, SandboxTypeOK, Count, Held, Calls, Commands, DecoysInv, LookedAt, Clean
<1> QED
  BY <1>1, <1>2, CommandFrame DEF Count, Commands

LEMMA JudgedType == ASSUME NEW now PROVE judge(now) \in Judged
  BY DEF judge, analyze_trace, Judged

LEMMA LookAfterInv == ASSUME SandboxInv, LookAfter PROVE SandboxInv'
<1>1. pc = "look" /\ pc' = "remove"
  BY CallOrder DEF SandboxInv, SandboxTypeOK, LookAfter, Executes, Proceed
<1>2. SandboxTypeOK'
  BY <1>1, JudgedType, SandboxAssumption
  DEF SandboxInv, SandboxTypeOK, LookAfter, Forget, Held, Calls, Verdicts, Judged
<1>3. InfectionIsReported'
  BY <1>1 DEF SandboxInv, SandboxTypeOK, DecoysInv, InfectionIsReported, LookAfter, judge, modified,
              Held
<1> QED
  BY <1>1, <1>2, <1>3, JudgedType DEF SandboxInv, LookAfter, Forget, Held, Placed, LifeInv, ErrorInv,
     DecoysInv, LookedAt, Judged, VerdictInv, ContainerIsRemoved, Clean

LEMMA LookIsCutInv == ASSUME SandboxInv, LookIsCut PROVE SandboxInv'
<1>1. pc = "look" /\ pc' = "remove"
  BY CallOrder DEF SandboxInv, SandboxTypeOK, LookIsCut, Proceed
<1>2. SandboxTypeOK'
  BY <1>1, JudgedType, SandboxAssumption
  DEF SandboxInv, SandboxTypeOK, LookIsCut, Forget, Held, Calls, Verdicts, Judged
<1> QED
  BY <1>1, <1>2, JudgedType DEF SandboxInv, LookIsCut, Forget, Held, Placed, LifeInv, ErrorInv,
     DecoysInv, LookedAt, Judged, VerdictInv, InfectionIsReported, ContainerIsRemoved, Clean

LEMMA RemoveContainerInv == ASSUME SandboxInv, RemoveContainer PROVE SandboxInv'
<1>1. SandboxTypeOK'
  BY DEF SandboxInv, SandboxTypeOK, RemoveContainer, Held, removed
<1> QED
  BY <1>1 DEF SandboxInv, RemoveContainer, removed, Held, Placed, LifeInv, ErrorInv, DecoysInv,
     LookedAt, VerdictInv, Judged, InfectionIsReported, ContainerIsRemoved, Clean

LEMMA RemovalFailsInv == ASSUME SandboxInv, RemovalFails PROVE SandboxInv'
<1>1. SandboxTypeOK'
  BY DEF SandboxInv, SandboxTypeOK, RemovalFails, Held
<1> QED
  BY <1>1 DEF SandboxInv, RemovalFails, Held, Placed, LifeInv, ErrorInv, DecoysInv,
     LookedAt, VerdictInv, Judged, InfectionIsReported, ContainerIsRemoved, Clean

\* Time passes in a running container, and ends it at the end of its life.
LEMMA AgeInv == ASSUME SandboxInv, Age PROVE SandboxInv'
<1>1. SandboxTypeOK'
  BY Limits DEF SandboxInv, SandboxTypeOK, Age, expires
<1>2. LifeInv'
  BY Limits DEF SandboxInv, SandboxTypeOK, LifeInv, Age, expires
<1>3. ErrorInv'
  BY Limits DEF SandboxInv, SandboxTypeOK, ErrorInv, Age
<1> QED
  BY <1>1, <1>2, <1>3 DEF SandboxInv, Age, Placed, DecoysInv, LookedAt, VerdictInv, Judged,
     InfectionIsReported, ContainerIsRemoved, Clean

LEMMA WaitInv == ASSUME SandboxInv, Wait PROVE SandboxInv'
<1>1. SandboxTypeOK'
  BY SandboxAssumption DEF SandboxInv, SandboxTypeOK, Wait
<1> QED
  BY <1>1 DEF SandboxInv, Wait, Placed, LifeInv, ErrorInv, DecoysInv, LookedAt, VerdictInv, Judged,
     InfectionIsReported, ContainerIsRemoved, Clean

LEMMA CrashInv == ASSUME SandboxInv, Crash PROVE SandboxInv'
<1>1. SandboxTypeOK'
  BY SandboxAssumption DEF SandboxInv, SandboxTypeOK, Crash, Forget, Held
<1> QED
  BY <1>1 DEF SandboxInv, Crash, Forget, Held, Placed, LifeInv, ErrorInv, DecoysInv, LookedAt,
     VerdictInv, Judged, InfectionIsReported, ContainerIsRemoved, Clean

LEMMA SandboxStutter == ASSUME SandboxInv, UNCHANGED vars PROVE SandboxInv'
  BY DEF vars, SandboxInv, SandboxTypeOK, Placed, LifeInv, ErrorInv, DecoysInv, LookedAt, VerdictInv,
     InfectionIsReported, ContainerIsRemoved

-----------------------------------------------------------------------------
(* The gateway and the sandbox.                                            *)

LEMMA ScreeningStart == ASSUME ScreeningInit PROVE IInv
<1>1. SandboxInv /\ pc = "idle"
  BY SandboxStart DEF ScreeningInit, Init
<1> QED
  BY <1>1 DEF ScreeningInit, IInv, TypeOK, SandboxInv, GatewayInv

LEMMA ScanType ==
  /\ \A f, m, b : scan_file(f, m, b) \in {"NORMAL", "MEDIUM"} \cup Blocking
  /\ \A f : detect_platform(f) \in {"elf", "windows", "macos", "dos", "script", "unknown"}
  BY DEF scan_file, classify_score, Blocking, detect_platform

LEMMA DecideType == \A l, v : decide(l, v) \in {"blocked", "passed"}
  BY DEF decide

LEMMA ScanInv == ASSUME IInv, Scan PROVE IInv'
<1>1. /\ upload = "scanning" /\ pc = "idle"
      /\ UNCHANGED vars
      /\ unheard' = unheard
  BY DEF IInv, GatewayInv, Scan
<1>2. SandboxInv'
  BY <1>1, SandboxStutter DEF IInv
<1>3. upload' \in {"waiting", "blocked", "passed"}
  BY DecideType DEF Scan
<1>4. level' \in {"none", "NORMAL", "MEDIUM"} \cup Blocking
  BY ScanType DEF Scan
<1>5. route' \in {"none", "elf", "windows", "macos", "dos", "script", "unknown"}
  BY ScanType DEF Scan
<1>6. TypeOK'
  BY <1>1, <1>2, <1>3, <1>4, <1>5 DEF Scan, IInv, TypeOK, SandboxInv, Matches
<1>7. GatewayInv'
  BY <1>1, <1>3 DEF GatewayInv, vars
<1> QED
  BY <1>2, <1>6, <1>7 DEF IInv

LEMMA ReceiveInv == ASSUME IInv, Receive PROVE IInv'
<1>1. (\E i \in Images : Begin(i)) \/ Skip
  BY DEF Receive, analyze, Images
<1>2. SandboxInv'
  BY <1>1, BeginInv, SkipInv DEF IInv
<1> QED
  BY <1>2 DEF Receive, gateway, IInv, TypeOK, SandboxInv, GatewayInv

LEMMA HearVerdictInv == ASSUME IInv, HearVerdict PROVE IInv'
<1>1. SandboxInv'
  BY SandboxStutter DEF IInv, HearVerdict
<1>2. upload' \in {"blocked", "passed"}
  BY DecideType DEF HearVerdict
<1>3. GatewayInv'
  BY <1>2 DEF HearVerdict, GatewayInv, decide, vars
<1> QED
  BY <1>1, <1>2, <1>3 DEF HearVerdict, IInv, TypeOK, SandboxInv

\* A gateway that stops waiting has waited for the 90 seconds, of which the
\* container's life explains no more than 60, or has lost the connection.
LEMMA HearNothingInv == ASSUME IInv, HearNothing PROVE IInv'
<1>1. SandboxInv'
  BY SandboxStutter DEF IInv, HearNothing
<1>2. upload' \in {"blocked", "passed"}
  BY DecideType DEF HearNothing
<1>3. age \in 0 .. life[image] /\ slow \in Nat /\ life[image] \in {3, 6}
  BY Limits, SandboxAssumption DEF IInv, TypeOK, SandboxTypeOK
<1>4. unheard' \/ pc = "lost" \/ slow >= 3
  <2>1. age \in Nat /\ age <= 6
    BY <1>3
  <2>2. age + slow < 9 \/ slow >= 3
    BY <1>3, <2>1
  <2> QED
    BY <2>2 DEF HearNothing, elapsed, Patience
<1>5. GatewayInv'
  BY <1>2, <1>4 DEF HearNothing, GatewayInv, vars
<1> QED
  BY <1>1, <1>2, <1>5 DEF HearNothing, IInv, TypeOK, SandboxInv

\* Outside of an analysis only time passes, and no step takes time back.
LEMMA SandboxMoves ==
  ASSUME SandboxTypeOK, Step \/ Age \/ Wait \/ Crash
  PROVE  /\ slow >= 3 => slow' >= 3
         /\ pc \notin Calls => pc' = pc /\ verdict' = verdict
<1>1. slow \in Nat
  BY SandboxAssumption DEF SandboxTypeOK
<1>2. CASE Step
  BY <1>2 DEF Step, Create, CreateFails, Start, CallFails, Boot, Copy, LookBefore, Install, Run, Count,
     LookAfter, LookIsCut, RemoveContainer, RemovalFails, Executes, Held, Calls, Commands
<1>3. CASE Age \/ Wait \/ Crash
  BY <1>1, <1>3 DEF Age, Wait, Crash, Held
<1> QED
  BY <1>2, <1>3

LEMMA StepInv == ASSUME SandboxInv, Step PROVE SandboxInv'
  BY CreateInv, CreateFailsInv, StartInv, CallFailsInv, BootInv, CopyInv, LookBeforeInv, InstallInv,
     RunInv, CountInv, LookAfterInv, LookIsCutInv, RemoveContainerInv, RemovalFailsInv DEF Step

LEMMA AloneInv ==
  ASSUME IInv, Step \/ Age \/ Wait \/ Crash, UNCHANGED gateway
  PROVE  IInv'
<1>1. SandboxInv'
  BY StepInv, AgeInv, WaitInv, CrashInv DEF IInv
<1>2. /\ slow >= 3 => slow' >= 3
      /\ pc \notin Calls => pc' = pc /\ verdict' = verdict
  BY SandboxMoves DEF IInv, SandboxInv
<1>3. GatewayInv'
  BY <1>2 DEF IInv, GatewayInv, gateway, Calls, Commands
<1> QED
  BY <1>1, <1>3 DEF gateway, IInv, TypeOK, SandboxInv

LEMMA ScreeningStep == ASSUME IInv, [ScreeningNext]_<<vars, gateway>> PROVE IInv'
<1>1. CASE SandboxStep \/ TimePasses \/ SandboxCrash
  BY <1>1, AloneInv DEF SandboxStep, TimePasses, SandboxCrash
<1>2. CASE UNCHANGED <<vars, gateway>>
  <2>1. SandboxInv'
    BY <1>2, SandboxStutter DEF IInv
  <2> QED
    BY <1>2, <2>1 DEF vars, gateway, IInv, TypeOK, SandboxInv, GatewayInv
<1> QED
  BY <1>1, <1>2, ScanInv, ReceiveInv, HearVerdictInv, HearNothingInv DEF ScreeningNext, Finished

LEMMA Inductive == ScreeningSpec => []IInv
<1>1. ScreeningInit => IInv
  BY ScreeningStart
<1>2. IInv /\ [ScreeningNext]_<<vars, gateway>> => IInv'
  BY ScreeningStep
<1> QED
  BY <1>1, <1>2, PTL DEF ScreeningSpec

-----------------------------------------------------------------------------
(* The theorems.                                                           *)

\* Every variable of the gateway and of the sandbox keeps its type; a
\* container is never older than its life.
THEOREM Typing == ScreeningSpec => []TypeOK
<1>1. IInv => TypeOK
  BY DEF IInv
<1> QED
  BY <1>1, Inductive, PTL

\* One conclusive fact blocks a file, a further fact never lets a blocked file
\* pass, and the user's behaviour decides nothing, whatever the files are.
THEOREM EvidenceDecidesAlways == ScreeningSpec => []EvidenceDecides
<1>1. IInv => EvidenceDecides
  <2> SUFFICES ASSUME IInv, upload = "scanning"
               PROVE  /\ Conclusive(file, match) => blocks(file, match, behavioral)
                      /\ blocks(file, match, behavioral) =>
                           \A more \in OneMore(file) : blocks(more, match, behavioral)
                      /\ \A b \in Behaviours :
                           blocks(file, match, b) = blocks(file, match, behavioral)
    BY DEF EvidenceDecides
  <2>1. file \in FileFacts /\ match \in Matches /\ behavioral \in 0 .. Unit
    BY ScreeningAssumption DEF IInv, TypeOK, GatewayInv
  <2>2. Conclusive(file, match) => blocks(file, match, behavioral)
    BY <2>1, ConclusiveBlocks
  <2>3. ASSUME blocks(file, match, behavioral), NEW more \in OneMore(file)
        PROVE  blocks(more, match, behavioral)
    <3>1. more \in FileFacts /\ NoLess(file, more)
      BY <2>1, OneMoreGrows
    <3>2. contentScore(file) \in Nat /\ contentScore(more) \in Nat
          /\ contentScore(file) <= contentScore(more)
      BY <2>1, <3>1, ContentGrows
    <3>3. match # "none" \/ contentScore(file) >= 6500
      BY <2>1, <2>3, BlocksIff
    <3>4. match # "none" \/ contentScore(more) >= 6500
      BY <3>2, <3>3
    <3> QED
      BY <2>1, <3>1, <3>4, BlocksIff
  <2>4. ASSUME NEW b \in Behaviours
        PROVE  blocks(file, match, b) = blocks(file, match, behavioral)
    <3>1. b \in 0 .. Unit
      BY ScreeningAssumption
    <3>2. blocks(file, match, b) <=> blocks(file, match, behavioral)
      BY <2>1, <3>1, BlocksIff
    <3> QED
      BY <3>2 DEF blocks
  <2> QED
    BY <2>2, <2>3, <2>4
<1> QED
  BY <1>1, Inductive, PTL

\* A bad verdict blocks the upload, unless its answer was lost or docker took
\* thirty seconds outside of the container's life: the gateway's 90 seconds
\* cover the longest life of a container.
THEOREM BadVerdictBlocksAlways == ScreeningSpec => []BadVerdictBlocks
<1>1. IInv => BadVerdictBlocks
  BY DEF IInv, GatewayInv, BadVerdictBlocks
<1> QED
  BY <1>1, Inductive, PTL

\* A change to the decoys, a deletion or renaming included, is reported as
\* malicious for every trace: the first look comes before the target runs, and
\* the second sees what it left.  Excepted are a container that ends under the
\* second look and, in DOS, changes that leave the size of every decoy still
\* there as it was.
THEOREM InfectionIsReportedAlways == ScreeningSpec => []InfectionIsReported
<1>1. IInv => InfectionIsReported
  BY DEF IInv, SandboxInv
<1> QED
  BY <1>1, Inductive, PTL

\* An analysis whose target ends at its limit comes to a verdict within the
\* container's life, unless a call raises or the calls around the run take ten
\* seconds: each life is longer than the run's limit.
THEOREM LifeIsLongEnoughAlways == ScreeningSpec => []LifeIsLongEnough
<1>1. IInv => LifeIsLongEnough
  <2> SUFFICES ASSUME IInv, verdict = "ERROR", heeds, faults \cap {"create", "docker"} = {}
               PROVE  age - ran >= 1
    BY DEF LifeIsLongEnough
  <2>1. image \in Images /\ age \in Nat /\ ran \in Nat
    BY Limits DEF IInv, TypeOK, SandboxTypeOK
  <2>2. age = life[image] /\ ran <= limit[image]
    BY DEF IInv, SandboxInv, ErrorInv, LifeInv
  <2> QED
    BY <2>1, <2>2, Limits
<1> QED
  BY <1>1, Inductive, PTL

\* An analysis that has ended has removed its container, unless a call to
\* docker failed to create or to remove it.
THEOREM ContainerIsRemovedAlways == ScreeningSpec => []ContainerIsRemoved
<1>1. IInv => ContainerIsRemoved
  BY DEF IInv, SandboxInv
<1> QED
  BY <1>1, Inductive, PTL
=============================================================================
