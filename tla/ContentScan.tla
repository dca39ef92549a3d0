----------------------------- MODULE ContentScan -----------------------------
(***************************************************************************)
(* How the detection service scores the content of an upload:              *)
(* backend/ai_detection/binary_analysis.py, and the combination with YARA  *)
(* and the behavioural score in scan_file of routes.py.  Pure operators.   *)
(*                                                                         *)
(* A file is a record of the facts the code tests: its extension's class,  *)
(* its first bytes, the class of its entropy, which groups of marker       *)
(* strings it holds, and how many patterns of each risk match.  Scores are *)
(* integers, 10,000 for the code's 1.0; the code rounds content scores to  *)
(* four digits, so sums that meet a threshold exactly meet it here too.    *)
(***************************************************************************)
EXTENDS Integers, Sequences

Unit == 10000

\* What the code looks for in a file's bytes.
Marks == {"walk", "write", "replicate", "ptrace", "procmem",
          "inject", "autorun", "encrypt", "debugger", "loader"}
Texts == [high : Nat, medium : Nat]
Archives == [kind : {"opaque", "container", "compressed"}, executables : Nat,
             oversized : BOOLEAN, texts : Seq(Texts)]
FileFacts == [ext : STRING, head : STRING, entropy : 0 .. 3, marks : SUBSET Marks,
              strings : Nat, high : Nat, medium : Nat, eicar : BOOLEAN, large : BOOLEAN,
              archive : Archives]

\* min(score, cap) and max(a, b) of the code.
AtMost(cap, score) == IF score > cap THEN cap ELSE score
Larger(a, b) == IF a > b THEN a ELSE b

\* entropy above 6.5, 7.2 and 7.8 bits
Packed == 1
Dense == 2
Random == 3

-----------------------------------------------------------------------------
(* Formats.                                                                *)

\* Directory walk, writing and replication together mark an infector.
elfScore(file) ==
  LET infects == {"walk", "write"} \subseteq file.marks
      replicates == infects /\ "replicate" \in file.marks
  IN IF file.head # "elf" THEN 0
     ELSE AtMost(9000,
            (IF replicates THEN 7500 ELSE IF infects THEN 3500 ELSE 0)
            + (IF "ptrace" \in file.marks THEN 2000 ELSE 0)
            + (IF "procmem" \in file.marks THEN 2500 ELSE 0))

IsPE(file) == file.ext \in {"pe", "com"} /\ file.head = "mz"

importScore(file) ==
  AtMost(9000,
    (IF "inject" \in file.marks THEN 3500 ELSE 0)
    + (IF "autorun" \in file.marks THEN 2500 ELSE 0)
    + (IF "encrypt" \in file.marks THEN 3000 ELSE 0)
    + (IF "debugger" \in file.marks THEN 1500 ELSE 0))

peScore(file) ==
  IF IsPE(file)
  THEN (IF file.entropy >= Packed THEN 4000 ELSE 1000) + importScore(file)
  ELSE 0

\* 1,500 for the format, more for loader paths and for each dangerous string.
machoScore(file) ==
  IF file.head # "macho" THEN 0
  ELSE AtMost(9000, 1500 + (IF "loader" \in file.marks THEN 2500 ELSE 0)
                         + AtMost(6000, 2000 * file.strings))

entropyScore(file) ==
  IF file.ext = "document" THEN 0
  ELSE IF file.entropy >= Random THEN 3500
  ELSE IF file.entropy >= Dense THEN 1500 ELSE 0

patternScore(high, medium) == AtMost(6000, 3000 * high) + AtMost(4500, 1500 * medium)

-----------------------------------------------------------------------------
(* Archives: what is inside counts for .85, executables by their names.    *)

\* _scan_text; three high-risk patterns are malware, and so is EICAR in a
\* compressed file, which counts as three here.
textScore(text) ==
  IF text.high >= 3 THEN Unit ELSE (patternScore(text.high, text.medium) * 85) \div 100

\* The texts _inspect_archive reads: the first members of a container that
\* does not unpack to more than 50 MB, or the content of a compressed file.
Read(archive) ==
  CASE archive.kind = "container" -> IF archive.oversized THEN <<>> ELSE archive.texts
    [] archive.kind = "compressed" -> archive.texts
    [] OTHER -> <<>>

\* The loop over the members: after k texts the scores of those are added.
textsScore(texts) ==
  LET score[k \in 0 .. Len(texts)] ==
        IF k = 0 THEN 0 ELSE score[k - 1] + textScore(texts[k])
  IN score[Len(texts)]

archiveScore(archive) ==
  LET executables ==
        IF archive.kind # "container" \/ archive.executables = 0 THEN 0
        ELSE IF archive.executables >= 2 THEN 8000 ELSE 7000
      texts == Read(archive)
  IN IF \E k \in DOMAIN texts : texts[k].high >= 3 THEN Unit
     ELSE AtMost(Unit, executables + textsScore(texts))

-----------------------------------------------------------------------------
(* analyze_file_content                                                    *)

contentScore(file) ==
  IF file.eicar THEN Unit
  ELSE IF file.ext = "archive" THEN archiveScore(file.archive)
  ELSE IF file.high >= 3 THEN Unit
  ELSE AtMost(Unit, entropyScore(file) + elfScore(file) + peScore(file)
                      + machoScore(file) + patternScore(file.high, file.medium))

\* The threat types of _CONTENT_DOMINANT_TYPES: all of an archive's, and those
\* of executables except for a plain Mach-O.
isSpecificThreat(file) ==
  IF file.ext = "archive" THEN archiveScore(file.archive) > 0
  ELSE \/ elfScore(file) > 0
       \/ IsPE(file) /\ (file.entropy >= Packed \/ importScore(file) > 0)
       \/ file.head = "macho" /\ (file.strings > 0 \/ "loader" \in file.marks)

\* yara_scanner.scan: god-mode rules first, then the signature base.
yaraScore(match) ==
  CASE match = "god_mode" -> Unit [] match = "signature" -> 9000 [] OTHER -> 0

-----------------------------------------------------------------------------
(* scan_file, classify_score.                                              *)

\* One part in a hundred of a score.
ensemble_NoFloor(file, match, behavioral) ==
  LET content == contentScore(file)
      yara == yaraScore(match)
  IN IF yara >= 9000 \/ content >= 8000 \/ isSpecificThreat(file)
     THEN 50 * content + 35 * yara + 15 * behavioral
     ELSE 30 * content + 25 * yara + 45 * behavioral
ensemble(file, match, behavioral) ==
  LET content == contentScore(file)
      yara == yaraScore(match)
  IN Larger(100 * Larger(content, yara),
            IF yara >= 9000 \/ content >= 8000 \/ isSpecificThreat(file)
            THEN 50 * content + 35 * yara + 15 * behavioral
            ELSE 30 * content + 25 * yara + 45 * behavioral)

classify_score(score) ==
  IF score >= 850000 THEN "CRITICAL"
  ELSE IF score >= 650000 THEN "HIGH"
  ELSE IF score >= 450000 THEN "MEDIUM" ELSE "NORMAL"

\* A god-mode match and a content score of 1.0 are CRITICAL at once.
scan_file(file, match, behavioral) ==
  IF match = "god_mode" \/ contentScore(file) = Unit
  THEN "CRITICAL"
  ELSE classify_score(ensemble(file, match, behavioral))

-----------------------------------------------------------------------------
(* Where a file goes after the scan.                                       *)

\* _detect_platform of the sandbox; jar is not among its runners.
detect_platform(file) ==
  CASE file.head = "elf" -> "elf"
    [] file.head = "mz" -> "windows"
    [] file.head = "macho" -> "macos"
    [] file.ext = "com" /\ file.head = "jump" -> "dos"
    [] file.ext = "script" -> "script"
    [] OTHER -> "unknown"

\* needs_sandbox of the gateway.
needs_sandbox(file) == file.ext \in {"script", "jar", "com"} \/ file.head = "elf"

-----------------------------------------------------------------------------
(* What the scores are for.                                                *)

Blocking == {"HIGH", "CRITICAL"}

\* One of these facts alone is enough to block a file.
Conclusive(file, match) ==
  \/ file.eicar
  \/ match # "none"
  \/ file.ext = "archive" /\ file.archive.kind = "container" /\ file.archive.executables > 0
  \/ file.ext = "archive" /\ \E k \in DOMAIN Read(file.archive) : Read(file.archive)[k].high >= 3
  \/ file.ext # "archive" /\ file.high >= 3
  \/ /\ file.ext # "archive" /\ file.head = "elf"
     /\ {"walk", "write", "replicate"} \subseteq file.marks

\* The same file with one more fact against it.
OneMore(file) ==
  {[file EXCEPT !.entropy = e] : e \in file.entropy .. Random}
  \cup {[file EXCEPT !.high = h] : h \in file.high .. 3}
  \cup {[file EXCEPT !.medium = @ + 1], [file EXCEPT !.strings = @ + 1],
        [file EXCEPT !.archive.executables = @ + 1]}
  \cup {[file EXCEPT !.marks = @ \cup {mark}] : mark \in Marks}
=============================================================================
