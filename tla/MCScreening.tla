----------------------------- MODULE MCScreening -----------------------------
(***************************************************************************)
(* An instance of Screening for TLC: the files that are uploaded, in       *)
(* families that vary the facts about one format.                          *)
(***************************************************************************)
EXTENDS Screening

NoArchive == [kind |-> "opaque", executables |-> 0, oversized |-> FALSE, texts |-> <<>>]

Plain == [ext |-> "other", head |-> "plain", entropy |-> 0, marks |-> {}, strings |-> 0,
          high |-> 0, medium |-> 0, eicar |-> FALSE, large |-> FALSE, archive |-> NoArchive]

ElfFiles ==
  {[Plain EXCEPT !.ext = e, !.head = "elf", !.entropy = n, !.marks = s, !.high = h] :
     e \in {"other", "script"}, n \in {0, 3}, h \in {0, 1},
     s \in SUBSET {"walk", "write", "replicate", "ptrace", "procmem"}}

PEFiles ==
  {[Plain EXCEPT !.ext = e, !.head = "mz", !.entropy = n, !.marks = s] :
     e \in {"pe", "com", "other"}, n \in 0 .. 3,
     s \in SUBSET {"inject", "autorun", "encrypt", "debugger"}}

MachOFiles ==
  {[Plain EXCEPT !.head = "macho", !.entropy = n, !.marks = s, !.strings = k, !.medium = m] :
     n \in {0, 2, 3}, s \in SUBSET {"loader"}, k \in 0 .. 4, m \in {0, 3}}

TextFiles ==
  {[Plain EXCEPT !.ext = e, !.head = IF e = "com" THEN "jump" ELSE "plain",
                 !.entropy = n, !.high = h, !.medium = m, !.eicar = x] :
     e \in {"script", "jar", "document", "com", "other"}, n \in 0 .. 3, h \in 0 .. 3,
     m \in 0 .. 3, x \in BOOLEAN}

SomeTexts == [high : {0, 1, 3}, medium : {0, 2}]

ArchiveFiles ==
  {[Plain EXCEPT !.ext = "archive", !.archive = a] :
     a \in [kind : {"container"}, executables : 0 .. 2, oversized : BOOLEAN,
            texts : {<<>>} \cup [1 .. 1 -> SomeTexts] \cup [1 .. 2 -> SomeTexts]]
           \cup [kind : {"compressed"}, executables : {0}, oversized : {FALSE},
                 texts : [1 .. 1 -> SomeTexts]]}

AllFiles ==
  ElfFiles \cup PEFiles \cup MachOFiles \cup TextFiles \cup ArchiveFiles
    \cup {[Plain EXCEPT !.ext = "script", !.large = TRUE]}

NoneOrAll == {0, Unit}

\* One trace for each rule of analyze_trace, at and past its limit.
TraceKinds ==
  {Quiet,
   [Quiet EXCEPT !.forks = 30, !.execs = 8, !.writes = 2],
   [Quiet EXCEPT !.malicious = TRUE],
   [Quiet EXCEPT !.suspicious = TRUE],
   [Quiet EXCEPT !.forks = 31],
   [Quiet EXCEPT !.execs = 9],
   [Quiet EXCEPT !.writes = 3]}
=============================================================================
