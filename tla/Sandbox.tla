------------------------------- MODULE Sandbox -------------------------------
(***************************************************************************)
(* One analysis of backend/sandbox: /analyze picks a platform, creates a   *)
(* container for it, puts decoy files and the target into it, runs the     *)
(* target, looks at the decoys again and judges, and removes the container *)
(* in a finally clause.  Analyses share nothing but the docker daemon,     *)
(* which is external: its calls take time, raise, or lose their answers.   *)
(*                                                                         *)
(* The container's own process is a sleep: when it ends, everything in the *)
(* container ends with it.  A command inside a container may fail without  *)
(* the service noticing, since no exit code is read: the target too large  *)
(* for the shell's argument or for the tmpfs is one.  `timeout` sends a    *)
(* signal the target need not heed.                                        *)
(*                                                                         *)
(* Time is counted in units of ten seconds, and the limit of 15 seconds    *)
(* for DOS is taken as two of them.                                        *)
(***************************************************************************)
EXTENDS Integers, Sequences

CONSTANTS
  Traces,    \* the traces a target may leave
  MaxSlow    \* bound: time docker takes while no container runs

Images == {"elf", "dos", "wine"}

Quiet == [malicious |-> FALSE, suspicious |-> FALSE, forks |-> 0, execs |-> 0, writes |-> 0]

ASSUME SandboxAssumption == Quiet \in Traces /\ MaxSlow \in Nat

VARIABLES
  pc,         \* where the analysis is
  image,      \* the image of its container
  container,
  age,        \* time since the container started
  ran,        \* time the target has run
  slow,       \* time docker took while the container did not run
  target,     \* "absent" or "there", in the container
  decoys,     \* the decoy files
  baseline,   \* the decoys as the first look saw them
  trace,
  dropped,    \* more .com files than the decoys and the target (DOS)
  heeds,      \* the target ends at the signal of timeout
  verdict,
  faults      \* history: what went wrong

vars == <<pc, image, container, age, ran, slow, target, decoys, baseline, trace,
          dropped, heeds, verdict, faults>>

\* command = sleep
life_Ninety == [elf |-> 3, dos |-> 3, wine |-> 9]
life == [elf |-> 3, dos |-> 3, wine |-> 6]
\* timeout 20, 15, 30
limit_Thirty == [elf |-> 3, dos |-> 3, wine |-> 3]
limit == [elf |-> 2, dos |-> 2, wine |-> 3]

-----------------------------------------------------------------------------

Init ==
  /\ pc = "idle"
  /\ image = "elf"
  /\ container = "none"
  /\ age = 0 /\ ran = 0 /\ slow = 0
  /\ target = "absent"
  /\ decoys = "absent"
  /\ baseline = "none"
  /\ trace = Quiet
  /\ dropped = FALSE
  /\ heeds = TRUE
  /\ verdict = "none"
  /\ faults = {}

\* The docker calls of the three runners, in order.
steps_RunFirst ==
  [elf  |-> <<"create", "start", "copy", "install", "run", "baseline", "look">>,
   wine |-> <<"create", "start", "boot", "copy", "install", "run", "baseline", "look">>,
   dos  |-> <<"create", "start", "copy", "install", "run", "baseline", "count", "look">>]
steps ==
  [elf  |-> <<"create", "start", "copy", "baseline", "install", "run", "look">>,
   wine |-> <<"create", "start", "boot", "copy", "baseline", "install", "run", "look">>,
   dos  |-> <<"create", "start", "copy", "install", "baseline", "run", "count", "look">>]

Commands == {"boot", "copy", "baseline", "install", "run", "count", "look"}
Calls == {"create", "start", "remove"} \cup Commands

\* The call after s.
After(s) ==
  LET k == CHOOSE j \in DOMAIN steps[image] : steps[image][j] = s
  IN IF k = Len(steps[image]) THEN "remove" ELSE steps[image][k + 1]

Proceed(s) == pc' = After(s)

\* The except clause; the finally clause is the last call.
Error ==
  /\ verdict' = "ERROR"
  /\ pc' = "remove"

Held == <<image, age, ran, slow, heeds>>

\* What the runner's variables held when it returns.
Forget == target' = "absent" /\ baseline' = "none" /\ trace' = Quiet /\ dropped' = FALSE

-----------------------------------------------------------------------------
(* analyze                                                                 *)

Skip ==
  /\ pc = "idle"
  /\ pc' = "ended"
  /\ verdict' = "SKIPPED"
  /\ UNCHANGED <<Held, container, target, decoys, baseline, trace, dropped, faults>>

Begin(i) ==
  /\ pc = "idle"
  /\ pc' = "create"
  /\ image' = i
  /\ heeds' \in BOOLEAN
  /\ UNCHANGED <<container, age, ran, slow, target, decoys, baseline, trace, dropped,
                 verdict, faults>>

analyze(platform) ==
  CASE platform \in {"elf", "script"} -> Begin("elf")
    [] platform = "dos" -> Begin("dos")
    [] platform = "windows" -> Begin("wine")
    [] OTHER -> Skip

-----------------------------------------------------------------------------
(* The runners.                                                            *)

Create ==
  /\ pc = "create"
  /\ container' = "created"
  /\ Proceed("create")
  /\ UNCHANGED <<Held, target, decoys, baseline, trace, dropped, verdict, faults>>

\* create raises, and the variable container stays None; the daemon may have
\* made the container all the same.
CreateFails ==
  /\ pc = "create"
  /\ container' \in {"none", "created"}
  /\ pc' = "ended"
  /\ verdict' = "ERROR"
  /\ faults' = faults \cup {"create"}
  /\ UNCHANGED <<Held, target, decoys, baseline, trace, dropped>>

Start ==
  /\ pc = "start"
  /\ container' = "running"
  /\ Proceed("start")
  /\ UNCHANGED <<Held, target, decoys, baseline, trace, dropped, verdict, faults>>

\* A call raises on its own account, or because the container has ended.
CallFails ==
  /\ pc \in {"start"} \cup Commands
  /\ faults' = IF container = "exited" THEN faults ELSE faults \cup {"docker"}
  /\ Error
  /\ Forget
  /\ UNCHANGED <<Held, container, decoys>>

Executes(s) == pc = s /\ container = "running" /\ Proceed(s)

Boot ==
  /\ Executes("boot")
  /\ UNCHANGED <<Held, container, target, decoys, baseline, trace, dropped, verdict, faults>>

Copy ==
  /\ Executes("copy")
  /\ decoys' \in {"original", "absent"}
  /\ UNCHANGED <<Held, container, target, baseline, trace, dropped, verdict, faults>>

LookBefore ==
  /\ Executes("baseline")
  /\ baseline' = decoys
  /\ UNCHANGED <<Held, container, target, decoys, trace, dropped, verdict, faults>>

\* Write the target and make it executable; put_archive of DOS fails loudly.
Install ==
  /\ Executes("install")
  /\ target' \in IF image = "dos" THEN {"there"} ELSE {"there", "absent"}
  /\ UNCHANGED <<Held, container, decoys, baseline, trace, dropped, verdict, faults>>

\* The target changes the size of a decoy, or overwrites some in place, or
\* only deletes or renames some.  DOSBox is not traced.
Run ==
  /\ Executes("run")
  /\ IF target = "absent"
     THEN UNCHANGED <<decoys, trace, dropped>>
     ELSE /\ decoys' \in IF decoys = "original"
                         THEN {"original", "resized", "overwritten", "gone"} ELSE {decoys}
          /\ trace' \in IF image = "dos" THEN {Quiet} ELSE Traces
          /\ dropped' \in IF image = "dos" THEN BOOLEAN ELSE {FALSE}
  /\ UNCHANGED <<Held, container, target, baseline, verdict, faults>>

Count ==
  /\ Executes("count")
  /\ UNCHANGED <<Held, container, target, decoys, baseline, trace, dropped, verdict, faults>>

-----------------------------------------------------------------------------
(* The verdict.                                                            *)

\* _analyze_trace
analyze_trace(t) ==
  LET hits == t.suspicious \/ t.writes >= 3
  IN IF t.malicious \/ t.forks > 30 THEN "MALICIOUS"
     ELSE IF t.execs > 8 \/ hits THEN "SUSPICIOUS" ELSE "CLEAN"

\* sha256sum of all decoys sees every change; DOS compares the sizes of those
\* still there under their names.
modified(before, now) ==
  /\ before # "none" /\ now # "none"
  /\ IF image = "dos" THEN now = "resized" /\ before = "original" ELSE before # now

judge(now) ==
  IF modified(baseline, now) THEN "MALICIOUS"
  ELSE IF image = "dos" THEN (IF dropped THEN "SUSPICIOUS" ELSE "CLEAN")
  ELSE analyze_trace(trace)

LookAfter ==
  /\ Executes("look")
  /\ verdict' = judge(decoys)
  /\ Forget
  /\ UNCHANGED <<Held, container, decoys, faults>>

\* The container ends while the last command runs, whose output is empty.
LookIsCut ==
  /\ pc = "look" /\ container = "exited" /\ Proceed("look")
  /\ verdict' = judge("none")
  /\ faults' = faults \cup {"cut"}
  /\ Forget
  /\ UNCHANGED <<Held, container, decoys>>

-----------------------------------------------------------------------------
(* The finally clause.                                                     *)

removed_OnSuccess == IF verdict = "ERROR" THEN container ELSE "removed"
removed == "removed"

RemoveContainer ==
  /\ pc = "remove"
  /\ container' = removed
  /\ pc' = "ended"
  /\ UNCHANGED <<Held, target, decoys, baseline, trace, dropped, verdict, faults>>

\* The exception is passed over.
RemovalFails ==
  /\ pc = "remove"
  /\ pc' = "ended"
  /\ faults' = faults \cup {"remove"}
  /\ UNCHANGED <<Held, container, target, decoys, baseline, trace, dropped, verdict>>

-----------------------------------------------------------------------------
(* Time and restarts.                                                      *)

\* The container's sleep ends, and with it the container.
expires_Never(t) == FALSE
expires(t) == t = life[image]

\* A target that heeds the signal does not run longer than its limit.
Age ==
  /\ container = "running"
  /\ age < life[image]
  /\ pc = "run" /\ heeds => ran < limit[image]
  /\ age' = age + 1
  /\ ran' = IF pc = "run" THEN ran + 1 ELSE ran
  /\ container' = IF expires(age + 1) THEN "exited" ELSE "running"
  /\ UNCHANGED <<pc, image, slow, target, decoys, baseline, trace, dropped, heeds, verdict, faults>>

Wait ==
  /\ pc \in Calls
  /\ container # "running"
  /\ slow < MaxSlow
  /\ slow' = slow + 1
  /\ UNCHANGED <<pc, image, container, age, ran, target, decoys, baseline, trace, dropped,
                 heeds, verdict, faults>>

\* The service restarts; the daemon and its containers do not.
Crash ==
  /\ pc \in Calls
  /\ pc' = "lost"
  /\ verdict' = "none"
  /\ Forget
  /\ UNCHANGED <<Held, container, decoys, faults>>

Step ==
  \/ Create \/ CreateFails \/ Start \/ CallFails
  \/ Boot \/ Copy \/ LookBefore \/ Install \/ Run \/ Count \/ LookAfter \/ LookIsCut
  \/ RemoveContainer \/ RemovalFails

elapsed == age + slow

-----------------------------------------------------------------------------

Verdicts == {"CLEAN", "SUSPICIOUS", "MALICIOUS", "ERROR", "SKIPPED"}

SandboxTypeOK ==
  /\ pc \in {"idle", "ended", "lost"} \cup Calls
  /\ image \in Images
  /\ container \in {"none", "created", "running", "exited", "removed"}
  /\ age \in 0 .. life[image] /\ ran \in 0 .. age /\ slow \in 0 .. MaxSlow
  /\ target \in {"absent", "there"}
  /\ decoys \in {"absent", "original", "resized", "overwritten", "gone"}
  /\ baseline \in {"none", "absent", "original"}
  /\ trace \in Traces
  /\ dropped \in BOOLEAN /\ heeds \in BOOLEAN
  /\ verdict \in {"none"} \cup Verdicts
  /\ faults \subseteq {"create", "docker", "cut", "remove"}
=============================================================================
