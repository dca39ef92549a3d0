------------------------------ MODULE Screening ------------------------------
(***************************************************************************)
(* What an upload passes before it is stored: the gateway's upload_file    *)
(* asks the detection service for a level (ContentScan) and, for some      *)
(* files, the sandbox for a verdict (Sandbox), and blocks the upload or    *)
(* lets it pass.  Both services fail open: without an answer the level is  *)
(* NORMAL and the verdict ERROR, which block nothing.                      *)
(*                                                                         *)
(* The gateway waits 90 seconds for the sandbox.  When it stops waiting,   *)
(* the analysis goes on without it.                                        *)
(***************************************************************************)
EXTENDS ContentScan, Sandbox

CONSTANTS
  Uploaded,    \* files that are uploaded
  Behaviours   \* behavioural scores

ASSUME ScreeningAssumption ==
  /\ Uploaded \subseteq FileFacts
  /\ Behaviours \subseteq 0 .. Unit

VARIABLES
  upload,      \* where the upload is, or how it was decided
  file,        \* the file, until it has been scanned
  match,       \* which YARA rules match it
  behavioral,  \* the behavioural score of the request
  level,       \* the level the scan gave it
  route,       \* the platform the sandbox sees in it
  unheard      \* history: the sandbox's answer was lost on its way

gateway == <<upload, file, match, behavioral, level, route, unheard>>

Matches == {"none", "signature", "god_mode"}

NoFile == [head |-> "none"]

ScreeningInit ==
  /\ Init
  /\ upload = "scanning"
  /\ file \in Uploaded
  /\ match \in Matches
  /\ behavioral \in Behaviours
  /\ level = "none"
  /\ route = "none"
  /\ unheard = FALSE

\* timeout=90 of sandbox_scan
Patience == 9

\* The answer to the upload, given the level and a verdict.
decide(ai_level, sb_verdict) ==
  IF sb_verdict \in {"MALICIOUS", "SUSPICIOUS"} \/ ai_level \in Blocking
  THEN "blocked" ELSE "passed"

-----------------------------------------------------------------------------

\* ai_scan; files over the service's own limit, and its errors, are NORMAL.
Scan ==
  /\ upload = "scanning"
  /\ level' \in {scan_file(file, match, behavioral), "NORMAL"}
  /\ route' = IF file.large THEN "unknown" ELSE detect_platform(file)
  /\ upload' = IF level' # "CRITICAL" /\ needs_sandbox(file) THEN "waiting"
               ELSE decide(level', "SKIPPED")
  /\ file' = NoFile /\ match' = "none" /\ behavioral' = 0
  /\ UNCHANGED <<vars, unheard>>

\* The sandbox receives the request.
Receive ==
  /\ upload = "waiting"
  /\ analyze(route)
  /\ UNCHANGED gateway

HearVerdict ==
  /\ upload = "waiting"
  /\ pc = "ended" /\ elapsed <= Patience
  /\ upload' = decide(level, verdict)
  /\ UNCHANGED <<vars, file, match, behavioral, level, route, unheard>>

\* The sandbox stopped, took too long, or the connection broke.
HearNothing ==
  /\ upload = "waiting"
  /\ unheard' = (pc # "lost" /\ elapsed < Patience)
  /\ upload' = decide(level, "ERROR")
  /\ UNCHANGED <<vars, file, match, behavioral, level, route>>

SandboxStep == Step /\ UNCHANGED gateway
TimePasses == (Age \/ Wait) /\ UNCHANGED gateway
SandboxCrash == Crash /\ UNCHANGED gateway

Settled == upload \in {"blocked", "passed"} /\ pc \in {"idle", "ended", "lost"}
Finished == Settled /\ container # "running" /\ UNCHANGED <<vars, gateway>>

ScreeningNext ==
  \/ Scan \/ Receive \/ HearVerdict \/ HearNothing
  \/ SandboxStep \/ TimePasses \/ SandboxCrash
  \/ Finished

\* Time passes in a container whatever the services do.
ScreeningSpec ==
  /\ ScreeningInit
  /\ [][ScreeningNext]_<<vars, gateway>>
  /\ WF_<<vars, gateway>>(Age /\ UNCHANGED gateway)
  /\ WF_<<vars, gateway>>(SandboxStep)

-----------------------------------------------------------------------------
(* Properties.                                                             *)

TypeOK ==
  /\ SandboxTypeOK
  /\ upload \in {"scanning", "waiting", "blocked", "passed"}
  /\ file = NoFile \/ file \in Uploaded
  /\ match \in Matches /\ behavioral \in Behaviours \cup {0}
  /\ level \in {"none", "NORMAL", "MEDIUM"} \cup Blocking
  /\ route \in {"none", "elf", "windows", "macos", "dos", "script", "unknown"}
  /\ unheard \in BOOLEAN

blocks(f, m, b) == scan_file(f, m, b) \in Blocking

\* The scan blocks a file for what is in it: one conclusive fact is enough
\* whatever else is scored with it, a further fact never lets a blocked file
\* pass, and the user's behaviour alone neither blocks a file nor saves one,
\* although it makes up to 45 of 100 parts of the score and the weights change
\* with the evidence.
EvidenceDecides ==
  upload = "scanning" =>
    /\ Conclusive(file, match) => blocks(file, match, behavioral)
    /\ blocks(file, match, behavioral) =>
         \A more \in OneMore(file) : blocks(more, match, behavioral)
    /\ \A b \in Behaviours : blocks(file, match, b) = blocks(file, match, behavioral)

\* A file the sandbox finds malicious or suspicious does not pass, though the
\* gateway gives up on slow analyses: only when the answer was lost, or docker
\* took 30 seconds outside of the container's life, has it given up before.
BadVerdictBlocks ==
  pc = "ended" /\ verdict \in {"MALICIOUS", "SUSPICIOUS"} /\ upload = "passed" =>
    unheard \/ slow >= 3

\* A change to the decoys is reported whatever the trace shows, also that some
\* are deleted or renamed, unless the container ended under the last look or,
\* in DOS, none of the decoys still there changed its size.
InfectionIsReported ==
  verdict \in {"CLEAN", "SUSPICIOUS", "MALICIOUS"} /\ decoys \in {"resized", "overwritten", "gone"} =>
    \/ verdict = "MALICIOUS"
    \/ "cut" \in faults
    \/ image = "dos" /\ decoys # "resized"

\* The container's life is long enough for the analysis: if no call raises and
\* the target ends at its time limit, an analysis comes to a verdict unless the
\* other calls took ten seconds of it.
LifeIsLongEnough ==
  verdict = "ERROR" /\ heeds /\ faults \cap {"create", "docker"} = {} => age - ran >= 1

\* An analysis that has ended has removed its container, whether it came to a
\* verdict or not; what is left behind was left by a failed call to docker.
ContainerIsRemoved ==
  pc = "ended" /\ container \notin {"none", "removed"} => faults \cap {"create", "remove"} # {}

\* No container runs for ever, also none that a restart or a failed removal
\* left behind or whose target never ends.
ContainersStop == container = "running" ~> container # "running"
=============================================================================
