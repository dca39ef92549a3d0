------------------------------ MODULE FileStore ------------------------------
(***************************************************************************)
(* What the storage service promises its callers, without chunks in        *)
(* flight, pools or crashes.  A file has a fixed sequence of pieces.  It   *)
(* is complete from the moment an upload of it is answered with success    *)
(* until somebody asks for its deletion, and empty for good once a delete  *)
(* is confirmed; in both phases its content does not change.  A reader     *)
(* collects pieces one at a time and is served only a beginning of the     *)
(* file, or refused.                                                       *)
(***************************************************************************)
EXTENDS Naturals, Sequences

CONSTANTS
  Files,
  Readers,
  FileRead,   \* the file a reader asks for
  Whole       \* the pieces of a file, in order

VARIABLES
  phase,      \* of each file
  content,    \* the pieces of each file that are there
  got,        \* the pieces each reader has collected
  answer      \* each reader's answer

vars == <<phase, content, got, answer>>

Init ==
  /\ phase = [f \in Files |-> "none"]
  /\ content = [f \in Files |-> {}]
  /\ got = [d \in Readers |-> {}]
  /\ answer = [d \in Readers |-> "open"]

Pieces(f) == {Whole[f][k] : k \in DOMAIN Whole[f]}

Add(f) ==
  /\ phase[f] \in {"none", "deleting"}
  /\ \E p \in Pieces(f) : content' = [content EXCEPT ![f] = @ \cup {p}]
  /\ UNCHANGED <<phase, got, answer>>

Commit(f) ==
  /\ phase[f] = "none"
  /\ content[f] = Pieces(f)
  /\ phase' = [phase EXCEPT ![f] = "stored"]
  /\ UNCHANGED <<content, got, answer>>

AskDelete(f) ==
  /\ phase[f] \in {"none", "stored"}
  /\ phase' = [phase EXCEPT ![f] = "deleting"]
  /\ UNCHANGED <<content, got, answer>>

Remove(f) ==
  /\ phase[f] = "deleting"
  /\ \E p \in content[f] : content' = [content EXCEPT ![f] = @ \ {p}]
  /\ UNCHANGED <<phase, got, answer>>

Confirm(f) ==
  /\ phase[f] = "deleting"
  /\ content[f] = {}
  /\ phase' = [phase EXCEPT ![f] = "gone"]
  /\ UNCHANGED <<content, got, answer>>

Collect(d) ==
  /\ answer[d] = "open"
  /\ \E p \in content[FileRead[d]] : got' = [got EXCEPT ![d] = @ \cup {p}]
  /\ UNCHANGED <<phase, content, answer>>

Serve(d) ==
  /\ answer[d] = "open"
  /\ \E n \in 0 .. Len(Whole[FileRead[d]]) :
       got[d] = {Whole[FileRead[d]][k] : k \in 1 .. n}
  /\ answer' = [answer EXCEPT ![d] = "served"]
  /\ UNCHANGED <<phase, content, got>>

\* A restart refuses all readers that are still open at once.
Refuse(ds) ==
  /\ \A d \in ds : answer[d] = "open"
  /\ answer' = [d \in Readers |-> IF d \in ds THEN "refused" ELSE answer[d]]
  /\ UNCHANGED <<phase, content, got>>

Next ==
  \/ \E f \in Files :
       \/ Add(f) \/ Commit(f)
       \/ AskDelete(f) \/ Remove(f) \/ Confirm(f)
  \/ \E d \in Readers : Collect(d) \/ Serve(d)
  \/ \E ds \in SUBSET Readers : Refuse(ds)

Spec == Init /\ [][Next]_vars
=============================================================================
