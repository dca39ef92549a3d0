-------------------------- MODULE MCAnomalyDetector --------------------------
(***************************************************************************)
(* Two instances of AnomalyDetector for TLC in one run, all requests of    *)
(* one user.  In the first a scan, another request and a reseed of the     *)
(* demo panel share the buffer and the model, within one day, and what a   *)
(* request has to write to the history it writes without a pause.  In the  *)
(* second another request and two scans that their content blocks share    *)
(* the history, command by command, while days and weeks pass.             *)
(***************************************************************************)
EXTENDS AnomalyDetector

CONSTANTS q1, q2, q3, q4, p1, alice

Blocking == {q3, q4}
AllScans == {q1} \cup Blocking
OneDetect == {q2}
OneReseed == {p1}
OneUser == {alice}
AllAlice == [r \in Requests \cup Reseeds |-> alice]

VARIABLE instance

\* What does not come in an instance, and what waits for no other.
Absent ==
  CASE instance = "models"  -> {q3, q4}
    [] instance = "history" -> {q1, p1}

MCInit == Init /\ instance \in {"models", "history"}
MCNext ==
  /\ Next
  /\ UNCHANGED instance
  /\ \A r \in Absent : pc'[r] = "idle"
  /\ instance = "models" =>
       /\ old' = {}
       /\ \A r \in Requests : pc[r] \in {"persist", "trimEvents", "expire", "publish"} =>
            pc'[r] = "lost" \/ (pc'[r] # pc[r] /\ UNCHANGED failures)
MCSpec == MCInit /\ [][MCNext]_<<vars, instance>>
=============================================================================
