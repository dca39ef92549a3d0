--------------------------- MODULE MCGatewayFiles ---------------------------
(***************************************************************************)
(* Three instances of GatewayFiles for TLC in one run.  In the first two   *)
(* uploads of two chunks and of one come under the same file id, with a    *)
(* download and a delete by the service's own account, and neither is a    *)
(* request refused nor does the gateway restart.  In the second one upload *)
(* is shared with alice, whose download and delete race with grants and    *)
(* revocations.  In the third the service's account downloads one upload   *)
(* and deletes it twice.                                                   *)
(***************************************************************************)
EXTENDS GatewayFiles

CONSTANTS f, empty, service, alice, zero, u1, u2, d0, d1, x0, x1, x2

U12 == {u1, u2}
U1 == {u1}
D01 == {d0, d1}
D1 == {d1}
X012 == {x0, x1, x2}
None == {}
MCAddresses == {service, alice, zero}
OneFile == [r \in Requests |-> f]
Users == [r \in Requests |-> IF r \in {d0, x0, x2} THEN service ELSE alice]
Counts == [u \in Uploads |-> IF u = u1 THEN 2 ELSE 1]

VARIABLE instance

\* The requests that do not come in an instance.
Absent ==
  CASE instance = "ids"     -> {d1, x1, x2}
    [] instance = "sharing" -> {u2, d0, x0, x2}
    [] instance = "deletes" -> {u2, d1, x1}

MCInit == Init /\ instance \in {"ids", "sharing", "deletes"}
MCNext ==
  /\ Next
  /\ UNCHANGED instance
  /\ \A r \in Absent \cap Requests : pc'[r] = "idle"
  /\ instance # "sharing" => shares' = 0
  /\ instance = "ids" => \A r \in Requests : pc'[r] \notin {"401", "refusing", "503", "lost"}
MCSpec == MCInit /\ [][MCNext]_<<vars, instance>>
=============================================================================
