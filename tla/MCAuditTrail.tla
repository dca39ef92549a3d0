----------------------------- MODULE MCAuditTrail -----------------------------
(***************************************************************************)
(* Instances of AuditTrail for TLC: the calls a1 and a2 have the same key  *)
(* and may be on different chains, b1 has a key of its own.                *)
(***************************************************************************)
EXTENDS AuditTrail

CONSTANTS sepolia, arbitrum, a1, a2, b1, q1, ka, kb

TwoChains == {sepolia, arbitrum}
ThreeCalls == {a1, a2, b1}
OneQuery == {q1}
Failing == {a1, q1}
SecondOnOther == [x \in Calls \cup Queries |-> IF x = a2 THEN arbitrum ELSE sepolia]
SharedKey == [c \in Calls |-> IF c = b1 THEN kb ELSE ka]
MCLevels == [c \in Calls |-> IF c = a1 THEN "NORMAL" ELSE IF c = a2 THEN "HIGH" ELSE "MEDIUM"]
MCFlags == [c \in Calls |-> c = a2]
=============================================================================
