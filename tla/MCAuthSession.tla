---------------------------- MODULE MCAuthSession ----------------------------
(***************************************************************************)
(* Instances of AuthSession for TLC: the calls c1 and c2 run in one tab,   *)
(* c3 in the same one or in another.                                       *)
(***************************************************************************)
EXTENDS AuthSession

CONSTANTS tab1, tab2, alice, bob, c1, c2, c3

TwoTabs == {tab1, tab2}
OneTab == {tab1}
TwoAddresses == {alice, bob}
OneAddress == {alice}
ThreeCalls == {c1, c2, c3}
AllInOne == [c \in Calls |-> tab1]
LastInOther == [c \in Calls |-> IF c = c3 THEN tab2 ELSE tab1]
AllAlice == [c \in Calls |-> alice]
LastIsBob == [c \in Calls |-> IF c = c3 THEN bob ELSE alice]
=============================================================================
