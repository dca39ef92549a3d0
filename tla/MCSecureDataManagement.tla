----------------------- MODULE MCSecureDataManagement -----------------------
(***************************************************************************)
(* Instances of SecureDataManagement for TLC.                              *)
(***************************************************************************)
EXTENDS SecureDataManagement

CONSTANTS alice, bob, zero, empty, f1, c1, c2

AclAddresses == {alice, bob, zero}
MCFileIds == {empty, f1}
MCChunks == {c1, c2}
MCChunkLists == {<<c1>>, <<c1, c2>>}

=============================================================================
