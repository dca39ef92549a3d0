-------------------------- MODULE MCStorageService --------------------------
(***************************************************************************)
(* Instances of StorageService for TLC.                                    *)
(***************************************************************************)
EXTENDS StorageService

CONSTANTS f, u1, d1, x1, secret, other

\* One file that is uploaded, downloaded under some password and deleted.
OneFile == [r \in Requests |-> f]
TwoPasswords == {secret, other}
AllSecret == [u \in Uploads |-> secret]
ThreeChunks == [u \in Uploads |-> 5]

OneUpload == {u1}
OneDownload == {d1}
OneDelete == {x1}
=============================================================================
