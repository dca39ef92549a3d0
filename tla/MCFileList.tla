----------------------------- MODULE MCFileList -----------------------------
(***************************************************************************)
(* An instance of FileList for TLC.                                        *)
(***************************************************************************)
EXTENDS FileList

CONSTANTS t1, t2, a, b, c

TwoTabs == {t1, t2}
ThreeFiles == {a, b, c}
TwoShown == {a, b}
=============================================================================
