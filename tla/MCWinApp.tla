----------------------------- MODULE MCWinApp -----------------------------
(***************************************************************************)
(* Instances of WinApp: two font files.                                    *)
(***************************************************************************)
EXTENDS WinApp

CONSTANTS f1, f2

MCFiles == {f1, f2}
=============================================================================
