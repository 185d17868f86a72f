---------------------------- MODULE MCMacHelper ----------------------------
(***************************************************************************)
(* Instances of MacHelper: two subtitles, two font files.                  *)
(***************************************************************************)
EXTENDS MacHelper

CONSTANTS f1, f2

MCFiles == {f1, f2}
=============================================================================
