----------------------------- MODULE HelperLife -----------------------------
(***************************************************************************)
(* The life of one helper process, as far as its parent relies on it: the  *)
(* helper works on a load, says that it is ready, holds the fonts until it *)
(* is asked to stop, and ends.  MacHelper (main_mac.c) is shown to live    *)
(* like this, and MacSession (FLManager.m) supervises such helpers.        *)
(*                                                                         *)
(* A life is a record: "reported" tells whether the ready event has left   *)
(* the process, "st" is one of                                             *)
(*   "none"     not started                                                *)
(*   "work"     not ready yet                                              *)
(*   "hold"     ready, fonts loaded, waiting                               *)
(*   "leave"    ready, and on its way out                                  *)
(*   "done"     ended with status 0                                        *)
(*   "failed"   ended with another status, or by a signal                  *)
(***************************************************************************)
Life(st, reported) == [st |-> st, reported |-> reported]

LifeStates == {"none", "work", "hold", "leave", "done", "failed"}

Lives == [st : LifeStates, reported : BOOLEAN]

Runs(life) == life.st \in {"work", "hold", "leave"}

HasEnded(life) == life.st \in {"done", "failed"}

\* The steps a helper takes by itself.  A load may end with status 0 and no ready
\* event: FL_OS_ERROR.
NextLives(life, asked) ==
  CASE life.st = "work" -> {Life("hold", TRUE), Life("leave", TRUE), Life("done", FALSE)}
    [] life.st = "hold" -> IF asked THEN {Life("leave", TRUE)} ELSE {}
    [] life.st = "leave" -> {Life("done", TRUE)}
    [] OTHER -> {}

\* A running helper may fail at any moment, for an error or a signal.
Failed(life) == Life("failed", life.reported)
=============================================================================
