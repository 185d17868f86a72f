---------------------------- MODULE FontLease ----------------------------
(***************************************************************************)
(* What a loading session promises about the fonts it registers with the   *)
(* operating system: a file is taken at most once, only while loading;     *)
(* once a stop has been requested at most one more file is taken; and the  *)
(* session becomes idle again only after everything it took was given      *)
(* back.  FontLoad (the code of font_loader.c) is shown to implement it.   *)
(***************************************************************************)
CONSTANT Files   \* the font files a session may register

VARIABLES
  phase,         \* "idle", "loading", "loaded" or "releasing"
  held,          \* the files registered by this session
  stop,          \* has a stop been requested?
  late           \* was a file taken after the stop was requested?

lvars == <<phase, held, stop, late>>

LInit ==
  /\ phase = "idle"
  /\ held = {}
  /\ stop = FALSE
  /\ late = FALSE

Begin ==
  /\ phase = "idle"
  /\ phase' = "loading"
  /\ UNCHANGED <<held, stop, late>>

\* The stop request may arrive between the decision to take a file and the
\* registration itself: that one file may still be taken, and no other.
Acquire(f) ==
  /\ phase = "loading"
  /\ f \notin held
  /\ ~late
  /\ held' = held \cup {f}
  /\ late' = stop
  /\ UNCHANGED <<phase, stop>>

Finish ==
  /\ phase = "loading"
  /\ phase' = "loaded"
  /\ UNCHANGED <<held, stop, late>>

BeginRelease ==
  /\ phase = "loaded"
  /\ phase' = "releasing"
  /\ UNCHANGED <<held, stop, late>>

Release(f) ==
  /\ phase = "releasing"
  /\ f \in held
  /\ held' = held \ {f}
  /\ UNCHANGED <<phase, stop, late>>

End ==
  /\ phase = "releasing"
  /\ held = {}
  /\ phase' = "idle"
  /\ UNCHANGED <<held, stop, late>>

RequestStop ==
  /\ ~stop
  /\ stop' = TRUE
  /\ UNCHANGED <<phase, held, late>>

LNext ==
  \/ Begin \/ Finish \/ BeginRelease \/ End \/ RequestStop
  \/ \E f \in Files : Acquire(f) \/ Release(f)

LSpec == LInit /\ [][LNext]_lvars
=============================================================================
