----------------------------- MODULE MacHelper -----------------------------
(***************************************************************************)
(* main_mac.c, the helper process of the macOS program: it loads the fonts *)
(* of the subtitles, reports on stdout, and holds the fonts until stdin    *)
(* closes or a signal arrives.  What fl_load_fonts and fl_unload_fonts do  *)
(* is the lease of FontLease, which FontLoad refines.                      *)
(*                                                                         *)
(* The parent process holds the other ends of the pipes; signals arrive    *)
(* between any two steps.                                                  *)
(***************************************************************************)
EXTENDS Naturals, Sequences, FiniteSets, HelperLife

CONSTANTS
  Files,        \* font files the subtitles may need
  NumSubs,      \* --subtitle arguments
  ReaderLeaves  \* may the parent close its end of stdout (or crash)?

ASSUME HelperAssumption ==
  /\ IsFiniteSet(Files)
  /\ NumSubs \in Nat \ {0}
  /\ ReaderLeaves \in BOOLEAN

VARIABLES
  pc,           \* where the process is
  sub,          \* the local i of the loop over the subtitles
  r,            \* the local r of run_loader
  wanted,       \* num_sub_font is not 0
  hasFaces,     \* the font set has faces
  interrupted,  \* g_interrupted
  stdin,        \* "open", "data" (something to read) or "eof"
  reader,       \* the parent reads stdout
  buf,          \* what stdio holds back of stdout
  out,          \* the events that reached the pipe
  phase, held, stop, late   \* the loader: stop is event_cancel

lease == <<phase, held, stop, late>>
pipes == <<stdin, reader>>
output == <<buf, out>>
locals == <<sub, r, wanted, hasFaces>>
vars == <<pc, locals, interrupted, pipes, output, lease>>

Loader == INSTANCE FontLease

Gone == pc \in {"exited", "killed"}
Waiting == pc \in {"wait", "select", "blocked"}

Init ==
  /\ pc = "init"
  /\ sub = 0 /\ r = "ok" /\ wanted = FALSE /\ hasFaces = FALSE
  /\ interrupted = FALSE
  /\ stdin = "open" /\ reader = TRUE
  /\ buf = << >> /\ out = << >>
  /\ Loader!LInit

(***************************************************************************)
(* stdout is a pipe: stdio writes when its buffer is full or flushed, and  *)
(* a write nobody can read any more is SIGPIPE, which ends the process.    *)
(***************************************************************************)
Write(events, next) ==
  IF reader THEN out' = out \o buf \o events /\ buf' = << >> /\ pc' = next
            ELSE pc' = "killed" /\ UNCHANGED output

\* json_emit
Emit(events, next) ==
  \/ buf' = buf \o events /\ pc' = next /\ UNCHANGED out
  \/ Write(events, next)

\* json_event_ready and the fflush after it
EmitReady(next) == Write(<<[event |-> "ready", loaded |-> Cardinality(held)]>>, next)

(***************************************************************************)
(* run_loader: each stage starts with check_interrupted.                   *)
(***************************************************************************)
\* fl_init, the signal handlers and the font path; without memory for it,
\* nothing else is done.
Start ==
  /\ pc = "init"
  /\ \/ pc' = "subs" /\ UNCHANGED r
     \/ pc' = "freed" /\ r' = "oom"
  /\ UNCHANGED <<sub, wanted, hasFaces, interrupted, pipes, output, lease>>

Stages == {"subs", "cache", "scan", "load"}

CheckInterrupted ==
  /\ pc \in Stages
  /\ pc = "subs" => sub < NumSubs
  /\ interrupted
  /\ r' = "os"
  /\ pc' = "cleanup"
  /\ UNCHANGED <<sub, wanted, hasFaces, interrupted, pipes, output, lease>>

\* Mutant of AddSubtitle: i <= subtitle_count.
MutAddSubtitle ==
  /\ pc = "subs"
  /\ sub <= NumSubs
  /\ ~interrupted
  /\ \/ Emit(<< >>, "subs") /\ sub' = sub + 1 /\ wanted' \in {wanted, TRUE}
        /\ UNCHANGED r
     \/ Emit(<< >>, "cleanup") /\ r' = "oom" /\ UNCHANGED <<sub, wanted>>
  /\ UNCHANGED <<hasFaces, interrupted, pipes, lease>>

\* add_subtitle: FL_OS_ERROR, which a cancelled walk returns, counts as OK.
AddSubtitle ==
  /\ pc = "subs"
  /\ sub < NumSubs
  /\ ~interrupted
  /\ \/ Emit(<< >>, "subs") /\ sub' = sub + 1 /\ wanted' \in {wanted, TRUE}
        /\ UNCHANGED r
     \/ Emit(<< >>, "cleanup") /\ r' = "oom" /\ UNCHANGED <<sub, wanted>>
  /\ UNCHANGED <<hasFaces, interrupted, pipes, lease>>

NothingNeeded ==
  /\ pc = "subs"
  /\ sub = NumSubs
  /\ ~wanted
  /\ EmitReady("cleanup")
  /\ UNCHANGED <<locals, interrupted, pipes, lease>>

SubsDone ==
  /\ pc = "subs"
  /\ sub = NumSubs
  /\ wanted
  /\ Emit(<< >>, "cache")
  /\ UNCHANGED <<locals, interrupted, pipes, lease>>

\* fl_scan_fonts with the cache file; without faces, whatever it returned, the
\* directory is scanned.
LoadCache ==
  /\ pc = "cache"
  /\ ~interrupted
  /\ hasFaces' \in BOOLEAN
  /\ Emit(<< >>, IF hasFaces' THEN "load" ELSE "scan")
  /\ UNCHANGED <<sub, r, wanted, interrupted, pipes, lease>>

\* fl_scan_fonts of the directory and, when it succeeds, fl_save_cache.
ScanFonts ==
  /\ pc = "scan"
  /\ ~interrupted
  /\ \/ /\ r' = "ok"
        /\ hasFaces' \in BOOLEAN
        /\ Emit(<< >>, "load")
     \/ /\ r' \in {"os", "oom"}
        /\ UNCHANGED hasFaces
        /\ Emit(<< >>, "cleanup")
  /\ UNCHANGED <<sub, wanted, interrupted, pipes, lease>>

LoadFonts ==
  /\ pc = "load"
  /\ ~interrupted
  /\ Loader!Begin
  /\ Emit(<< >>, "loading")
  /\ UNCHANGED <<locals, interrupted, pipes>>

LoadFile(f) ==
  /\ pc = "loading"
  /\ hasFaces
  /\ Loader!Acquire(f)
  /\ UNCHANGED <<pc, locals, interrupted, pipes, output>>

\* Mutant of EndLoad: return r instead of goto cleanup.
MutEndLoad ==
  /\ pc = "loading"
  /\ Loader!Finish
  /\ \/ r' = "ok" /\ pc' = "results"
     \/ stop /\ r' = "os" /\ pc' = "freed"
  /\ UNCHANGED <<sub, wanted, hasFaces, interrupted, pipes, output>>

EndLoad ==
  /\ pc = "loading"
  /\ Loader!Finish
  /\ \/ r' = "ok" /\ pc' = "results"
     \/ stop /\ r' = "os" /\ pc' = "cleanup"
  /\ UNCHANGED <<sub, wanted, hasFaces, interrupted, pipes, output>>

\* One event for each record of loaded_font; here those of the files held.
Results ==
  /\ pc = "results"
  /\ Emit([i \in 1 .. Cardinality(held) |-> [event |-> "font", loaded |-> 1]], "ready")
  /\ UNCHANGED <<locals, interrupted, pipes, lease>>

\* The ready event; without a loaded font there is nothing to wait for.
Ready ==
  /\ pc = "ready"
  /\ EmitReady(IF held = {} THEN "cleanup" ELSE "wait")
  /\ UNCHANGED <<locals, interrupted, pipes, lease>>

(***************************************************************************)
(* wait_for_shutdown                                                       *)
(***************************************************************************)
\* while (!g_interrupted)
WaitTest ==
  /\ pc = "wait"
  /\ pc' = IF interrupted THEN "unload" ELSE "select"
  /\ UNCHANGED <<locals, interrupted, pipes, output, lease>>

\* select blocks without a time limit until stdin is readable; a signal that
\* arrived before the call does not interrupt it.
Select ==
  /\ pc = "select"
  /\ pc' = "blocked"
  /\ UNCHANGED <<locals, interrupted, pipes, output, lease>>

\* Mutants of ReadStdin: any input ends the wait; the end of file does not.
MutReadAny ==
  /\ pc = "blocked"
  /\ stdin # "open"
  /\ pc' = "unload"
  /\ stdin' = IF stdin = "data" THEN "open" ELSE stdin
  /\ UNCHANGED <<locals, interrupted, reader, output, lease>>

MutReadOn ==
  /\ pc = "blocked"
  /\ stdin # "open"
  /\ pc' = "wait"
  /\ stdin' = IF stdin = "data" THEN "open" ELSE stdin
  /\ UNCHANGED <<locals, interrupted, reader, output, lease>>

ReadStdin ==
  /\ pc = "blocked"
  /\ stdin # "open"
  /\ pc' = IF stdin = "eof" THEN "unload" ELSE "wait"
  /\ stdin' = IF stdin = "data" THEN "open" ELSE stdin
  /\ UNCHANGED <<locals, interrupted, reader, output, lease>>

(***************************************************************************)
(* fl_unload_fonts after the wait, or for what a failed load left behind;  *)
(* then fl_free, and the exit status: 0 for FL_OK and FL_OS_ERROR.         *)
(***************************************************************************)
BeginUnload ==
  /\ pc \in {"unload", "cleanup"}
  /\ phase = "loaded"
  /\ Loader!BeginRelease
  /\ IF pc = "unload" THEN Emit(<< >>, "unloading")
                      ELSE pc' = "unloading" /\ UNCHANGED output
  /\ UNCHANGED <<locals, interrupted, pipes>>

UnloadFile(f) ==
  /\ pc = "unloading"
  /\ Loader!Release(f)
  /\ UNCHANGED <<pc, locals, interrupted, pipes, output>>

EndUnload ==
  /\ pc = "unloading"
  /\ Loader!End
  /\ Emit(<< >>, "freed")
  /\ UNCHANGED <<locals, interrupted, pipes>>

NothingLoaded ==
  /\ pc = "cleanup"
  /\ phase = "idle"
  /\ pc' = "freed"
  /\ UNCHANGED <<locals, interrupted, pipes, output, lease>>

\* The C library flushes stdout on the way out.
Exit ==
  /\ pc = "freed"
  /\ IF buf = << >> THEN pc' = "exited" /\ UNCHANGED output
                    ELSE Write(<< >>, "exited")
  /\ UNCHANGED <<locals, interrupted, pipes, lease>>

Helper ==
  \/ Start \/ CheckInterrupted \/ AddSubtitle \/ NothingNeeded \/ SubsDone
  \/ LoadCache \/ ScanFonts \/ LoadFonts \/ (\E f \in Files : LoadFile(f))
  \/ EndLoad \/ Results \/ Ready \/ WaitTest \/ Select \/ ReadStdin
  \/ BeginUnload \/ (\E f \in Files : UnloadFile(f)) \/ EndUnload
  \/ NothingLoaded \/ Exit

(***************************************************************************)
(* The parent and the session                                              *)
(***************************************************************************)
\* on_signal.  Before the handlers are installed SIGINT and SIGTERM kill; after
\* fl_free the handler writes through a dangling g_ctx, which may crash.
Signal ==
  /\ ~Gone
  /\ \/ /\ pc # "init"
        /\ interrupted' = TRUE
        /\ Loader!RequestStop \/ (stop /\ UNCHANGED lease)
        /\ pc' = IF pc = "blocked" THEN "wait" ELSE pc
     \/ /\ pc \in {"init", "freed"}
        /\ pc' = "killed"
        /\ UNCHANGED <<interrupted, lease>>
  /\ UNCHANGED <<locals, pipes, output>>

CloseStdin ==
  /\ stdin # "eof"
  /\ stdin' = "eof"
  /\ UNCHANGED <<pc, locals, interrupted, reader, output, lease>>

TypeOnStdin ==
  /\ stdin = "open"
  /\ stdin' = "data"
  /\ UNCHANGED <<pc, locals, interrupted, reader, output, lease>>

\* A parent that closes stdout, or is gone, has closed stdin as well.
CloseStdout ==
  /\ ReaderLeaves
  /\ reader
  /\ reader' = FALSE
  /\ stdin' = "eof"
  /\ UNCHANGED <<pc, locals, interrupted, output, lease>>

Parent == Signal \/ CloseStdin \/ TypeOnStdin \/ CloseStdout

Ended == Gone /\ UNCHANGED vars

Next == Helper \/ Parent \/ Ended

Spec == Init /\ [][Next]_vars

\* The helper runs on; nothing is asked of the parent.
FairSpec == Spec /\ WF_vars(Helper)

-----------------------------------------------------------------------------
Events == [event : {"font", "ready"}, loaded : 0 .. Cardinality(Files)]

\* The ready event has left the process.
Reported == \E i \in DOMAIN out : out[i].event = "ready"

\* The life of this process, in the terms of HelperLife.
life ==
  Life(CASE pc = "exited" -> IF r = "oom" THEN "failed" ELSE "done"
         [] pc = "killed" -> "failed"
         [] Waiting -> "hold"
         [] OTHER -> IF Reported THEN "leave" ELSE "work",
       Reported)

TypeOK ==
  /\ pc \in Stages \cup {"init", "loading", "results", "ready", "wait", "select",
       "blocked", "unload", "unloading", "cleanup", "freed", "exited", "killed"}
  /\ sub \in 0 .. NumSubs
  /\ r \in {"ok", "os", "oom"}
  /\ {wanted, hasFaces, interrupted, reader, stop, late} \subseteq BOOLEAN
  /\ stdin \in {"open", "data", "eof"}
  /\ buf \in Seq(Events) /\ out \in Seq(Events)
  /\ phase \in {"idle", "loading", "loaded", "releasing"}
  /\ held \subseteq Files

\* "The process stays alive until stdin closes or it receives SIGINT/SIGTERM":
\* once it reported, no font is given back for any other reason, such as input
\* on stdin.
FontsStay ==
  [][Waiting /\ ~Waiting' => interrupted \/ stdin = "eof"]_vars

\* "... then unloads the fonts and exits": an exit leaves no font registered,
\* through every early goto cleanup and every moment a signal can come.
ExitUnloads == pc = "exited" => held = {}

\* What FLManager relies on: a helper that has reported holds its fonts until it
\* is asked to stop, and ends with status 0; status 0 without a report is a load
\* that ended early; a helper never waits before it has reported.
KeepsLife ==
  /\ life = Life("work", FALSE)
  /\ [][life' \in {life, Failed(life)} \cup NextLives(life, interrupted \/ stdin = "eof")]_vars

\* Closing stdin ends the process, wherever it is.
StdinCloseEnds == stdin = "eof" ~> Gone

\* A signal ends the process.
SignalEnds == interrupted ~> Gone
=============================================================================
