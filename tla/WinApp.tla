------------------------------ MODULE WinApp ------------------------------
(***************************************************************************)
(* main.c, the Windows program: the dialogs of the UI thread, the worker   *)
(* thread that scans, loads and unloads (AppWorker), and the thread that   *)
(* reads the loaded fonts into the disk cache (AppCacheWorker).            *)
(*                                                                         *)
(* The three share FL_AppCtx without a lock.  What fl_load_fonts and       *)
(* fl_unload_fonts do is the lease of FontLease, which FontLoad refines.   *)
(***************************************************************************)
EXTENDS Naturals, FiniteSets

CONSTANTS
  Files,        \* font files the subtitles may need
  SubErrors,    \* may fl_add_subs fail by itself (out of memory)?
  ThreadFails   \* may CreateThread fail?

ASSUME WinAssumption ==
  /\ IsFiniteSet(Files)
  /\ SubErrors \in BOOLEAN
  /\ ThreadFails \in BOOLEAN

VARIABLES
  appState,     \* app_state
  cancelled,    \* cancelled
  reqExit,      \* req_exit
  noThread,     \* history: a worker thread could not be created
  thread,       \* where the worker is; "none": thread_load is NULL
  r,            \* the local r of AppWorker: FL_OK, or why it is not
  wanted,       \* num_sub_font is not 0
  hasFaces,     \* font_set has faces
  ui,           \* where the UI thread is
  page,         \* the page of the task dialog
  posted,       \* a WM_CLOSE is in the message queue
  cache,        \* where the cache thread is
  stopCache,    \* evt_stop_cache is set
  phase, held, stop, late   \* the loader: stop is event_cancel

lease == <<phase, held, stop, late>>
flags == <<appState, cancelled, reqExit, noThread>>
worker == <<thread, r, wanted, hasFaces>>
window == <<ui, page, posted>>
caching == <<cache, stopCache>>
vars == <<flags, worker, window, caching, lease>>

Loader == INSTANCE FontLease

Alive == thread \notin {"none", "exited"}

Init ==
  /\ appState = "sub"
  /\ cancelled = FALSE /\ reqExit = FALSE /\ noThread = FALSE
  /\ thread = "none" /\ r = "ok"
  /\ wanted = FALSE /\ hasFaces = FALSE
  /\ ui = "create" /\ page = "work" /\ posted = FALSE
  /\ cache = "none" /\ stopCache = FALSE
  /\ Loader!LInit

(***************************************************************************)
(* AppWorker                                                               *)
(***************************************************************************)
TestLoop ==
  /\ thread = "test"
  /\ thread' = IF r = "ok" /\ ~cancelled /\ appState # "done"
                 THEN "case" ELSE "tail"
  /\ UNCHANGED <<flags, r, wanted, hasFaces, window, caching, lease>>

\* APP_LOAD_SUB: a cancel ends fl_add_subs with an error too.
AddSubs ==
  /\ thread = "case"
  /\ appState = "sub"
  /\ \/ r' = "ok"
     \/ stop /\ r' = "cancel"
     \/ SubErrors /\ r' = "failed"
  /\ wanted' \in BOOLEAN
  /\ appState' = "cache"
  /\ thread' = "test"
  /\ UNCHANGED <<cancelled, reqExit, noThread, hasFaces, window, caching, lease>>

\* fl_scan_fonts frees the font set first, whichever way it builds the next.
BeginScan ==
  /\ thread = "case"
  /\ appState \in {"cache", "scan"}
  /\ thread' = "scan"
  /\ hasFaces' = FALSE
  /\ UNCHANGED <<flags, r, wanted, window, caching, lease>>

\* APP_LOAD_CACHE and APP_SCAN_FONT; the result of the scan is not looked at.
EndScan ==
  /\ thread = "scan"
  /\ hasFaces' \in BOOLEAN
  /\ appState' = IF appState = "cache" /\ ~hasFaces' THEN "scan" ELSE "load"
  /\ thread' = "test"
  /\ UNCHANGED <<cancelled, reqExit, noThread, r, wanted, window, caching, lease>>

\* APP_LOAD_FONT
BeginLoad ==
  /\ thread = "case"
  /\ appState = "load"
  /\ thread' = "load"
  /\ Loader!Begin
  /\ UNCHANGED <<flags, r, wanted, hasFaces, window, caching>>

LoadFile(f) ==
  /\ thread = "load"
  /\ wanted /\ hasFaces
  /\ Loader!Acquire(f)
  /\ UNCHANGED <<flags, worker, window, caching>>

EndLoad ==
  /\ thread = "load"
  /\ Loader!Finish
  /\ \/ r' = "ok" /\ appState' = "done"
     \/ stop /\ r' = "cancel" /\ appState' = appState
  /\ thread' = "test"
  /\ UNCHANGED <<cancelled, reqExit, noThread, wanted, hasFaces, window, caching>>

\* fl_unload_fonts, called by the worker or at last by AppRun; with nothing
\* loaded it does nothing.
EnterUnload ==
  IF phase = "loaded" THEN Loader!BeginRelease ELSE UNCHANGED lease

LeaveUnload ==
  \/ phase = "releasing" /\ Loader!End
  \/ phase = "idle" /\ UNCHANGED lease

UnloadFile(f) ==
  /\ thread \in {"unload", "tail unload"} \/ ui = "last unload"
  /\ Loader!Release(f)
  /\ UNCHANGED <<flags, worker, window, caching>>

\* APP_UNLOAD_FONT
BeginUnload ==
  /\ thread = "case"
  /\ appState = "unload"
  /\ thread' = "unload"
  /\ EnterUnload
  /\ UNCHANGED <<flags, r, wanted, hasFaces, window, caching>>

\* Mutant of EndUnload: the state after unloading is left as it is.
MutEndUnload ==
  /\ thread = "unload"
  /\ LeaveUnload
  /\ cancelled' = (cancelled \/ reqExit)
  /\ thread' = "test"
  /\ UNCHANGED <<appState, reqExit, noThread, r, wanted, hasFaces, window, caching>>

EndUnload ==
  /\ thread = "unload"
  /\ LeaveUnload
  /\ IF reqExit THEN cancelled' = TRUE /\ UNCHANGED appState
                ELSE appState' = "scan" /\ UNCHANGED cancelled
  /\ thread' = "test"
  /\ UNCHANGED <<reqExit, noThread, r, wanted, hasFaces, window, caching>>

\* Mutant of Tail: a cancelled worker does not unload.
MutTail ==
  /\ thread = "tail"
  /\ IF cancelled THEN thread' = "return" /\ appState' = "cancelled"
                  ELSE thread' = "exited" /\ UNCHANGED appState
  /\ UNCHANGED <<cancelled, reqExit, noThread, r, wanted, hasFaces, window, caching, lease>>

\* After the loop: if (c->cancelled) { fl_unload_fonts; APP_CANCELLED }.
Tail ==
  /\ thread = "tail"
  /\ IF cancelled THEN thread' = "tail unload" /\ EnterUnload
                  ELSE thread' = "exited" /\ UNCHANGED lease
  /\ UNCHANGED <<flags, r, wanted, hasFaces, window, caching>>

\* Mutant of EndTailUnload: a state the UI thread does not know.
MutEndTailUnload ==
  /\ thread = "tail unload"
  /\ LeaveUnload
  /\ appState' = "exit"
  /\ thread' = "return"
  /\ UNCHANGED <<cancelled, reqExit, noThread, r, wanted, hasFaces, window, caching>>

EndTailUnload ==
  /\ thread = "tail unload"
  /\ LeaveUnload
  /\ appState' = "cancelled"
  /\ thread' = "return"
  /\ UNCHANGED <<cancelled, reqExit, noThread, r, wanted, hasFaces, window, caching>>

Return ==
  /\ thread = "return"
  /\ thread' = "exited"
  /\ UNCHANGED <<flags, r, wanted, hasFaces, window, caching, lease>>

Worker ==
  \/ TestLoop \/ AddSubs \/ BeginScan \/ EndScan
  \/ BeginLoad \/ (\E f \in Files : LoadFile(f)) \/ EndLoad
  \/ BeginUnload \/ EndUnload \/ Tail \/ EndTailUnload \/ Return

(***************************************************************************)
(* AppCacheWorker                                                          *)
(***************************************************************************)
\* fl_cache_fonts came to the end of loaded_font, or saw the event.
CachePassEnds ==
  /\ cache = "reading"
  /\ cache' = "waiting"
  /\ UNCHANGED <<flags, worker, window, stopCache, lease>>

\* WaitForSingleObject(evt_stop_cache, 5 minutes)
CacheWakes ==
  /\ cache = "waiting"
  /\ cache' = IF stopCache THEN "exited" ELSE "reading"
  /\ UNCHANGED <<flags, worker, window, stopCache, lease>>

CacheWorker == CachePassEnds \/ CacheWakes

(***************************************************************************)
(* DlgWorkProc                                                             *)
(***************************************************************************)
\* TDN_CREATED, TDN_NAVIGATED: start the worker with state for app_state.
StartWorker(state) ==
  \/ /\ thread' = "test" /\ r' = "ok"
     /\ appState' = state
     /\ UNCHANGED <<cancelled, posted, noThread>>
  \/ /\ ThreadFails
     /\ thread' = "none" /\ r' = "ok"
     /\ appState' = "cancelled" /\ cancelled' = TRUE /\ posted' = TRUE
     /\ noThread' = TRUE

Create ==
  /\ ui = "create"
  /\ StartWorker(appState)
  /\ ui' = "pump"
  /\ UNCHANGED <<reqExit, wanted, hasFaces, page, caching, lease>>

\* Mutant of CancelButton: only the loader is told, cancelled stays 0.
MutCancelButton ==
  /\ ui = "pump"
  /\ page = "work"
  /\ \/ /\ appState = "cancelled"
        /\ page' = "closed" /\ ui' = "cleanup"
     \/ /\ appState # "cancelled"
        /\ ui' = IF reqExit THEN ui ELSE "cancelling"
        /\ UNCHANGED page
  /\ UNCHANGED <<flags, worker, caching, lease>>

\* TDN_BUTTON_CLICKED with IDCANCEL, from the button, Esc or a WM_CLOSE.
CancelButton ==
  /\ ui = "pump"
  /\ page = "work"
  /\ \/ /\ appState = "cancelled"
        /\ page' = "closed" /\ ui' = "cleanup"
        /\ UNCHANGED cancelled
     \/ /\ appState # "cancelled"
        /\ ~reqExit
        /\ cancelled' = TRUE
        /\ ui' = "cancelling"
        /\ UNCHANGED page
     \/ /\ appState # "cancelled"
        /\ reqExit
        /\ UNCHANGED <<cancelled, ui, page>>
  /\ UNCHANGED <<appState, reqExit, noThread, worker, caching, lease>>

PressCancel == CancelButton /\ UNCHANGED posted

TakeClose == posted /\ posted' = FALSE /\ CancelButton

\* fl_cancel, the statement after cancelled = 1.
SignalCancel ==
  /\ ui = "cancelling"
  /\ Loader!RequestStop \/ (stop /\ UNCHANGED lease)
  /\ ui' = "pump"
  /\ UNCHANGED <<flags, worker, page, posted, caching>>

\* TDN_NAVIGATED of DlgDoneProc: the cache thread has work only when the
\* subtitles ask for fonts and there are some.
OpenDonePage ==
  /\ page' = "done"
  /\ IF wanted /\ hasFaces
       THEN /\ stopCache' = FALSE
            /\ cache' \in {"reading"} \cup IF ThreadFails THEN {"none"} ELSE {}
       ELSE cache' = "none" /\ UNCHANGED stopCache

\* TDN_TIMER, when WaitForSingleObject does not time out: the worker has
\* exited, or there is no handle any more.
WorkerDone ==
  /\ ui = "pump"
  /\ page = "work"
  /\ ~Alive

TimerDone ==
  /\ WorkerDone
  /\ appState = "done" /\ ~cancelled
  /\ thread' = "none"
  /\ OpenDonePage
  /\ UNCHANGED <<flags, r, wanted, hasFaces, ui, posted, lease>>

\* Done, then cancelled before the timer: work again to unload.
TimerCancelledLate ==
  /\ WorkerDone
  /\ appState = "done" /\ cancelled
  /\ StartWorker("unload")
  /\ UNCHANGED <<reqExit, wanted, hasFaces, ui, page, caching, lease>>

\* Mutant of TimerCancelled: no WM_CLOSE is posted.
MutTimerCancelled ==
  /\ WorkerDone
  /\ appState = "cancelled"
  /\ thread' = "none"
  /\ UNCHANGED <<flags, r, wanted, hasFaces, window, caching, lease>>

TimerCancelled ==
  /\ WorkerDone
  /\ appState = "cancelled"
  /\ thread' = "none"
  /\ posted' = TRUE
  /\ UNCHANGED <<flags, r, wanted, hasFaces, ui, page, caching, lease>>

\* The worker gave up for another reason: an error box, then WM_CLOSE.
TimerFailed ==
  /\ WorkerDone
  /\ appState \notin {"done", "cancelled"}
  /\ thread' = "none"
  /\ ui' = "error"
  /\ UNCHANGED <<flags, r, wanted, hasFaces, page, posted, caching, lease>>

DismissError ==
  /\ ui = "error"
  /\ ui' = "pump"
  /\ posted' = TRUE
  /\ UNCHANGED <<flags, worker, page, caching, lease>>

Timer == TimerDone \/ TimerCancelledLate \/ TimerCancelled \/ TimerFailed

(***************************************************************************)
(* DlgDoneButtonDispatch and AppRun                                        *)
(***************************************************************************)
\* Close, Cancel and WM_CLOSE ask to exit; Retry asks to scan again.
PressDone(exit) ==
  /\ ui = "pump"
  /\ page = "done"
  /\ reqExit' = (reqExit \/ exit)
  /\ stopCache' = TRUE
  /\ ui' = "stopping"
  /\ UNCHANGED <<appState, cancelled, noThread, worker, page, posted, cache, lease>>

\* Mutants of NavigateBack: Retry scans without unloading first; the cache
\* thread is not waited for.
MutNavigateRescan ==
  /\ ui = "stopping"
  /\ cache' = "none"
  /\ page' = "work"
  /\ ui' = "pump"
  /\ StartWorker(IF reqExit THEN "unload" ELSE "scan")
  /\ UNCHANGED <<reqExit, wanted, hasFaces, stopCache, lease>>

MutNavigateAtOnce ==
  /\ ui = "stopping"
  /\ page' = "work"
  /\ ui' = "pump"
  /\ StartWorker("unload")
  /\ UNCHANGED <<reqExit, wanted, hasFaces, caching, lease>>

\* The cache thread exited within a second, or is terminated.
NavigateBack ==
  /\ ui = "stopping"
  /\ cache' = "none"
  /\ page' = "work"
  /\ ui' = "pump"
  /\ StartWorker("unload")
  /\ UNCHANGED <<reqExit, wanted, hasFaces, stopCache, lease>>

\* After TaskDialogIndirect: wait for the worker, 16 seconds at most.
AwaitWorker ==
  /\ ui = "cleanup"
  /\ \/ ~Alive /\ ui' = "end" /\ UNCHANGED thread
     \/ Alive /\ thread' = "none" /\ ui' = "last unload"
  /\ IF ui' = "end" THEN UNCHANGED lease ELSE EnterUnload
  /\ UNCHANGED <<flags, r, wanted, hasFaces, page, posted, caching>>

LastUnload ==
  /\ ui = "last unload"
  /\ LeaveUnload
  /\ ui' = "end"
  /\ UNCHANGED <<flags, worker, page, posted, caching>>

Ended == ui = "end" /\ UNCHANGED vars

User == PressCancel \/ \E exit \in BOOLEAN : PressDone(exit)

Next ==
  \/ Worker \/ CacheWorker \/ \E f \in Files : UnloadFile(f)
  \/ Create \/ TakeClose \/ SignalCancel \/ Timer \/ DismissError
  \/ NavigateBack \/ AwaitWorker \/ LastUnload
  \/ User \/ Ended

Spec == Init /\ [][Next]_vars

\* Threads run on, and a message box is dismissed in the end.  Timers and posted
\* messages get their turn in the message loop however often a user presses
\* Cancel in between (strong fairness); nobody has to press a button.
FairSpec ==
  /\ Spec
  /\ WF_vars(Worker \/ \E f \in Files : UnloadFile(f))
  /\ SF_vars(Timer) /\ SF_vars(TakeClose) /\ WF_vars(DismissError)
  /\ WF_vars(Create \/ SignalCancel \/ NavigateBack \/ AwaitWorker \/ LastUnload)

-----------------------------------------------------------------------------
TypeOK ==
  /\ appState \in {"sub", "cache", "scan", "load", "unload", "done", "cancelled"}
  /\ thread \in {"none", "test", "case", "scan", "load", "unload", "tail",
                 "tail unload", "return", "exited"}
  /\ ui \in {"create", "pump", "cancelling", "error", "stopping", "cleanup",
             "last unload", "end"}
  /\ page \in {"work", "done", "closed"}
  /\ cache \in {"none", "reading", "waiting", "exited"}
  /\ r \in {"ok", "failed", "cancel"}
  /\ {cancelled, reqExit, noThread, wanted, hasFaces, posted, stopCache} \subseteq BOOLEAN
  /\ phase \in {"idle", "loading", "loaded", "releasing"}
  /\ held \subseteq Files
  /\ {stop, late} \subseteq BOOLEAN

\* "Close, Esc key, Alt+F4: unload fonts and exit": when the program ends, no
\* font it registered is left registered, however the cancellation met the
\* worker, unless the thread that was to unload could not be created.
ExitUnloads == ui = "end" => held = {} \/ noThread

\* fl_load_fonts and fl_scan_fonts rely on their caller to have unloaded: the
\* records point into the font set that the scan frees, and a load appends to
\* what is there.
CallerUnloads ==
  /\ thread = "scan" => phase = "idle"
  /\ thread = "case" /\ appState = "load" => phase = "idle"

\* The worker and the cache thread never use the loader at the same time, and
\* the page from which the user exports the loaded fonts is there only while
\* they stay loaded and nobody else writes them.
LoaderNotShared ==
  /\ thread \in {"scan", "load", "unload", "tail unload"} =>
       cache \in {"none", "exited"}
  /\ page = "done" => ~Alive /\ phase = "loaded" /\ ~cancelled

\* Pressing Cancel is no error: the error box appears only when the worker
\* failed by itself, wherever it is when a cancellation reaches it.
CancelIsNoError == ui = "error" => r = "failed"

\* "Close, Esc key, Alt+F4: unload fonts and exit": a request to leave, by
\* Cancel while working or by Close afterwards, ends the program.
CloseEnds == cancelled \/ reqExit ~> ui = "end"

\* So it does whenever the worker has not failed by itself, also when a thread
\* cannot be created.
CloseEndsOrFailed == cancelled \/ reqExit ~> ui = "end" \/ r = "failed"

\* The work page is left, for the list of the loaded fonts or for good, unless
\* the worker failed by itself.
WorkEnds == page = "work" ~> page = "done" \/ ui = "end" \/ r = "failed"
=============================================================================
