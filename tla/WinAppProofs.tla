---------------------------- MODULE WinAppProofs ----------------------------
(***************************************************************************)
(* Proofs about WinApp, for every set of font files, with and without      *)
(* failures of fl_add_subs and of CreateThread.                            *)
(***************************************************************************)
EXTENDS WinApp, TLAPS

(***************************************************************************)
(* The inductive invariant.  No lock orders the three threads: what keeps  *)
(* them apart is where each one can be in each state of app_state, and     *)
(* that the dialog's pages follow each other.                              *)
(***************************************************************************)
\* Where the loader is for each place of the worker.
LoaderOK ==
  /\ phase = "idle" => held = {}
  /\ thread \in {"none", "test", "case", "tail", "exited"} => phase \in {"idle", "loaded"}
  /\ thread \in {"scan", "return"} => phase = "idle"
  /\ thread = "load" => phase = "loading"
  /\ thread \in {"unload", "tail unload"} => phase \in {"idle", "releasing"}
  /\ thread \in {"test", "case"} /\ appState \in {"sub", "cache", "scan", "load"}
       => phase = "idle" \/ (thread = "test" /\ r = "cancel")
  /\ appState = "done" => phase = "loaded" \/ thread = "tail unload"
  /\ appState = "cancelled" => phase = "idle" \/ noThread

\* What app_state can be for each place of the worker, and why a worker ended.
StageOK ==
  /\ thread = "case" => r = "ok" /\ appState \notin {"done", "cancelled"}
  /\ thread = "scan" => appState \in {"cache", "scan"}
  /\ thread = "load" => appState = "load"
  /\ thread = "unload" => appState = "unload"
  /\ thread \in {"tail unload", "return"} => cancelled
  /\ thread = "return" => appState = "cancelled"
  /\ thread = "tail" => r # "ok" \/ cancelled \/ appState = "done"
  /\ thread = "exited" => r = "failed" \/ appState \in {"done", "cancelled"}
  /\ thread = "none" =>
       ui = "create" \/ page = "done" \/ appState = "cancelled" \/ r = "failed"
  /\ appState = "cancelled" => thread \in {"none", "return", "exited"} /\ cancelled

\* fl_cancel comes after cancelled = 1, and its error after fl_cancel.
CancelOK ==
  /\ stop => cancelled
  /\ r = "cancel" => stop

\* The pages of the dialog, and what the UI thread does on each.
PageOK ==
  /\ page = "done" =>
       /\ thread = "none" /\ appState = "done" /\ ~cancelled
       /\ ui \in {"pump", "stopping"}
  /\ page # "done" => cache = "none"
  /\ page = "closed" => appState = "cancelled"
  /\ ui \in {"cleanup", "last unload", "end"} => page = "closed"
  /\ ui \in {"create", "pump", "cancelling", "error"} => page # "closed"
  /\ ui = "create" => thread = "none" /\ appState = "sub" /\ phase = "idle" /\ page = "work"
  /\ ui = "cancelling" => cancelled
  /\ ui = "error" => thread = "none" /\ r = "failed"
  /\ ui = "stopping" => page = "done"

IInv ==
  /\ TypeOK
  /\ LoaderOK
  /\ StageOK
  /\ CancelOK
  /\ PageOK

LEMMA InitIInv == Init => IInv
BY DEF Init, Loader!LInit, IInv, TypeOK, LoaderOK, StageOK, CancelOK, PageOK

(***************************************************************************)
(* One lemma per action: the step preserves the invariant.                 *)
(***************************************************************************)
\* The worker where it does not load or unload.
LEMMA TestLoopIInv ==
  ASSUME IInv, TestLoop
  PROVE  IInv'
BY DEF IInv, TypeOK, LoaderOK, StageOK, CancelOK, PageOK,
       TestLoop, flags, worker, window, caching, lease

LEMMA AddSubsIInv ==
  ASSUME IInv, AddSubs
  PROVE  IInv'
BY DEF IInv, TypeOK, LoaderOK, StageOK, CancelOK, PageOK,
       AddSubs, flags, worker, window, caching, lease

LEMMA BeginScanIInv ==
  ASSUME IInv, BeginScan
  PROVE  IInv'
BY DEF IInv, TypeOK, LoaderOK, StageOK, CancelOK, PageOK,
       BeginScan, flags, worker, window, caching, lease

LEMMA EndScanIInv ==
  ASSUME IInv, EndScan
  PROVE  IInv'
BY DEF IInv, TypeOK, LoaderOK, StageOK, CancelOK, PageOK,
       EndScan, flags, worker, window, caching, lease

LEMMA ReturnIInv ==
  ASSUME IInv, Return
  PROVE  IInv'
BY DEF IInv, TypeOK, LoaderOK, StageOK, CancelOK, PageOK,
       Return, flags, worker, window, caching, lease

\* Loading.
LEMMA BeginLoadIInv ==
  ASSUME IInv, BeginLoad
  PROVE  IInv'
BY DEF IInv, TypeOK, LoaderOK, StageOK, CancelOK, PageOK,
       BeginLoad, Loader!Begin, flags, worker, window, caching, lease

LEMMA LoadFileIInv ==
  ASSUME IInv, NEW f \in Files, LoadFile(f)
  PROVE  IInv'
BY DEF IInv, TypeOK, LoaderOK, StageOK, CancelOK, PageOK,
       LoadFile, Loader!Acquire, flags, worker, window, caching, lease

LEMMA EndLoadIInv ==
  ASSUME IInv, EndLoad
  PROVE  IInv'
BY DEF IInv, TypeOK, LoaderOK, StageOK, CancelOK, PageOK,
       EndLoad, Loader!Finish, flags, worker, window, caching, lease

\* Unloading.
LEMMA UnloadFileIInv ==
  ASSUME IInv, NEW f \in Files, UnloadFile(f)
  PROVE  IInv'
BY DEF IInv, TypeOK, LoaderOK, StageOK, CancelOK, PageOK,
       UnloadFile, Loader!Release, flags, worker, window, caching, lease

LEMMA BeginUnloadIInv ==
  ASSUME IInv, BeginUnload
  PROVE  IInv'
BY DEF IInv, TypeOK, LoaderOK, StageOK, CancelOK, PageOK,
       BeginUnload, EnterUnload, Loader!BeginRelease, flags, worker, window, caching, lease

LEMMA EndUnloadIInv ==
  ASSUME IInv, EndUnload
  PROVE  IInv'
<1>1. TypeOK'
  BY DEF IInv, TypeOK, LoaderOK, StageOK, CancelOK, PageOK,
         EndUnload, LeaveUnload, Loader!End, flags, worker, window, caching, lease
<1>2. LoaderOK'
  BY DEF IInv, TypeOK, LoaderOK, StageOK, CancelOK, PageOK,
         EndUnload, LeaveUnload, Loader!End, flags, worker, window, caching, lease
<1>3. StageOK'
  BY DEF IInv, TypeOK, LoaderOK, StageOK, CancelOK, PageOK,
         EndUnload, LeaveUnload, Loader!End, flags, worker, window, caching, lease
<1>4. CancelOK'
  BY DEF IInv, CancelOK,
         EndUnload, LeaveUnload, Loader!End, flags, worker, window, caching, lease
<1>5. PageOK'
  BY DEF IInv, TypeOK, LoaderOK, StageOK, CancelOK, PageOK,
         EndUnload, LeaveUnload, Loader!End, flags, worker, window, caching, lease
<1>. QED  BY <1>1, <1>2, <1>3, <1>4, <1>5 DEF IInv

LEMMA TailIInv ==
  ASSUME IInv, Tail
  PROVE  IInv'
BY DEF IInv, TypeOK, LoaderOK, StageOK, CancelOK, PageOK,
       Tail, EnterUnload, Loader!BeginRelease, flags, worker, window, caching, lease

LEMMA EndTailUnloadIInv ==
  ASSUME IInv, EndTailUnload
  PROVE  IInv'
BY DEF IInv, TypeOK, LoaderOK, StageOK, CancelOK, PageOK,
       EndTailUnload, LeaveUnload, Loader!End, flags, worker, window, caching, lease

\* The cache thread.
LEMMA CacheWorkerIInv ==
  ASSUME IInv, CacheWorker
  PROVE  IInv'
<1>. USE DEF IInv, CacheWorker, CachePassEnds, CacheWakes, flags, worker, window, lease
<1>1. TypeOK'
  BY DEF TypeOK
<1>2. LoaderOK'
  BY DEF LoaderOK
<1>3. StageOK'
  BY DEF StageOK
<1>4. CancelOK'
  BY DEF CancelOK
<1>5. PageOK'
  <2>1. page = "done"
    BY DEF PageOK
  <2>2. /\ thread' = thread /\ appState' = appState /\ cancelled' = cancelled
        /\ ui' = ui /\ page' = page /\ phase' = phase /\ r' = r
    BY Zenon
  <2>. QED  BY <2>1, <2>2, ZenonT(30) DEF PageOK
<1>. QED  BY <1>1, <1>2, <1>3, <1>4, <1>5

\* The UI thread.
LEMMA CreateIInv ==
  ASSUME IInv, Create
  PROVE  IInv'
<1>1. TypeOK'
  BY DEF IInv, TypeOK, LoaderOK, StageOK, CancelOK, PageOK,
         Create, StartWorker, flags, worker, window, caching, lease
<1>2. LoaderOK'
  BY DEF IInv, TypeOK, LoaderOK, StageOK, CancelOK, PageOK,
         Create, StartWorker, flags, worker, window, caching, lease
<1>3. StageOK'
  BY DEF IInv, TypeOK, LoaderOK, StageOK, CancelOK, PageOK,
         Create, StartWorker, flags, worker, window, caching, lease
<1>4. CancelOK'
  BY DEF IInv, TypeOK, LoaderOK, StageOK, CancelOK, PageOK,
         Create, StartWorker, flags, worker, window, caching, lease
<1>5. PageOK'
  BY DEF IInv, TypeOK, LoaderOK, StageOK, CancelOK, PageOK,
         Create, StartWorker, flags, worker, window, caching, lease
<1>. QED  BY <1>1, <1>2, <1>3, <1>4, <1>5 DEF IInv

LEMMA CancelButtonIInv ==
  ASSUME IInv, CancelButton, posted' \in BOOLEAN
  PROVE  IInv'
<1>1. TypeOK'
  BY DEF IInv, TypeOK, LoaderOK, StageOK, CancelOK, PageOK,
         CancelButton, flags, worker, window, caching, lease
<1>2. LoaderOK'
  BY DEF IInv, TypeOK, LoaderOK, StageOK, CancelOK, PageOK,
         CancelButton, flags, worker, window, caching, lease
<1>3. StageOK'
  BY DEF IInv, TypeOK, LoaderOK, StageOK, CancelOK, PageOK,
         CancelButton, flags, worker, window, caching, lease
<1>4. CancelOK'
  BY DEF IInv, TypeOK, LoaderOK, StageOK, CancelOK, PageOK,
         CancelButton, flags, worker, window, caching, lease
<1>5. PageOK'
  BY DEF IInv, TypeOK, LoaderOK, StageOK, CancelOK, PageOK,
         CancelButton, flags, worker, window, caching, lease
<1>. QED  BY <1>1, <1>2, <1>3, <1>4, <1>5 DEF IInv

LEMMA SignalCancelIInv ==
  ASSUME IInv, SignalCancel
  PROVE  IInv'
<1>1. TypeOK'
  BY DEF IInv, TypeOK, LoaderOK, StageOK, CancelOK, PageOK,
         SignalCancel, Loader!RequestStop, flags, worker, window, caching, lease
<1>2. LoaderOK'
  BY DEF IInv, TypeOK, LoaderOK, StageOK, CancelOK, PageOK,
         SignalCancel, Loader!RequestStop, flags, worker, window, caching, lease
<1>3. StageOK'
  BY DEF IInv, TypeOK, LoaderOK, StageOK, CancelOK, PageOK,
         SignalCancel, Loader!RequestStop, flags, worker, window, caching, lease
<1>4. CancelOK'
  BY DEF IInv, TypeOK, LoaderOK, StageOK, CancelOK, PageOK,
         SignalCancel, Loader!RequestStop, flags, worker, window, caching, lease
<1>5. PageOK'
  BY DEF IInv, TypeOK, LoaderOK, StageOK, CancelOK, PageOK,
         SignalCancel, Loader!RequestStop, flags, worker, window, caching, lease
<1>. QED  BY <1>1, <1>2, <1>3, <1>4, <1>5 DEF IInv

LEMMA TimerDoneIInv ==
  ASSUME IInv, TimerDone
  PROVE  IInv'
<1>1. TypeOK'
  BY DEF IInv, TypeOK, LoaderOK, StageOK, CancelOK, PageOK,
         TimerDone, WorkerDone, Alive, OpenDonePage, flags, worker, window, caching, lease
<1>2. LoaderOK'
  BY DEF IInv, TypeOK, LoaderOK, StageOK, CancelOK, PageOK,
         TimerDone, WorkerDone, Alive, OpenDonePage, flags, worker, window, caching, lease
<1>3. StageOK'
  BY DEF IInv, TypeOK, LoaderOK, StageOK, CancelOK, PageOK,
         TimerDone, WorkerDone, Alive, OpenDonePage, flags, worker, window, caching, lease
<1>4. CancelOK'
  BY DEF IInv, TypeOK, LoaderOK, StageOK, CancelOK, PageOK,
         TimerDone, WorkerDone, Alive, OpenDonePage, flags, worker, window, caching, lease
<1>5. PageOK'
  BY DEF IInv, TypeOK, LoaderOK, StageOK, CancelOK, PageOK,
         TimerDone, WorkerDone, Alive, OpenDonePage, flags, worker, window, caching, lease
<1>. QED  BY <1>1, <1>2, <1>3, <1>4, <1>5 DEF IInv

LEMMA TimerCancelledLateIInv ==
  ASSUME IInv, TimerCancelledLate
  PROVE  IInv'
BY DEF IInv, TypeOK, LoaderOK, StageOK, CancelOK, PageOK,
       TimerCancelledLate, StartWorker, WorkerDone, Alive, flags, worker, window, caching, lease

LEMMA TimerCancelledIInv ==
  ASSUME IInv, TimerCancelled
  PROVE  IInv'
BY DEF IInv, TypeOK, LoaderOK, StageOK, CancelOK, PageOK,
       TimerCancelled, WorkerDone, Alive, flags, worker, window, caching, lease

LEMMA TimerFailedIInv ==
  ASSUME IInv, TimerFailed
  PROVE  IInv'
BY DEF IInv, TypeOK, LoaderOK, StageOK, CancelOK, PageOK,
       TimerFailed, WorkerDone, Alive, flags, worker, window, caching, lease

LEMMA DismissErrorIInv ==
  ASSUME IInv, DismissError
  PROVE  IInv'
BY DEF IInv, TypeOK, LoaderOK, StageOK, CancelOK, PageOK,
       DismissError, flags, worker, window, caching, lease

LEMMA PressDoneIInv ==
  ASSUME IInv, NEW exit \in BOOLEAN, PressDone(exit)
  PROVE  IInv'
BY DEF IInv, TypeOK, LoaderOK, StageOK, CancelOK, PageOK,
       PressDone, flags, worker, window, caching, lease

LEMMA NavigateBackIInv ==
  ASSUME IInv, NavigateBack
  PROVE  IInv'
BY DEF IInv, TypeOK, LoaderOK, StageOK, CancelOK, PageOK,
       NavigateBack, StartWorker, flags, worker, window, caching, lease

LEMMA AwaitWorkerIInv ==
  ASSUME IInv, AwaitWorker
  PROVE  IInv'
BY DEF IInv, TypeOK, LoaderOK, StageOK, CancelOK, PageOK,
       AwaitWorker, EnterUnload, Loader!BeginRelease, Alive, flags, worker, window, caching, lease

LEMMA LastUnloadIInv ==
  ASSUME IInv, LastUnload
  PROVE  IInv'
BY DEF IInv, TypeOK, LoaderOK, StageOK, CancelOK, PageOK,
       LastUnload, LeaveUnload, Loader!End, flags, worker, window, caching, lease

LEMMA NextIInv == IInv /\ [Next]_vars => IInv'
<1>. SUFFICES ASSUME IInv, [Next]_vars PROVE IInv'
  OBVIOUS
<1>1. CASE Worker
  <2>1. ASSUME NEW f \in Files, LoadFile(f) PROVE IInv'
    BY <2>1, LoadFileIInv
  <2>. QED  BY <1>1, <2>1, TestLoopIInv, AddSubsIInv, BeginScanIInv, EndScanIInv,
            BeginLoadIInv, EndLoadIInv, BeginUnloadIInv, EndUnloadIInv, TailIInv,
            EndTailUnloadIInv, ReturnIInv DEF Worker
<1>2. CASE CacheWorker
  BY <1>2, CacheWorkerIInv
<1>3. CASE \E f \in Files : UnloadFile(f)
  BY <1>3, UnloadFileIInv
<1>4. CASE Create \/ SignalCancel \/ DismissError \/ NavigateBack \/ AwaitWorker \/ LastUnload
  BY <1>4, CreateIInv, SignalCancelIInv, DismissErrorIInv, NavigateBackIInv,
     AwaitWorkerIInv, LastUnloadIInv
<1>5. CASE Timer
  BY <1>5, TimerDoneIInv, TimerCancelledLateIInv, TimerCancelledIInv, TimerFailedIInv
     DEF Timer
<1>6. CASE TakeClose \/ PressCancel
  <2>1. CancelButton
    BY <1>6 DEF TakeClose, PressCancel
  <2>2. posted' \in BOOLEAN
    BY <1>6 DEF TakeClose, PressCancel, IInv, TypeOK
  <2>. QED  BY <2>1, <2>2, CancelButtonIInv
<1>7. CASE \E exit \in BOOLEAN : PressDone(exit)
  BY <1>7, PressDoneIInv
<1>8. CASE UNCHANGED vars
  <2>1. /\ appState' = appState /\ cancelled' = cancelled /\ reqExit' = reqExit
        /\ noThread' = noThread /\ thread' = thread /\ r' = r /\ wanted' = wanted
        /\ hasFaces' = hasFaces /\ ui' = ui /\ page' = page /\ posted' = posted
        /\ cache' = cache /\ stopCache' = stopCache /\ phase' = phase
        /\ held' = held /\ stop' = stop /\ late' = late
    BY <1>8, Zenon DEF vars, flags, worker, window, caching, lease
  <2>2. TypeOK'
    <3>. USE <2>1 DEF IInv, TypeOK
    <3>1. (appState \in {"sub", "cache", "scan", "load", "unload", "done", "cancelled"})'
      BY Zenon
    <3>2. (thread \in {"none", "test", "case", "scan", "load", "unload", "tail",
                       "tail unload", "return", "exited"})'
      BY Zenon
    <3>3. (ui \in {"create", "pump", "cancelling", "error", "stopping", "cleanup",
                   "last unload", "end"})'
      BY Zenon
    <3>4. /\ (page \in {"work", "done", "closed"})'
          /\ (cache \in {"none", "reading", "waiting", "exited"})'
          /\ (r \in {"ok", "failed", "cancel"})'
      BY Zenon
    <3>5. /\ ({cancelled, reqExit, noThread, wanted, hasFaces, posted, stopCache}
               \subseteq BOOLEAN)'
          /\ ({stop, late} \subseteq BOOLEAN)'
      BY Zenon
    <3>6. phase' \in {"idle", "loading", "loaded", "releasing"} /\ held' \subseteq Files
      BY Zenon
    <3>. QED  BY <3>1, <3>2, <3>3, <3>4, <3>5, <3>6, Zenon
  <2>3. LoaderOK' /\ StageOK'
    BY <2>1 DEF IInv, LoaderOK, StageOK
  <2>4. CancelOK' /\ PageOK'
    BY <2>1 DEF IInv, CancelOK, PageOK
  <2>. QED  BY <2>2, <2>3, <2>4 DEF IInv
<1>. QED  BY <1>1, <1>2, <1>3, <1>4, <1>5, <1>6, <1>7, <1>8 DEF Next, User, Ended

\* The invariant holds however the three threads of the program interleave.
THEOREM Invariance == Spec => []IInv
BY InitIInv, NextIInv, PTL DEF Spec

(***************************************************************************)
(* The results.                                                            *)
(***************************************************************************)
\* Every variable has its type.
THEOREM WinTypeCorrect == Spec => []TypeOK
<1>1. IInv => TypeOK
  BY DEF IInv
<1>. QED  BY <1>1, Invariance, PTL

\* However a request to leave meets the worker, the program ends with no font
\* registered, unless the thread that was to unload could not be created: the
\* dialog closes in APP_CANCELLED, which the worker sets behind its last unload.
THEOREM ExitIsClean == Spec => []ExitUnloads
<1>1. IInv => ExitUnloads
  BY DEF IInv, LoaderOK, PageOK, ExitUnloads
<1>. QED  BY <1>1, Invariance, PTL

\* The font set is freed, and a load begun, only when nothing is loaded.
THEOREM UnloadComesFirst == Spec => []CallerUnloads
<1>1. IInv => CallerUnloads
  BY DEF IInv, LoaderOK, StageOK, CallerUnloads
<1>. QED  BY <1>1, Invariance, PTL

\* The worker and the cache thread do not meet in the loader.
THEOREM OneUserOfLoader == Spec => []LoaderNotShared
<1>1. IInv => LoaderNotShared
  BY DEF IInv, TypeOK, LoaderOK, StageOK, PageOK, LoaderNotShared, Alive
<1>. QED  BY <1>1, Invariance, PTL

\* Cancelling shows no error, wherever it meets the worker.
THEOREM NoErrorByCancel == Spec => []CancelIsNoError
<1>1. IInv => CancelIsNoError
  BY DEF IInv, PageOK, CancelIsNoError
<1>. QED  BY <1>1, Invariance, PTL
=============================================================================
