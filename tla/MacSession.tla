----------------------------- MODULE MacSession -----------------------------
(***************************************************************************)
(* FLManager.m with the calls AppDelegate.m makes: it starts one helper    *)
(* per load, reads what the helper reports, and stops it.  The helpers     *)
(* live as HelperLife says.                                                *)
(*                                                                         *)
(* The actors are the main thread, which takes the commands and runs the   *)
(* blocks of the main queue; the serial queue _queue; for each task the    *)
(* readability handler of its stdout and its termination handler, on       *)
(* threads of their own; and the helper processes.  Each load has its      *)
(* generation, which also names its task, its helper and the __block       *)
(* variables of its blocks.                                                *)
(***************************************************************************)
EXTENDS Naturals, FiniteSets, SequencesExt, HelperLife

CONSTANT MaxLoads   \* bound on the loads begun

ASSUME SessionAssumption == MaxLoads \in Nat \ {0}

Gens == 1 .. MaxLoads

VARIABLES
  generation,  \* the load _generation was advanced for, 0 after an unload
  state,       \* _state: "idle", "loading", "loaded" or "failed"
  numLoaded,   \* _numLoaded; the other counters are treated alike
  details,     \* _detailLines, each with the generation it came from
  loads,       \* the loads begun; the first one sets _lastSubtitlePaths
  main,        \* the main thread: "idle", in dispatch_sync ("sync"), "after" or "gone"
  mainQueue,   \* calls of finishWithState waiting for the main thread
  queue,       \* blocks waiting on _queue
  block,       \* the block that runs
  task,        \* the generation of _task, 0 for nil (and so for pipes and buffers)
  reading,     \* the readability handler is installed
  cut,         \* (bound) its output has been read from
  buffer,      \* _stdoutBuffer
  ready,       \* _helperReady
  sent,        \* the loads whose completionSent is YES
  counted,     \* the __block numLoaded of the load that has the task
  helper,      \* the helper process of each load
  pipe,        \* what is in the pipe at the stdout of each helper
  inHand,      \* the block of a readability handler that has read and not yet dispatched
  status       \* the exit status of the task, once its termination handler has run

public == <<generation, state, numLoaded, details>>
mainThread == <<main, loads>>
taskVars == <<task, reading, cut, buffer, ready, status>>
blockVars == <<sent, counted>>
process == <<helper, pipe>>
vars == <<public, mainThread, mainQueue, queue, block, taskVars, blockVars, process, inHand>>

NoBlock == [kind |-> "none", gen |-> 0, data |-> << >>, at |-> "start"]

\* A line of the report is written in two parts, the second with the newline: a
\* read may end between them.
Events == [event : {"font", "ready"}, loaded : {0, 1}]
Font(n) == [event |-> "font", loaded |-> n]
ReadyEvent(n) == [event |-> "ready", loaded |-> n]
Part(event, nl) == [event |-> event, nl |-> nl]
Parts(events) ==
  [i \in 1 .. 2 * Len(events) |-> Part(events[(i + 1) \div 2], i % 2 = 0)]

\* What a working helper writes before it takes up the new life: one font and
\* ready, or ready alone when no font is needed; when it fails, nothing or a torn
\* report.
Reports(life) ==
  CASE life.st = "hold" -> {Parts(<<Font(1), ReadyEvent(1)>>)}
    [] life.st = "leave" -> {Parts(<<ReadyEvent(0)>>)}
    [] life.st = "failed" ->
         {SubSeq(Parts(<<Font(1), ReadyEvent(1)>>), 1, n) : n \in {0, 3}}
    [] OTHER -> {<< >>}

Init ==
  /\ generation = 0 /\ state = "idle" /\ numLoaded = 0 /\ details = << >>
  /\ loads = 0
  /\ main = "idle" /\ mainQueue = << >>
  /\ queue = << >> /\ block = NoBlock
  /\ task = 0 /\ reading = FALSE /\ cut = FALSE /\ buffer = << >> /\ ready = FALSE
  /\ sent = {} /\ counted = 0
  /\ helper = [g \in Gens |-> Life("none", FALSE)]
  /\ pipe = [g \in Gens |-> << >>] /\ inHand = NoBlock /\ status = "none"

Block(kind, g, data) == [kind |-> kind, gen |-> g, data |-> data, at |-> "start"]

(***************************************************************************)
(* The main thread.  AppKit enables every menu item that has a target, so  *)
(* any command may come in any state; the Services menu may load at any    *)
(* time in any case.                                                       *)
(***************************************************************************)
\* loadFontsForSubtitles, up to the dispatch: a new generation, and the public
\* state of a load that has begun.
BeginLoad ==
  /\ loads < MaxLoads
  /\ loads' = loads + 1
  /\ generation' = loads'
  /\ state' = "loading" /\ numLoaded' = 0 /\ details' = << >>
  /\ queue' = Append(queue, Block("load", generation', << >>))

Load ==
  /\ main = "idle"
  /\ BeginLoad
  /\ UNCHANGED <<main, mainQueue, block, taskVars, blockVars, process, inHand>>

\* unloadFonts and cancel, which do the same, from the menu, before an index is
\* rebuilt, or on the way out: a new generation, and dispatch_sync.
Unload ==
  /\ main = "idle"
  /\ generation' = 0
  /\ queue' = Append(queue, Block("stop", 0, << >>))
  /\ main' = "sync"
  /\ UNCHANGED <<state, numLoaded, details, loads, mainQueue, block, taskVars, blockVars,
                 process, inHand>>

\* Back from dispatch_sync: the state is set, and the caller goes on, to the end of
\* the program or, when an index is rebuilt, to a new load of the same subtitles.
Unloaded ==
  /\ main = "after"
  /\ \/ /\ main' \in {"idle", "gone"}
        /\ state' = "idle" /\ numLoaded' = 0
        /\ UNCHANGED <<generation, details, loads, queue>>
     \/ /\ loads > 0
        /\ main' = "idle"
        /\ BeginLoad
  /\ UNCHANGED <<mainQueue, block, taskVars, blockVars, process, inHand>>

\* Mutant of RunFinish: the generation is not checked.
MutRunFinish ==
  /\ main = "idle"
  /\ mainQueue # << >>
  /\ mainQueue' = Tail(mainQueue)
  /\ state' = Head(mainQueue).state /\ numLoaded' = Head(mainQueue).loaded
  /\ UNCHANGED <<generation, details, mainThread, queue, block, taskVars, blockVars,
                 process, inHand>>

\* The block finishWithState leaves on the main queue; completion, which it
\* calls, shows the state.
RunFinish ==
  /\ main = "idle"
  /\ mainQueue # << >>
  /\ mainQueue' = Tail(mainQueue)
  /\ IF Head(mainQueue).gen = generation
       THEN state' = Head(mainQueue).state /\ numLoaded' = Head(mainQueue).loaded
       ELSE UNCHANGED <<state, numLoaded>>
  /\ UNCHANGED <<generation, details, mainThread, queue, block, taskVars, blockVars,
                 process, inHand>>

Main == Unloaded \/ RunFinish

(***************************************************************************)
(* The handlers of a task                                                  *)
(***************************************************************************)
Cuts == {1, 3}

\* The readability handler: availableData, which returns what has arrived, and
\* may have been called when only a part had (one cut in each report, inside
\* of a line) ...
Read ==
  /\ main # "gone"
  /\ reading
  /\ inHand = NoBlock
  /\ \E n \in {Len(pipe[task])} \cup (IF cut THEN {} ELSE Cuts) :
       /\ n \in 1 .. Len(pipe[task])
       /\ inHand' = Block("chunk", task, SubSeq(pipe[task], 1, n))
       /\ pipe' = [pipe EXCEPT ![task] = SubSeq(@, n + 1, Len(@))]
  /\ cut' = TRUE
  /\ UNCHANGED <<public, mainThread, mainQueue, queue, block, task, reading, buffer, ready,
                 status, blockVars, helper>>

\* ... and the dispatch to _queue.  Removing the handler does not stop one that
\* has begun.
Dispatch ==
  /\ main # "gone"
  /\ inHand # NoBlock
  /\ queue' = Append(queue, inHand)
  /\ inHand' = NoBlock
  /\ UNCHANGED <<public, mainThread, mainQueue, block, taskVars, blockVars, process>>

\* The termination handler, which keeps the task for its terminationStatus.
TerminationHandler(g) ==
  /\ main # "gone"
  /\ HasEnded(helper[g])
  /\ helper' = [helper EXCEPT ![g] = Life("none", @.reported)]
  /\ status' = IF g = task THEN helper[g].st ELSE status
  /\ queue' = Append(queue, Block("term", g, << >>))
  /\ UNCHANGED <<public, mainThread, mainQueue, block, task, reading, cut, buffer, ready,
                 blockVars, pipe, inHand>>

Handler == Read \/ Dispatch \/ (\E g \in Gens : TerminationHandler(g))

(***************************************************************************)
(* Blocks on _queue, one at a time, in the order of their dispatch         *)
(***************************************************************************)
Queue(kinds) ==
  main # "gone" /\ queue # << >> /\ block = NoBlock /\ Head(queue).kind \in kinds

\* Mutant of Stale: a chunk is taken whenever there is a buffer.
MutStale(b) == IF b.kind = "chunk" THEN task = 0 ELSE b.gen # generation

\* A block of an old load does nothing, nor does a chunk without a buffer; what
\* passes the test goes on without looking again.
Stale(b) == b.gen # generation \/ (b.kind = "chunk" /\ task = 0)

TakeBlock ==
  /\ Queue({"chunk", "term", "drain"})
  /\ block' = IF Stale(Head(queue)) THEN NoBlock ELSE Head(queue)
  /\ queue' = Tail(queue)
  /\ UNCHANGED <<public, mainThread, mainQueue, taskVars, blockVars, process, inHand>>

\* A part closes the line before it, or opens one.  Parts that do not belong
\* together are no event.
AddPart(acc, part) ==
  IF ~part.nl THEN [acc EXCEPT !.open = Append(@, part)]
  ELSE [open |-> << >>,
        events |-> IF acc.open = <<Part(part.event, FALSE)>>
                     THEN Append(acc.events, part.event) ELSE acc.events]

\* Mutant of Parse: what is left of a line is thrown away.
MutParse(open, data) == FoldLeft(AddPart, [open |-> << >>, events |-> << >>], data)

\* processOutputBuffer: the events of the complete lines, and what stays in the
\* buffer.
Parse(open, data) == FoldLeft(AddPart, [open |-> open, events |-> << >>], data)

\* processJSONLine: a font event counts, the ready event tells.
TellEvent(told, event) ==
  IF event.event = "font"
    THEN [told EXCEPT !.fonts = Append(@, event), !.loaded = @ + event.loaded]
    ELSE [told EXCEPT !.readies = Append(@, event), !.loaded = event.loaded]

Told(n, events) ==
  FoldLeft(TellEvent, [fonts |-> << >>, readies |-> << >>, loaded |-> n], events)

Finish(g, result, n) == [gen |-> g, state |-> result, loaded |-> n]

\* Without a ready event the exit status tells: 0 is Loaded.
ByStatus(g, n) ==
  IF status = "done" THEN <<Finish(g, "loaded", n)>> ELSE <<Finish(g, "failed", 0)>>

\* Mutants of Completion: a second one when the task ends; none for a failure.
MutCompletionTwice(g, readies, n, last) ==
  IF last THEN ByStatus(g, n)
  ELSE IF g \notin sent /\ readies # << >> THEN <<Finish(g, "loaded", Head(readies).loaded)>>
  ELSE << >>

MutCompletionOnly0(g, readies, n, last) ==
  IF g \in sent THEN << >>
  ELSE IF readies # << >> THEN <<Finish(g, "loaded", Head(readies).loaded)>>
  ELSE IF last /\ ~ready /\ status = "done" THEN <<Finish(g, "loaded", n)>>
  ELSE << >>

\* A load is completed once: by the first ready event, or when its task is over.
Completion(g, readies, n, last) ==
  IF g \in sent THEN << >>
  ELSE IF readies # << >> THEN <<Finish(g, "loaded", Head(readies).loaded)>>
  ELSE IF last /\ ~ready THEN ByStatus(g, n)
  ELSE << >>

\* Mutant of ClearTask: the readability handler stays.
MutClearTask ==
  /\ task' = 0 /\ cut' = FALSE /\ buffer' = << >> /\ ready' = FALSE
  /\ counted' = 0 /\ status' = "none"
  /\ pipe' = [g \in Gens |-> << >>]
  /\ UNCHANGED reading

\* clearTaskLocked closes the pipes; no block uses the counters of the task again.
ClearTask ==
  /\ task' = 0 /\ reading' = FALSE /\ cut' = FALSE /\ buffer' = << >> /\ ready' = FALSE
  /\ counted' = 0 /\ status' = "none"
  /\ pipe' = [g \in Gens |-> << >>]

\* processJSONLine for each event: detail lines, counters and the completion.
Process(g, events, last) ==
  LET told == Told(counted, events)
      done == Completion(g, told.readies, told.loaded, last)
  IN  /\ details' = details \o [i \in DOMAIN told.fonts |-> [gen |-> g, event |-> told.fonts[i]]]
      /\ IF last THEN ClearTask
         ELSE counted' = told.loaded /\ ready' = (ready \/ told.readies # << >>) /\ UNCHANGED status
      /\ sent' = IF done = << >> THEN sent ELSE sent \cup {g}
      /\ mainQueue' = mainQueue \o done
      /\ block' = NoBlock
      /\ UNCHANGED <<generation, state, numLoaded, mainThread, helper, inHand>>

\* The block of the readability handler.
AppendChunk ==
  /\ block.kind = "chunk"
  /\ LET parsed == Parse(buffer, block.data)
     IN  Process(block.gen, parsed.events, FALSE) /\ buffer' = parsed.open
  /\ UNCHANGED <<queue, task, reading, cut, pipe>>

\* The block of the termination handler: no more reading, the rest of the pipe,
\* and another block, to let the chunks that are already on the queue come first.
ReadRest ==
  /\ block.kind = "term"
  /\ LET parsed == Parse(buffer, pipe[block.gen])
     IN  Process(block.gen, parsed.events, FALSE) /\ buffer' = parsed.open
  /\ pipe' = [pipe EXCEPT ![block.gen] = << >>]
  /\ reading' = FALSE
  /\ queue' = Append(queue, Block("drain", block.gen, << >>))
  /\ UNCHANGED <<task, cut>>

\* The last block of a task.  A line that only lacks its newline is a line: what
\* is left in the buffer may be one, or a part of one.
Drain ==
  /\ block.kind = "drain"
  /\ \E events \in {<< >>} \cup {<<part.event>> : part \in Range(buffer)} :
       /\ events # << >> => Len(buffer) = 1
       /\ Process(block.gen, events, TRUE)
  /\ UNCHANGED queue

(***************************************************************************)
(* terminateTaskLocked, at the start of a load and in unloadFonts          *)
(***************************************************************************)
HelperRuns == task # 0 /\ Runs(helper[task])

\* Closing stdin asks the helper to leave.
BeginTerminate ==
  /\ Queue({"load", "stop"})
  /\ block' = [Head(queue) EXCEPT !.at = "grace"]
  /\ queue' = Tail(queue)
  /\ UNCHANGED <<public, mainThread, mainQueue, taskVars, blockVars, helper, pipe, inHand>>

\* Five seconds later: SIGTERM.
Escalate ==
  /\ block.at = "grace"
  /\ HelperRuns
  /\ block' = [block EXCEPT !.at = "term"]
  /\ UNCHANGED <<public, mainThread, mainQueue, queue, taskVars, blockVars, process, inHand>>

\* A helper takes up a new life, after it has written what belongs to it.
Become(g, life) ==
  /\ helper' = [helper EXCEPT ![g] = life]
  /\ \E said \in IF helper[g].st = "work" THEN Reports(life) ELSE {<< >>} :
       pipe' = [pipe EXCEPT ![g] = @ \o said]
  /\ UNCHANGED <<public, mainThread, mainQueue, queue, block, taskVars, blockVars, inHand>>

\* Mutant of Kill: only waitUntilExit.
MutKill == FALSE

\* Five seconds later: SIGKILL, which ends any helper; waitUntilExit.
Kill ==
  /\ block.at = "term"
  /\ HelperRuns
  /\ Become(task, Failed(helper[task]))

\* Mutant of Terminated: the wait ends after the second period in any case.
MutTerminated == block.at = "term" \/ (block.at = "grace" /\ ~HelperRuns)

Terminated == block.at \in {"grace", "term"} /\ ~HelperRuns

\* The end of unloadFonts on the queue: resetStateLocked, and main goes on.
Stop ==
  /\ block.kind = "stop"
  /\ Terminated
  /\ ClearTask
  /\ numLoaded' = 0 /\ details' = << >>
  /\ main' = "after"
  /\ block' = NoBlock
  /\ UNCHANGED <<generation, state, loads, mainQueue, queue, sent, helper, inHand>>

\* The rest of the block of a load: a new task, launched; or no executable
\* helper, or a launch that raises.  The generation is not looked at.
Launch ==
  /\ block.kind = "load"
  /\ Terminated
  /\ \/ /\ task' = block.gen /\ reading' = TRUE
        /\ cut' = FALSE /\ buffer' = << >> /\ ready' = FALSE
        /\ counted' = 0 /\ status' = "none"
        /\ pipe' = [g \in Gens |-> << >>]
        /\ helper' = [helper EXCEPT ![block.gen] = Life("work", FALSE)]
        /\ UNCHANGED mainQueue
     \/ /\ ClearTask
        /\ mainQueue' = Append(mainQueue, Finish(block.gen, "failed", 0))
        /\ UNCHANGED helper
  /\ block' = NoBlock
  /\ UNCHANGED <<public, mainThread, queue, sent, inHand>>

QueueThread ==
  \/ TakeBlock \/ AppendChunk \/ ReadRest \/ Drain
  \/ BeginTerminate \/ Escalate \/ Kill \/ Stop \/ Launch

(***************************************************************************)
(* The helper processes                                                    *)
(***************************************************************************)
\* While its task is terminated, the helper sees the end of stdin or SIGTERM.
Asked(g) == g = task /\ block.at # "start"

HelperStep(g) ==
  /\ \E life \in NextLives(helper[g], Asked(g)) : Become(g, life)

Crash(g) == Runs(helper[g]) /\ Become(g, Failed(helper[g]))

Helper == \E g \in Gens : HelperStep(g)

Leave == \E g \in Gens : helper[g].st # "work" /\ HelperStep(g)

Ended == main = "gone" /\ UNCHANGED vars

Next ==
  \/ Load \/ Unload \/ Main \/ Handler \/ QueueThread \/ Helper
  \/ (\E g \in Gens : Crash(g))
  \/ Ended

Spec == Init /\ [][Next]_vars

\* Threads and queues go on, and a helper that was asked to leave does; nothing
\* is asked of the user, and a helper may work for ever.
FairSpec == Spec /\ WF_vars(Main \/ Handler \/ QueueThread \/ Leave)

-----------------------------------------------------------------------------
Results == [gen : Gens, state : {"loaded", "failed"}, loaded : Nat]

PartsOf == [event : Events, nl : BOOLEAN]

Blocks == [kind : {"load", "stop", "chunk", "term", "drain"}, gen : Gens \cup {0},
           data : Seq(PartsOf), at : {"start", "grace", "term"}]

TypeOK ==
  /\ generation \in {0, loads}
  /\ state \in {"idle", "loading", "loaded", "failed"}
  /\ numLoaded \in Nat /\ counted \in Nat /\ loads \in 0 .. MaxLoads
  /\ details \in Seq([gen : Gens, event : Events])
  /\ main \in {"idle", "sync", "after", "gone"}
  /\ mainQueue \in Seq(Results)
  /\ queue \in Seq(Blocks) /\ {block, inHand} \subseteq Blocks \cup {NoBlock}
  /\ task \in Gens \cup {0}
  /\ {reading, cut, ready} \subseteq BOOLEAN
  /\ buffer \in Seq(PartsOf)
  /\ sent \subseteq Gens /\ status \in {"none", "done", "failed"}
  /\ helper \in [Gens -> Lives]
  /\ pipe \in [Gens -> Seq(PartsOf)]
  /\ task = 0 => ~reading /\ buffer = << >>

Running == {g \in Gens : Runs(helper[g])}

\* When unloadFonts or cancel has returned, no helper runs and none is about to be
\* started by a load that was still on the queue; the same when the program ends.
IdleMeansNone ==
  (main = "idle" /\ state = "idle") \/ main = "gone" =>
    /\ Running = {}
    /\ \A i \in DOMAIN queue : queue[i].kind # "load"
    /\ block.kind # "load"

\* No two helpers run at a time, for they would register and unregister the same
\* files, which the system does not count; and none is left behind.
OneHelper == (\A g, h \in Running : g = h) /\ IdleMeansNone

\* What is shown as loaded is the load asked for last, not an earlier one whose
\* helper answered meanwhile.
LoadedIsLatest ==
  main = "idle" /\ state = "loaded" => generation \in sent

\* While a helper holds its fonts and the load is shown, the number and the detail
\* line are those it reported, however its output was cut into chunks.
ShowsReport ==
  state = "loaded" /\ generation \in Gens /\ helper[generation].st = "hold" =>
    /\ numLoaded = 1
    /\ Cardinality({i \in DOMAIN details :
         details[i] = [gen |-> generation, event |-> Font(1)]}) = 1

\* A result that is shown stays until the user asks for something else.
ResultStays ==
  [][main = "idle" /\ state \in {"loaded", "failed"} /\ generation' = generation
       => state' = state /\ numLoaded' = numLoaded]_vars

\* Lines of an earlier load may still be added by the block that was running when
\* the new load began, but none once the helper of the new load has started.
OldLinesEnd ==
  [][Len(details') > Len(details) /\ generation # 0 /\ task = generation
       => details'[Len(details')].gen = generation]_vars

\* A load comes to an end, unless its helper works on for ever.
LoadEnds ==
  []<>(state # "loading") \/ <>[](\E g \in Gens : helper[g].st = "work")

\* unloadFonts returns, also when the helper hangs.
UnloadReturns == (main = "sync") ~> (main = "after")

\* "Helper exited successfully -- treat as loaded even if FLS_READY was not seen
\* (e.g. no fonts needed to be loaded)": what is shown as loaded has been loaded,
\* and its helper has reported that.
LoadedMeansReported ==
  main = "idle" /\ state = "loaded" => helper[generation].reported
=============================================================================
