# FontLoaderSub in TLA+

FontLoaderSub reads ASS/SSA subtitles, finds the fonts they name in a directory
of font files, registers those files with the operating system as long as a
window (Windows) or a helper process (macOS) lives, and unregisters them at the
end. This directory holds TLA+ models of that program, the TLC runs that check
them and TLAPS proofs about its core.

All line numbers are in `src/FontLoaderSub/`. `PROJECT.json` maps every
definition to the lines it models, and lists the hazards and the findings.

## The system

| component | state | operations | interacts with |
|---|---|---|---|
| Font loading, `font_loader.c`, `font_load_mac.c`, `cstl.c` | `sub_font`, `font_set`, `loaded_font`, the counters, `walk_path`, `event_cancel` | `fl_add_subs`, `fl_scan_fonts`, `fl_load_fonts`, `fl_unload_fonts`, `fl_cancel`, `fl_cache_fonts` | called by the worker of `main.c` or by `run_loader`; cancelled from another thread or a signal; registers with the system that other programs share |
| Font index, `font_set.c` | line database, counts, index sorted by face, blacklist | `fs_add_font`, `fs_build_index`, `fs_iter_new`, `fs_iter_next` | filled by `fl_scan_fonts`, queried by `fl_load_fonts` |
| Font cache, `font_set.c`, `font_loader.c` | the file `fc-subs.db` beside the fonts | `fs_cache_load`, `fl_cache_matches_font_dir`, `fs_cache_dump` | read and written by `fl_scan_fonts` and `fl_save_cache`; the user changes the directory meanwhile |
| Windows program, `main.c` | `app_state`, `cancelled`, `req_exit`, thread handles, events, two dialog pages | `AppWorker`, `AppCacheWorker`, `DlgWorkProc`, `DlgDoneProc`, `AppRun` | three threads over `FL_AppCtx` without a lock |
| macOS helper, `main_mac.c` | `g_interrupted`, the stage of `run_loader`, stdout buffer | `run_loader`, `wait_for_shutdown`, `on_signal` | JSON events to the parent, stdin and signals from it |
| macOS manager, `mac_gui/FLManager.m` | generation, visible state, results, the task and its pipes | load, unload, cancel; readability and termination handlers | starts and stops the helper; called by `AppDelegate.m` on the main thread |
| macOS user interface, `mac_gui/AppDelegate.m` | chosen paths, menu | load, unload, export, rebuild the index, service | `FLManager` |
| Subtitle parser, `ass_parser.c`, `ass_string.c` | position, section, format columns | style and dialogue lines to font names | callback into `fl_add_subs` |
| Font parser, `ttf_parser.c` | none | name records of TTF, OTF and TTC | callback into `fs_add_font` |
| Sort, `tim_sort.c`; comparison, `util*.c` | none | merge sort; version and name order | used by the index and the record list |
| Text, `util_posix.c`, `util.c` | none | UTF-16 to UTF-8 and back, decoding of subtitle files | paths of fonts, subtitles |
| Paths, mapping (`path*.c`, `util*.c`), export, shortcuts | none | system calls | called by the above |

What is hard about it: three threads (or a signal handler and a parent process)
meet the loader at any moment; a registration outlives the process unless
somebody gives it back; the records the unload works from are made on paths
that fail in the middle; the index query combines a binary search, a blacklist
and two different notions of equal names. What each component must do right:

- loading: a file is registered exactly while one record says so; contents are
  not registered twice; cancellation stops it; unloading returns everything,
  and only its own;
- the index query: the best file first, none of its build missed, a face called
  missing only when it is, never another face;
- the cache: what it gives is the index a scan would give for the files it was
  made of; a torn or stale one is given up, a good one is used;
- the subtitle parser, the conversions, the version order, the sort: the fonts
  that are named, the text that was written, an order, a permutation;
- the Windows program: one user of the loader at a time; unload before rescan
  and before exit; Cancel is no error; a request to leave is always answered;
- the helper: `ready` reaches the parent before the wait, the fonts stay until
  the shutdown, the shutdown is never missed, no exit leaves a font registered;
- the manager: results belong to the latest load, `Loaded` means loaded.

## The modules

`FontLease` is the abstract specification of a loading session: an idle session
begins, takes files, is loaded, releases, and is idle again only when it holds
nothing; after a stop request at most one more file is taken.

`FontLoad` models `fl_load_fonts` and `fl_unload_fonts` (`font_loader.c`
483-841) with the parts of `cstl.c` and `font_load_mac.c` under them. One action
is one turn of a loop between two points at which the other thread or another
program can matter: `ProbeFace` (pass 1), `SkipFace`/`MatchFace` (head of pass
2), `CheckCancel`, `LoadFile` (all of `fl_load_file`), `FinishFace` (the
duplicate record), `SortRecords`, `UnloadRecord` (one callback of the walk),
`EndUnload`. `loaded` is `loaded_font` with its `capacity`, so an allocation
may fail wherever the code allocates; `walkCap` is the capacity of `walk_path`,
so a path may fail to be built when loading and again when unloading. Hashes
are the values of `Digest`; `NoHash` is a field that holds the digest of no
file. `Refcounted` tells Windows, where `AddFontResource` counts, from
CoreText, where a file has one registration in the session
(`font_load_mac.c:31-63`). `StackHash` is the value an unassigned hash field may
have: the digest of any file, of an earlier load or of this one, or other bytes.

`FontQuery` models the order of `fs_idx_comp` and the query: `fs_iter_new`
(`Search`, `NotFound`, `SkipBack`, `SkipBlacklisted`) and `fs_iter_next`
(`BeginNext`, `Step`), called until it returns 0. Positions are counted from 1.
`FoldRank` is the order of `FlStrCmpIW`, `Prefix` what `str_cmp_x` compares;
the two disagree on letter case, which is why both are there. `VerRank` is the
order of `FlVersionCmp`, which calls some different versions equal.

`FontDb` models how `fs_add_font` writes the lines of a file while `ttf_parser.c` calls
back for the records of every name table of every font (a font should have one table,
but `otf_parse_internal` reads all, versions and faces of the first before those of the
second), how it falls back from collection to single font, rolls back to the error line
or to nothing when memory ends (`room` is the number of lines the buffer may hold), and
how `fs_build_index` and `fs_has_file` read the lines again. A line is a record of tag
and text. A name record has `cch`, its length in the file, and `text`, what the string
functions see of it up to the first NUL: the callback passes over `cch = 0` only, so a
name that begins with NUL is written as an empty line. `Counted` says that the lines
have the faces and files that were counted while they were written; a file whose faces
keep to that is `Regular`. `OwnVersion`, `OwnFaces` and `Due` say what the index should
have without going through the lines.

`FontCache` models `fl_scan_fonts` and `fl_save_cache` over `FontDb`: `LoadCache`,
the check of each file (`CheckFile`, `CheckEnds`), the scan (`BeginScan`,
`ScanFile`, `SkipFile`, `ScanEnds`), `Index`, the dump in two steps (`OpenCache`
truncates, `WriteCache` may end short), `Retry`. Each may fail as the code may,
the program may be stopped between any two, and the user adds, replaces and
removes files or deletes the cache at any time. `fs_create` assigns neither the counts
nor the pointers of a new set, and the allocator of the macOS helper does not clear
memory (`main_mac.c:40`; that of `main.c:14` does): a scan begins to count from any
member of `Unassigned`, and where that is more than `Zero`, `WildPointer` ends the
program wherever `fs_build_index` or `fs_free` takes up such a pointer. `src`, `began` and
`calm` are history.

`AssFonts` (`ass_parser.c`, `ass_string.c`, `fl_sub_font_callback` with the memory it
may run out of), `TextCodec` (`util_posix.c`, with the place at which `fl_wchar_to_utf8`
terminates a path), `VersionOrder` (`FlVersionCmp` of both platforms) and `TimSort`
(`tim_sort.c`) are functions without state. `TextAndOrder` applies each to every small
input and states what it should give by a definition of another shape: columns found by
position instead of by cursors, a token-by-token reader of override blocks instead of
nested scans, the identity for a text written and read back.

`WinApp` models `main.c`: `thread` is the program counter of `AppWorker` (one
value per case of its switch, and the code after its loop), `ui` that of the UI
thread, `page` the task dialog's page, `posted` a `WM_CLOSE` in the queue,
`cache` the thread of `AppCacheWorker`. Each statement that reads or writes a
field another thread writes is an action: `cancelled = 1` and `fl_cancel` are
two, and so are the worker's tests, calls and assignments around them. The
loader is an instance of `FontLease`, so what `FontLoad` is proved to implement
is what `WinApp` builds on.

`MacHelper` models `main_mac.c`: the stages of `run_loader` with every `goto
cleanup`, `wait_for_shutdown` with `select` as two steps (entering and being
blocked), stdio as a buffer that may be written at any emit and must be at
`fflush`, `on_signal` at any moment, and a parent that types, closes stdin, or
disappears. It instantiates `FontLease` too.

`HelperLife` is what a helper process does as far as its parent relies on it:
work, hold its fonts, leave, end with status 0, or fail. `MacHelper` lives like
this (`KeepsLife`: each of its steps is a step of `HelperLife` or leaves the
life alone), and `MacSession` supervises such helpers.

`MacSession` models `FLManager.m` and the commands of `AppDelegate.m`. Its
actors are the main thread (`Load`, `Unload`, `Unloaded`, `RunFinish`), the
serial queue (`queue` holds the dispatched blocks, `block` the one that runs,
which has passed its generation check when it was taken), the readability and
termination handlers of each task (`Read`, `Dispatch`, `TerminationHandler`)
and the helper processes. `_generation` is kept as the load it was advanced for,
0 after an unload, so that it also names the task and the `__block` variables of
that load. `terminateTaskLocked` is `BeginTerminate`, `Escalate`, `Kill` and
what follows `Terminated`; the main queue, which only `finishWithState` matters
on, is `mainQueue`. A report line has two parts, so that a chunk may end inside
of it: `Parse` is `processOutputBuffer`. Of the three counters one is kept, as
the code treats them alike. The log, the progress messages and stderr are left
out: they decide nothing, except for the text of an error.

How they compose:

    FontLease <== FontLoad            (implements, checked and proved)
    FontLease  -- used by WinApp, MacHelper for the loader
    HelperLife <== MacHelper          (implements, checked and proved)
    HelperLife -- used by MacSession for each helper
    FontQuery  -- by itself; its answers are the `Indexes` of FontLoad
    VersionOrder -- MCFontQuery checks with it that different versions do tie
    FontDb     -- used by FontCache for the lines and the index
    AssFonts, TextCodec, VersionOrder, TimSort -- applied by TextAndOrder

The proofs are in modules beside them: `FontLoadProofs`, and on top of it
`FontListProofs`, for `FontLoad`; `WinAppProofs`, `MacHelperProofs`,
`MacSessionProofs`, `FontQueryProofs`, `FontCacheProofs`; and `FoldFacts`, facts about
`FoldLeft` that `FontCacheProofs` instantiates with its loops. The runs do not need
them.

External behaviour that is assumed: SIGPIPE has its default action in the
helper; a task dialog handles a `TDM_NAVIGATE_PAGE` before its next
notification and delivers no timer while the error box is open;
`AddFontResource`/`RemoveFontResource` count registrations; CoreText refuses a
second registration of a file in the session and unregisters it for anybody of
the session who asks; a termination handler runs once, on a thread of its own; a
dispatch queue runs blocks in the order of their dispatch; AppKit enables every
item of a menu that is left to enable them itself, so that any command may come
in any state.

## The runs

| run | shows | instance |
|---|---|---|
| `FontLoadSession` | `RegisteredIffRecorded`, `NoContentTwice`, `CountersMatch`, `ListRight`, `StopsSoon`, `CallsReturn`, and `FontLoad` implements `FontLease` (`LeaseSpec`) | 3 faces, 4 files, 3 indexes, counting registrations |
| `FontQueryFind` | `FirstIsRight`, `BuildExact`, `QueryEnds` | every sorted index of up to 3 entries over 3 names, 2 files, 2 formats, 3 versions; every blacklist |
| `FontQueryFace` | violation of `FoundByFace` | up to 2 entries |
| `FontCacheRuns` | `LinesCounted`, `IndexExact`, `NamesFresh`, `NoNeedlessScan` | 2 names, 4 contents, counts that begin with zero or not, 2 changes of the directory, 2 starts |
| `TextAndOrder` | `FontsNamed`, `TextKept`, `VersionsOrdered`, `SortedPermutation` | subtitles of 4 lines, dialogues of 4 pieces, texts of 3 units, versions of 3 characters, arrays of 7 |
| `PathTerminator` | violation of `AlwaysTerminated` | paths of 2 units, any room |
| `WinAppSafety` | `ExitUnloads`, `CallerUnloads`, `LoaderNotShared`, `CancelIsNoError`, `CloseEndsOrFailed`, `WorkEnds` | 2 files; adding subtitles and creating threads may fail |
| `WinAppStuck` | violation of `CloseEnds` | threads are created |
| `MacHelperSafety` | `ExitUnloads`, `KeepsLife`, `StdinCloseEnds` | 2 subtitles, 2 files, a parent that may leave |
| `MacHelperSignal` | violation of `SignalEnds` | a parent that stays |
| `MacSessionSafety` | `OneHelper`, `LoadedIsLatest`, `ShowsReport`, `ResultStays`, `OldLinesEnd`, `LoadEnds`, `UnloadReturns` | 2 loads, any number of unloads |
| `MacSessionStatus` | violation of `LoadedMeansReported` | 1 load |

Every passing run of a module with a state also checks the module's `TypeOK`.

Bounds. In `MCFontLoad` the files `f1` and `f2` have one content and `f3`, `f4`
names that differ in case; the three indexes put a copy behind a face of its
own, give a face more files than `LoadCap + 1` allows (the code's 16 is 1
here, so the limit is met), and put a copy behind a failure and a duplicate.
Three faces are one to make a record, one to duplicate it and one to look at
both. Paths have three lengths, so `walk_path` grows, fails to grow and
suffices. One registration per file (`Refcounted = FALSE`) is covered by the
proofs only, which hold for both. Two files are enough for
`WinApp` and `MacHelper`: one to be loaded before and one after the event that
interrupts. Three index entries hold a face, its neighbour and a second build;
the index is otherwise arbitrary. Sessions of `FontLoad` and `WinApp` repeat for
ever.

In `FontCache` two names (which are alike, so TLC uses their symmetry) are enough
for a file that is known and one that is not, or for a file replaced by another
so that the count stays. The contents are a font whose English version comes
late and whose faces repeat, also in a second name table; a collection of which the
second font has no version; one that breaks after its first font; and one that is not
`Regular`, with a second name table that takes back a counted face and a name that
begins with NUL. Counts begin with zero or with those of a set of one file and two faces
(`Unassigned`), which a scan can also reach by itself. `Rooms` lets the lines of a
file fail for want of memory at the name, in the middle, or not at all. Two
starts (`MaxStarts`) are one that writes the cache and one that reads it; two
changes (`MaxEdits`) can exchange one file for another. When all starts are used
the program stays off, so this run does not check for deadlock.

In `TextAndOrder` a subtitle of four lines has a section, a format, and a line after
another section or format; the lines hold every order of columns, an empty field at the
end, repeated columns and names, and the prefix of vertical fonts. Memory is enough for
all names or for one (`Rooms`). The pieces of a dialogue are whole tags, with and
without parentheses, and the single tokens on which the scanner turns. The units of a
text are the ends of the ranges that UTF-8 and UTF-16 tell apart, so lone and paired
surrogates occur, and the room runs from nothing to enough. Seven entries split to runs
of three and four, the latter split again. Each of these jobs ends with its answer: the
run does not check for deadlock either.

In `MacSession` two loads (`MaxLoads`) are an old and a new one, each with its
task; unloads may come at any moment and as often as the user likes. A helper
reports one font and `ready`, or `ready` alone, or, when it fails, nothing or a
report torn in its second line; of each report one read may end inside a line
(`Cuts`), every other takes what is there. One readability handler is between
its read and its dispatch at a time: handlers of one file handle do not run
beside each other.

Fairness. `FontLoad` and `FontQuery`: a function that was called runs on.
`WinApp`: threads run on, the error box is dismissed in the end; the timer and
a posted `WM_CLOSE` get strong fairness, because the message loop delivers them
in between however often a user presses Cancel. `MacHelper`: the helper runs
on. `MacSession`: the main thread, the handlers and the queue run on, and a
helper that is asked to leave, or leaves by itself, ends; a helper that loads may
do so for ever, and `LoadEnds` excepts it. It is one weak fairness condition
over all of them: a thread that is ready is not passed over while nothing else
happens. No user, parent or signal is assumed to act.

`FontCache` and `TextAndOrder` make no claim of liveness and assume no fairness.

Where another system may stop (a finished query, an ended process) the module has
an `Ended` action, and deadlock is checked.

## What the violations say

1. `WinAppStuck`: after `fl_add_subs` failed by itself the window cannot be
   closed, since `IDCANCEL` is granted in `APP_CANCELLED` only (`main.c:200`),
   which nobody is left to set; the error box returns with each timer.
2. `FontQueryFace`: the blacklist loop (`font_set.c:381`) leaves the face.
3. `MacHelperSignal`: a signal before `select` (`main_mac.c:222`) is lost.
4. `MacSessionStatus`: `main_mac.c:458` ends with status 0 for `FL_OS_ERROR`
   too, without a ready event, and the manager (`FLManager.m:756`) takes status
   0 for success: a scan that failed is shown as loaded.
5. `PathTerminator`: `fl_wchar_to_utf8` lets the last byte of a character of several
   bytes take the byte it reserved (`util_posix.c:46`, 51, 57), and the terminator is
   stored behind the buffer (line 65), where line 23 promises it inside. `TextKept`
   excepts these paths.

More weaknesses are hazards without a violation, as no document speaks of them:

- A single font file can stop the whole program: `fs_build_index` refuses the index of the
  directory when the counts do not match its lines (`font_set.c:334`). They do not when a
  name begins with NUL (it is written as the empty line that ends a block and counted as
  a face, `font_set.c:75`, 93) or when a font has a second name table with a version (which
  takes back faces that stay counted, `font_set.c:83`, `ttf_parser.c:167`). `LinesCounted`
  excepts scans of such files, by `Regular`; the run has one, and without the exception it
  fails at once.
- On macOS it need not even be a font file: `fs_create` leaves the counts unassigned
  (`font_set.c:113`), and where the memory holds those of the set freed before
  (`font_loader.c:380`), a scan of good files is refused. `LinesCounted` excepts scans that
  did not begin with zero. The index pointer and the map are unassigned as well.
- A name for which there is no memory is dropped: `fl_sub_font_callback` says so
  (`font_loader.c:173`), `fire_font_cb` does not look, and the load goes on without the
  font. `FontsNamed` takes this as the code has it.
- When the thread that should unload cannot be created (`main.c:192`) the program
  ends without unloading; `ExitUnloads` excepts this by `noThread`.
- The hash of a duplicate record is never assigned (`font_loader.c:766`) but
  compared later (`font_loader.c:524`): a copy of a file whose registration failed
  may be passed over as a duplicate though neither is loaded.
- `fl_unload_cb` (`font_loader.c:818`) unregisters files whose registration had
  failed, among them those another program holds.
- A write to a parent that is gone ends the helper by SIGPIPE with its fonts
  registered.
- A file whose content is replaced under its name keeps its old faces in the
  cache, and a file that could not be recorded for want of memory is saved as
  one without faces: `NamesFresh` speaks of names, as the check does.
- A font of a collection that has no version record takes the version of the
  font before it; `IndexExact` asks for a font's own version where it has one. Of several
  versions it is the last English one, or else the first; but one that says no language
  (0) gives way to any after it.
- `\fn` inside the parentheses of another tag (`\t(\fnA)`) is not seen, of
  several arguments in parentheses the last stands for the name, and `\fn0` is
  no font: `FontsNamed` states these as the code has them.
- On POSIX, the rightmost digit that differs decides between two numbers
  (`util_posix.c:361`), so 1.12 counts as newer than 1.21, though line 349 says "compare
  numerically"; `VersionsOrdered` asks for an order, not for that of the numbers.
- Numbers with zeros in front make the POSIX version order intransitive
  (1 < 10 < 01 = 1), so the sorted index then depends on the order of the files.
  On Windows the leftmost digit that both numbers have decides, and 1.11 and 1.12
  are equal. `VersionsOrdered` claims transitivity without such zeros only.

## What is proved

`FontLoadProofs` proves for every number of faces, every set of files, every
index and every order of names, under `ConstantsAssumption` only:

- `TypeCorrect`: `Spec => []TypeOK`;
- `RegistrationsRecorded`: `Spec => []RegisteredIffRecorded`;
- `ContentOnce`: `Spec => []NoContentTwice`;
- `CancelStops`: `Spec => StopsSoon`;
- `ImplementsLease`: `Spec => LeaseSpec`, by `FontLease`'s initial state and one
  step per action.

`RegisteredIffRecorded` is not inductive. The inductive invariant adds what the
code relies on silently: between two loads the list of records is empty and
nothing is registered; the records that stand for a file of their own
(`Primary`) have distinct files, and the registered ones carry the digest of
their file, so the pointer check and the hash check of `fl_load_file` see every
earlier registration; the vector has room for the record when `fl_load_file`
gets to register, so `vec_append` cannot drop it; while pass 2 runs on a face,
`scan` counts what it says, so `dup = total` implies that `dupAt` is a record;
the capacity of `walk_path` is at least the path of every registered file, so
no unload callback is without its path; and a registration after the
cancellation has been followed only by steps that register nothing. Sorting
permutes the records and keeps all of this, whatever the comparison answers.

`WinAppProofs` proves for every set of files, with and without failures, under
`WinAssumption` only:

- `WinTypeCorrect`: `Spec => []TypeOK`;
- `ExitIsClean`: `Spec => []ExitUnloads`;
- `UnloadComesFirst`: `Spec => []CallerUnloads`;
- `OneUserOfLoader`: `Spec => []LoaderNotShared`;
- `NoErrorByCancel`: `Spec => []CancelIsNoError`.

None of these is inductive, because the dialog and the threads see each other only
through `app_state`, `cancelled` and the handles of the threads. The inductive
invariant says for each place of the worker in which phase the loader is
(`LoaderOK`), which `app_state` it can find there and which page is or will be
shown (`StageOK`, `PageOK`), and that a stop of the loader has been
requested only once the application is cancelled (`CancelOK`). With this a page change
that is still to come cannot start a second worker, and the cache thread, started from
a page that is shown only when the fonts are loaded, meets a loader at rest.

`FontListProofs` proves for the same parameters, on top of the invariant of
`FontLoadProofs`:

- `CountersAreRight`: `Spec => []CountersMatch`;
- `ListIsRight`: `Spec => []ListRight`.

`ListRight` speaks of the end of a load only. The invariant behind it says while pass 2
runs which faces have been reported (`FacesSaid`) and what is known of the face at
hand (`FaceSaid`): a file of it that was no duplicate has left a record, and when
all of its files are duplicates, nothing was appended since `fl_load_file` found
room for a record, so the duplicate record cannot be dropped. The counters are the
cardinalities of sets of positions; during the unload `num_font_loaded` counts
those the walk has still to visit, so it does not wrap.

`MacHelperProofs` proves for every set of files and number of subtitles:

- `ExitIsClean`: `Spec => []ExitUnloads`, by `PlaceOK`: the phase of the loader
  at each place of the process, so that `cleanup` is reached before a load or after
  its end, and the set is freed only behind an unload;
- `HelperTypeCorrect`: `Spec => []TypeOK`;
- `HelperKeepsLife`: `Spec => KeepsLife`, the refinement of `HelperLife`, one step per
  action. It needs to know at each place whether the report has left the process
  (`ReportOK`): nothing waits in the buffer with the ready event in it, the event has
  gone out before the wait, and after it the result is not `oom` any more;
- `HoldsUntilAsked`: `Spec => FontsStay`, a part of that in the words of the header of
  `main_mac.c`; it needs no invariant.

`MacSessionProofs` proves for any number of loads and unloads, and any lines a helper
may report:

- `SessionTypeCorrect`: `Spec => []TypeOK`;
- `OneHelperRuns`: `Spec => []OneHelper`;
- `LatestIsShown`: `Spec => []LoadedIsLatest`;
- `ShownResultStays`: `Spec => ResultStays`;
- `OldLinesHaveEnded`: `Spec => OldLinesEnd`;
- `ReportIsShown`: `Spec => []ShowsReport`.

None of the invariants is inductive: a load advances the generation on the main
thread, its block runs later, and what belongs to the load before may be on the queue,
running, or in the hand of a handler that has not dispatched it. The invariant
`Protocol` therefore speaks of blocks wherever they are. Blocks of loads are in the
order of the loads, nothing is loaded behind a stop, and the end of a task is told
once (`QueueOK`); a load leaves traces only after its block has run, so the task is
that of the last load that left any (`OrderOK`); the helper of the task is the only one
that runs, and a block that works for a task works for the one that is there
(`HelperOK`); the task of the last load stays until its last block (`CurrentOK`); a main
thread that does not wait has no stop under way (`StopOK`), and behind a stop nothing
runs or is to be loaded (`QuietOK`); a result on the main queue, or shown, is one of a
load of which nothing more will be told (`ResultOK`, `ShownOK`), which is why a later
block cannot replace it.

`ReportIsShown` needs more than who may speak: what has been said. `FlowOK` follows the
report of the last load part by part, from the helper that writes it to the window. The
parts written so far are, in order, those consumed, those of the chunk that is being
parsed, the chunks on the queue, the one in the handler's hand, and those in the pipe;
nothing is lost, repeated or moved across the end of the task. `Consumed` says what the
first *n* parts have left in the line buffer, the counters, the lines, the ready mark and
the main queue, so a chunk that ends in the middle of a line leaves what the next one
completes (`ChunkConsumed`, a fold that is taken apart by `FoldFacts`). `NewOK` says that
a load whose block has still to run has left nothing of its own, so the report starts from
empty counters.

`FontQueryProofs` proves for every index of any length that is sorted, every face, every
blacklist, and whatever names fold together and versions tie:

- `QueryTypeCorrect`: `Spec => []TypeOK`, so no loop leaves the index;
- `BestIsFirst`: `Spec => []FirstIsRight`;
- `OneBuildAndAll`: `Spec => []BuildExact`.

The invariant says what the binary search has put aside, that the position it
leads to parts the index into smaller or blacklisted entries and those not smaller
(`FirstAt`), and up to where the iteration has returned what it should (`Covered`).

`FontCacheProofs` proves for every set of names and fonts, every room the lines may have,
whatever counts a new set may begin with, and any number of starts and changes to the
directory, under `CacheAssumption` only:

- `CacheTypeCorrect`: `Spec => []TypeOK`;
- `CountsOfLines`: `Spec => []LinesCounted`;
- `NamesAreFresh`: `Spec => []NamesFresh`;
- `ScansWhenNeeded`: `Spec => NoNeedlessScan`;
- `IndexIsExact`: `Spec => []IndexExact`.

Below it are lemmas about `FontDb`, from one line to a file: each line read changes
what was read in one of five ways; each name record keeps the lines in step with
the count, versions that take back lines and faces that repeat included; so do the loops
over records, name tables and fonts; a block ends where the next can begin; hence
`AddFont` gives back the set it got, or one with one more whole block
(`AddFontAdds`), wherever the room ends and whatever the file holds. The loops are
folds, and what a fold keeps is proved once, in `FoldFacts` (`FoldKeeps`), by induction
on the length of the sequence.

The invariant `CInv` takes the counts of the set without those that were in its memory
(`Own`). It says that the set and the cache file have lines that tell these counts and
the names of the files they were written from (`Sound`), or that the lines of the set are
short of a face that was counted (`Short`), for which one of the files is not `Regular`
(`OfIrregular`); that what is short does not get past `fs_build_index`, nor do counts that
did not begin with zero as soon as there is a face (`PastIndex`), so that neither reaches
the cache file with faces; that a cache file is whole exactly if it was written to its end;
and what the walk has seen of the directory and of the set so far. From it `NamesFresh`
follows for any contents and any counts to begin with; `LinesCounted` follows with the two
exceptions it names, and for a cache with faces with none: what is read back has passed
`fs_build_index` before.

`IndexIsExact` says which entries there are, where the lemmas above count them, and has no
exception. `ExactInv` adds to `CInv` that the lines of the set, if they have the faces that
were counted, and those of the cache file give the entries due for what they were written
from (`SetExact`, `FileExact`). One file is followed through all loops of the parser:

- `Speaks` names the one record whose version stands in the lines after some of them were
  seen, though each version takes back the one before; after all of them it is the font's
  own (`SpeaksOwn`), which `OwnVersion` states without the order of the loops;
- `Heard` follows the name tables of one font, which are read one after the other, each
  in two loops. Either the entries are those of the faces seen so far, and have the
  version that is in the lines (`OnPar`), or a face that was counted is missing (`Fallen`):
  an empty one, or one that a version of a later table took back. The next version cannot
  repair this, since the faces are missing from the lines before the font too, and so the
  index stays behind the count to the end (`Behind`) and such lines are refused;
- `Follows` says the same of whole fonts, and `Collected` carries it over the fonts of a
  collection, or says which of them cannot be read or that the room ended; `GotIs` and
  `FileIndexed` then say what `fs_add_font` keeps.

These speak of a part of a sequence, so they need more of a fold than that each
step keeps something: `FoldSteps`, an induction on the number of elements taken.

The proofs take a statement of the code that an action models as one step, as
the model checker does.

Only model-checked: the functions of `TextAndOrder`, which are recursive operators, of
which the prover cannot speak; and all liveness (`CallsReturn`, `CloseEndsOrFailed`, `WorkEnds`,
`StdinCloseEnds`, `QueryEnds`, `LoadEnds`, `UnloadReturns`), which is out of its reach.

## What is not modelled, and the plan

Next would be the export beside the cache thread (`exporter.c:148`), as an extension of
`WinApp`.

`AssFonts` does not check the syntax inside words (`\fn` followed by letters is the
token of the tag and a word), and takes a line's head as read; names that differ only in
case are one word. `TextCodec` has the POSIX conversions; those of Windows are calls of
the system. Of `ttf_parser.c` the model has which records reach the callback, in which
order, and that a font may be refused; the checks of offsets and lengths that refuse it
are an input. Of the directory walk the model has the callbacks; links and
subdirectories are left out, as is reading the blacklist file. `FontDb` has no names
that begin with one of the tags of the lines (a tab and `v:`, `t:` or `!!`), which would
be read as such a line. The counts of `FontCache` do not wrap: what a set begins with
and what is added stay below 2^32 (a count that began just below it could make up for
faces that are missing). `WildPointer` is the whole of what the model says about the
pointers `fs_create` leaves unassigned: `realloc` and `munmap` of such a value work or
end the program; a heap that is corrupted and used on has no model. `PathTerminator`
shows where the terminator is stored; what lies there has no model either.

Of the modelled parts `MacSession` leaves out the log, the progress messages,
stderr, the export of the loaded files, and the registrations a killed helper
leaves in the session, which nothing takes back.

Left out for good: drawing, help, shortcuts, path syntax and the build scripts,
which keep no state of the kind checked here. The status line of the Windows dialog reads
`font_set` while the worker may free it (`main.c:74`); this is listed as a
hazard and has no model, as nothing can be said about its outcomes.
