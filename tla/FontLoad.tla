----------------------------- MODULE FontLoad -----------------------------
(***************************************************************************)
(* fl_load_fonts and fl_unload_fonts of font_loader.c: for every face the  *)
(* subtitles ask for, register the matching font files with the operating  *)
(* system, record what became of each in the vector loaded_font, and give  *)
(* everything back when unloading.                                         *)
(*                                                                         *)
(* One worker thread executes both; fl_cancel is called from another       *)
(* thread, and other programs register fonts in the same session.          *)
(***************************************************************************)
EXTENDS Integers, Sequences, FiniteSets, Functions

CONSTANTS
  NumFaces,     \* faces in sub_font; a face is its position there
  Files,        \* font files below font_path
  NoFile,       \* the filename of a record that has none (NULL)
  Digest,       \* the SHA-256 of a file's content
  NoHash,       \* a hash field holding bytes that are no file's digest
  PathLen,      \* room a file's full path takes in walk_path
  Rank,         \* place of a filename in the order of FlStrCmpIW
  FaceRank,     \* place of a face in that order
  Indexes,      \* the indexes a scan may produce: face -> matching files
  LoadCap,      \* the 16 of num_loaded <= 16
  Refcounted,   \* TRUE: Windows, a count per file; FALSE: CoreText, one owner
  Shared        \* the files other programs register and unregister

Faces == 1 .. NumFaces

ASSUME ConstantsAssumption ==
  /\ NumFaces \in Nat
  /\ NoFile \notin Files
  /\ PathLen \in [Files -> Nat \ {0}]
  /\ Rank \in [Files -> Nat]
  /\ FaceRank \in [Faces -> Nat]
  /\ DOMAIN Digest = Files
  /\ \A f \in Files : Digest[f] # NoHash
  /\ Indexes \subseteq [Faces -> Seq(Files)]
  /\ LoadCap \in Nat
  /\ Refcounted \in BOOLEAN
  /\ Shared \subseteq Files

VARIABLES
  pc,           \* where the worker is
  index,        \* font_set: the index of the last scan
  face,         \* the face at hand
  scan,         \* locals of the do-while loop of pass 2
  r,            \* the local r of fl_load_fonts
  result,       \* what fl_load_fonts returned
  loaded,       \* loaded_font: the records
  cap,          \* loaded_font.capacity
  walkCap,      \* walk_path.vec.capacity
  count,        \* num_font_loaded, num_font_failed, num_font_unmatched
  cursor,       \* the record fl_unload_fonts is at
  cancelled,    \* event_cancel is set
  ours,         \* registrations of each file made by this process
  others,       \* files registered by another program
  late          \* history: a file was registered after the cancellation

loadVars == <<face, scan, r, result, loaded, cap, walkCap, count>>
osVars == <<ours, others, late>>
vars == <<pc, index, loadVars, cursor, cancelled, osVars>>

(***************************************************************************)
(* The records of loaded_font.                                             *)
(***************************************************************************)
Digests == {Digest[f] : f \in Files}

\* base is the FL_MatchFlag without FL_LOAD_DUP, dup that bit.
Entry == [base : {"os", "ok", "err", "miss"}, dup : BOOLEAN, face : Faces,
          file : Files \cup {NoFile}, hash : Digests \cup {NoHash}]

Record(base, dup, fc, f, h) ==
  [base |-> base, dup |-> dup, face |-> fc, file |-> f, hash |-> h]

\* A record that fl_load_file made: it stands for a file of its own.
Primary(e) == ~e.dup /\ e.base \in {"ok", "err"}

Registered(e) == ~e.dup /\ e.base = "ok"

NoCount == [loaded |-> 0, failed |-> 0, unmatched |-> 0]
NoScan == [total |-> 0, ok |-> 0, dup |-> 0, dupAt |-> 1]

Init ==
  /\ pc = "idle"
  /\ index \in Indexes
  /\ face = 1
  /\ scan = NoScan
  /\ r = "ok"
  /\ result = "none"
  /\ loaded = << >>
  /\ cap = 0
  /\ walkCap = 0
  /\ count = NoCount
  /\ cursor = 1
  /\ cancelled = FALSE
  /\ ours = [f \in Files |-> 0]
  /\ others = {}
  /\ late = FALSE

(***************************************************************************)
(* vec_prealloc(&loaded_font, 1): the capacities it may leave behind; the  *)
(* old one when realloc fails.  walk_path grows to what a path needs.      *)
(***************************************************************************)
Prealloc ==
  IF Len(loaded) + 1 <= cap THEN {cap}
  ELSE {cap, IF cap * 2 < Len(loaded) + 1 THEN cap * 2 + 2 ELSE cap * 2}

HasRoom(c) == Len(loaded) < c

PushPath(f) == IF PathLen[f] <= walkCap THEN {walkCap} ELSE {walkCap, PathLen[f]}

(***************************************************************************)
(* fl_load_fonts                                                           *)
(***************************************************************************)
\* The caller has unloaded what an earlier load left; the scan before the
\* load may have built another index.
BeginLoad ==
  /\ pc = "idle"
  /\ pc' = "probe"
  /\ index' \in Indexes
  /\ face' = 1
  /\ r' = "ok"
  /\ result' = "none"
  /\ count' = NoCount
  /\ UNCHANGED <<scan, loaded, cap, walkCap, cursor, cancelled, osVars>>

\* Pass 1: fonts the system already has.
ProbeCancelled ==
  /\ pc = "probe"
  /\ face <= NumFaces
  /\ cancelled
  /\ pc' = "done"
  /\ r' = "cancel"
  /\ result' = "cancel"
  /\ UNCHANGED <<index, face, scan, loaded, cap, walkCap, count, cursor,
                 cancelled, osVars>>

ProbeFace(installed) ==
  /\ pc = "probe"
  /\ face <= NumFaces
  /\ ~cancelled
  /\ face' = face + 1
  /\ \/ ~installed /\ UNCHANGED <<pc, r, loaded, cap>>
     \/ /\ installed
        /\ cap' \in Prealloc
        /\ IF HasRoom(cap')
             THEN /\ loaded' = Append(loaded,
                                 Record("os", FALSE, face, NoFile, NoHash))
                  /\ UNCHANGED <<pc, r>>
             ELSE r' = "oom" /\ pc' = "sort" /\ UNCHANGED loaded
  /\ UNCHANGED <<index, scan, result, walkCap, count, cursor, cancelled, osVars>>

EndProbe ==
  /\ pc = "probe"
  /\ face > NumFaces
  /\ pc' = "match"
  /\ face' = 1
  /\ UNCHANGED <<index, scan, r, result, loaded, cap, walkCap, count, cursor,
                 cancelled, osVars>>

\* Pass 2: fonts to load.
FaceLoaded(fc) == \E i \in DOMAIN loaded : loaded[i].face = fc

\* Mutant of SkipFace: continue without going to the next face.
MutSkipFace ==
  /\ pc = "match"
  /\ face <= NumFaces
  /\ FaceLoaded(face)
  /\ UNCHANGED <<pc, index, loadVars, cursor, cancelled, osVars>>

SkipFace ==
  /\ pc = "match"
  /\ face <= NumFaces
  /\ FaceLoaded(face)
  /\ face' = face + 1
  /\ UNCHANGED <<pc, index, scan, r, result, loaded, cap, walkCap, count,
                 cursor, cancelled, osVars>>

MatchFace ==
  /\ pc = "match"
  /\ face <= NumFaces
  /\ ~FaceLoaded(face)
  /\ cap' \in Prealloc
  /\ \/ /\ ~HasRoom(cap')
        /\ r' = "oom"
        /\ pc' = "sort"
        /\ UNCHANGED <<face, scan, loaded, count>>
     \/ /\ HasRoom(cap')
        /\ index[face] = << >>
        /\ loaded' = Append(loaded, Record("miss", FALSE, face, NoFile, NoHash))
        /\ count' = [count EXCEPT !.unmatched = @ + 1]
        /\ face' = face + 1
        /\ UNCHANGED <<pc, scan, r>>
     \/ /\ HasRoom(cap')
        /\ index[face] # << >>
        /\ scan' = NoScan
        /\ pc' = "check"
        /\ UNCHANGED <<face, r, loaded, count>>
  /\ UNCHANGED <<index, result, walkCap, cursor, cancelled, osVars>>

\* fl_check_cancel before every file of a face.
CheckCancel ==
  /\ pc = "check"
  /\ IF cancelled
       THEN r' = "cancel" /\ result' = "cancel" /\ pc' = "done"
       ELSE pc' = "load" /\ UNCHANGED <<r, result>>
  /\ UNCHANGED <<index, face, scan, loaded, cap, walkCap, count, cursor,
                 cancelled, osVars>>

(***************************************************************************)
(* fl_load_file: what it does to the file f for the face at hand.          *)
(***************************************************************************)
IndicesOf(Test(_)) == {i \in DOMAIN loaded : Test(loaded[i])}
IsFirst(at, S) == at \in S /\ \A j \in S : at <= j

SameFile(f) == IndicesOf(LAMBDA e : e.file = f)
\* Mutant of SameHash: the hashes are compared for the same face only.
MutSameHash(h) ==
  IndicesOf(LAMBDA e : e.base = "ok" /\ e.hash = h /\ e.face = face)
SameHash(h) == IndicesOf(LAMBDA e : e.base = "ok" /\ e.hash = h)

\* The loop of fl_load_fonts goes on to the next match of the index.
NextMatch(outcome, ok) ==
  outcome # "oom" /\ ok <= LoadCap /\ scan.total + 1 < Len(index[face])

\* Mutant of Outcome: the cancel event is checked before the loop only.
MutOutcome(outcome, at) ==
  LET ok == scan.ok + IF outcome = "ok" THEN 1 ELSE 0
  IN  /\ r' = outcome
      /\ scan' = [total |-> scan.total + 1, ok |-> ok,
                  dup |-> scan.dup + IF outcome = "dup" THEN 1 ELSE 0,
                  dupAt |-> at]
      /\ pc' = IF NextMatch(outcome, ok) THEN "load" ELSE "finish"

\* fl_load_file returned outcome; at is the duplicate it found.
Outcome(outcome, at) ==
  LET ok == scan.ok + IF outcome = "ok" THEN 1 ELSE 0
  IN  /\ r' = outcome
      /\ scan' = [total |-> scan.total + 1, ok |-> ok,
                  dup |-> scan.dup + IF outcome = "dup" THEN 1 ELSE 0,
                  dupAt |-> at]
      /\ pc' = IF NextMatch(outcome, ok) THEN "check" ELSE "finish"

\* vec_append drops the record when the vector has no room for it.
AppendRecord(e) ==
  loaded' = IF HasRoom(cap') THEN Append(loaded, e) ELSE loaded

\* The system accepts a file: Windows counts registrations, CoreText refuses
\* one that is registered already, whoever did it.
Accepts(f) == Refcounted \/ (ours[f] = 0 /\ f \notin others)

NotRecorded == UNCHANGED <<loaded, count, osVars>>

FailFile(f, h) ==
  /\ AppendRecord(Record("err", FALSE, face, f, h))
  /\ count' = [count EXCEPT !.failed = @ + 1]
  /\ Outcome("err", scan.dupAt)
  /\ UNCHANGED osVars

RegisterFile(f) ==
  /\ Accepts(f)
  /\ ours' = [ours EXCEPT ![f] = @ + 1]
  /\ late' = (late \/ cancelled)
  /\ AppendRecord(Record("ok", FALSE, face, f, Digest[f]))
  /\ count' = [count EXCEPT !.loaded = @ + 1]
  /\ Outcome("ok", scan.dupAt)
  /\ UNCHANGED others

\* Check 2 of fl_load_file, once the path of f is built.
LoadContent(f) ==
  \/ FailFile(f, NoHash)     \* not mapped: a hash nobody reads, not assigned
  \/ /\ \E at \in DOMAIN loaded :
          IsFirst(at, SameHash(Digest[f])) /\ Outcome("dup", at)
     /\ NotRecorded
  \/ /\ SameHash(Digest[f]) = {}
     /\ RegisterFile(f) \/ FailFile(f, Digest[f])

\* Mutant of LoadFile: the result of vec_prealloc is not looked at.
MutLoadFile ==
  /\ pc = "load"
  /\ cap' \in Prealloc
  /\ LET f == index[face][scan.total + 1]
     IN  \/ /\ \E at \in DOMAIN loaded :
                 IsFirst(at, SameFile(f)) /\ Outcome("dup", at)
            /\ NotRecorded /\ UNCHANGED walkCap
         \/ /\ SameFile(f) = {}
            /\ walkCap' \in PushPath(f)
            /\ IF PathLen[f] <= walkCap'
                 THEN LoadContent(f)
                 ELSE Outcome("oom", scan.dupAt) /\ NotRecorded
  /\ UNCHANGED <<index, face, result, cursor, cancelled>>

LoadFile ==
  /\ pc = "load"
  /\ cap' \in Prealloc
  /\ LET f == index[face][scan.total + 1]
     IN  \/ /\ ~HasRoom(cap')
            /\ Outcome("oom", scan.dupAt)
            /\ NotRecorded /\ UNCHANGED walkCap
         \/ /\ HasRoom(cap')
            /\ \E at \in DOMAIN loaded :
                 IsFirst(at, SameFile(f)) /\ Outcome("dup", at)
            /\ NotRecorded /\ UNCHANGED walkCap
         \/ /\ HasRoom(cap')
            /\ SameFile(f) = {}
            /\ walkCap' \in PushPath(f)
            /\ IF PathLen[f] <= walkCap'
                 THEN LoadContent(f)
                 ELSE Outcome("oom", scan.dupAt) /\ NotRecorded
  /\ UNCHANGED <<index, face, result, cursor, cancelled>>

(***************************************************************************)
(* The end of a face, of pass 2 and of fl_load_fonts.                      *)
(***************************************************************************)
\* The hash of a DUP record is never assigned: it is what the stack held, the
\* digest of any file hashed in this load or an earlier one, or other bytes.
StackHash == Digests \cup {NoHash}

\* Mutant of FinishFace: a face of one file gets no duplicate record.
MutFinishFace ==
  /\ pc = "finish"
  /\ IF scan.dup = scan.total /\ scan.total > 1
       THEN /\ cap' \in Prealloc
            /\ LET ref == loaded[scan.dupAt]
               IN  \E h \in StackHash :
                     AppendRecord(Record(ref.base, TRUE, face, ref.file, h))
       ELSE UNCHANGED <<cap, loaded>>
  /\ pc' = IF r = "oom" THEN "sort" ELSE "match"
  /\ face' = face + 1
  /\ scan' = NoScan
  /\ UNCHANGED <<index, r, result, walkCap, count, cursor, cancelled, osVars>>

FinishFace ==
  /\ pc = "finish"
  /\ IF scan.dup = scan.total
       THEN /\ cap' \in Prealloc
            /\ LET ref == loaded[scan.dupAt]
               IN  \E h \in StackHash :
                     AppendRecord(Record(ref.base, TRUE, face, ref.file, h))
       ELSE UNCHANGED <<cap, loaded>>
  /\ pc' = IF r = "oom" THEN "sort" ELSE "match"
  /\ face' = face + 1
  /\ scan' = NoScan
  /\ UNCHANGED <<index, r, result, walkCap, count, cursor, cancelled, osVars>>

EndMatch ==
  /\ pc = "match"
  /\ face > NumFaces
  /\ pc' = "sort"
  /\ UNCHANGED <<index, loadVars, cursor, cancelled, osVars>>

\* fl_load_rec_sort: failed and missing first, then records without a file,
\* then by filename, duplicates after what they duplicate, then by face.
Mask(e) == CASE e.base = "err" -> 16 [] e.base = "miss" -> 8 [] OTHER -> 0

Precedes(a, b) ==
  \/ Mask(a) > Mask(b)
  \/ /\ Mask(a) = Mask(b)
     /\ \/ a.file = NoFile /\ b.file # NoFile
        \/ /\ a.file # NoFile /\ b.file # NoFile
           /\ \/ Rank[a.file] < Rank[b.file]
              \/ /\ Rank[a.file] = Rank[b.file]
                 /\ \/ ~a.dup /\ b.dup
                    \/ ~a.dup /\ ~b.dup /\ FaceRank[a.face] < FaceRank[b.face]

\* tim_sort leaves some arrangement the comparison allows: it answers "less"
\* both ways for two records without a file and for two duplicates.
SortRecords ==
  /\ pc = "sort"
  /\ \E p \in Bijection(DOMAIN loaded, DOMAIN loaded) :
       /\ loaded' = [i \in DOMAIN loaded |-> loaded[p[i]]]
       /\ \A i, j \in DOMAIN loaded : i < j => ~Precedes(loaded'[j], loaded'[i])
  /\ pc' = "done"
  /\ result' = "ok"
  /\ UNCHANGED <<index, face, scan, r, cap, walkCap, count, cursor, cancelled,
                 osVars>>

(***************************************************************************)
(* fl_unload_fonts: fl_unload_cb for every record, then the vector cleared.*)
(***************************************************************************)
\* Mutant of BeginUnload: the walk starts one record early.
MutBeginUnload ==
  /\ pc = "done"
  /\ pc' = "unload"
  /\ cursor' = 0
  /\ UNCHANGED <<index, loadVars, cancelled, osVars>>

BeginUnload ==
  /\ pc = "done"
  /\ pc' = "unload"
  /\ cursor' = 1
  /\ UNCHANGED <<index, loadVars, cancelled, osVars>>

\* The system drops a registration of ours; when there is none, it drops the
\* one another program made.
Unregister(f) ==
  IF ours[f] > 0
    THEN ours' = [ours EXCEPT ![f] = @ - 1] /\ UNCHANGED others
    ELSE others' = others \ {f} /\ UNCHANGED ours

\* Mutant of UnloadRecord: the callback stops the walk at a duplicate.
MutUnloadRecord ==
  /\ pc = "unload"
  /\ cursor <= Len(loaded)
  /\ LET e == loaded[cursor]
     IN  /\ count' = IF Registered(e)
                       THEN [count EXCEPT !.loaded = @ - 1] ELSE count
         /\ IF e.file = NoFile
              THEN UNCHANGED <<walkCap, ours, others>>
              ELSE /\ walkCap' \in PushPath(e.file)
                   /\ IF ~e.dup /\ PathLen[e.file] <= walkCap'
                        THEN Unregister(e.file)
                        ELSE UNCHANGED <<ours, others>>
         /\ cursor' = IF e.dup THEN Len(loaded) + 1 ELSE cursor + 1
  /\ UNCHANGED <<pc, index, face, scan, r, result, loaded, cap, cancelled, late>>

UnloadRecord ==
  /\ pc = "unload"
  /\ cursor <= Len(loaded)
  /\ LET e == loaded[cursor]
     IN  /\ count' = IF Registered(e)
                       THEN [count EXCEPT !.loaded = @ - 1] ELSE count
         /\ IF e.file = NoFile
              THEN UNCHANGED <<walkCap, ours, others>>
              ELSE /\ walkCap' \in PushPath(e.file)
                   /\ IF ~e.dup /\ PathLen[e.file] <= walkCap'
                        THEN Unregister(e.file)
                        ELSE UNCHANGED <<ours, others>>
  /\ cursor' = cursor + 1
  /\ UNCHANGED <<pc, index, face, scan, r, result, loaded, cap, cancelled, late>>

\* Mutant of EndUnload: the counters are kept.
MutEndUnloadCount ==
  /\ pc = "unload"
  /\ cursor > Len(loaded) \/ (cursor = 1 /\ walkCap = 0)
  /\ pc' = "idle"
  /\ loaded' = << >>
  /\ cursor' = 1
  /\ UNCHANGED <<index, face, scan, r, result, cap, walkCap, count, cancelled,
                 osVars>>

\* fl_walk_loaded_fonts gives up at once when the directory itself cannot be
\* pushed, which needs a walk_path in which no file's path was ever built.
EndUnload ==
  /\ pc = "unload"
  /\ cursor > Len(loaded) \/ (cursor = 1 /\ walkCap = 0)
  /\ pc' = "idle"
  /\ loaded' = << >>
  /\ count' = NoCount
  /\ cursor' = 1
  /\ UNCHANGED <<index, face, scan, r, result, cap, walkCap, cancelled, osVars>>

(***************************************************************************)
(* The other thread, and the other programs of the desktop session.        *)
(***************************************************************************)
Cancel ==
  /\ ~cancelled
  /\ cancelled' = TRUE
  /\ UNCHANGED <<pc, index, loadVars, cursor, osVars>>

OtherRegisters(f) ==
  /\ f \notin others
  /\ Refcounted \/ ours[f] = 0
  /\ others' = others \cup {f}
  /\ UNCHANGED <<pc, index, loadVars, cursor, cancelled, ours, late>>

OtherUnregisters(f) ==
  /\ f \in others
  /\ others' = others \ {f}
  /\ UNCHANGED <<pc, index, loadVars, cursor, cancelled, ours, late>>

Load ==
  \/ ProbeCancelled
  \/ \E installed \in BOOLEAN : ProbeFace(installed)
  \/ EndProbe \/ SkipFace \/ MatchFace \/ CheckCancel \/ LoadFile
  \/ FinishFace \/ EndMatch \/ SortRecords

Unload == UnloadRecord \/ EndUnload

Environment ==
  \/ Cancel
  \/ \E f \in Shared : OtherRegisters(f) \/ OtherUnregisters(f)

Next == BeginLoad \/ Load \/ BeginUnload \/ Unload \/ Environment

Spec == Init /\ [][Next]_vars

\* A function that was called runs on to its return; nothing makes the
\* caller load or unload, or a user cancel.
FairSpec == Spec /\ WF_vars(Load \/ Unload)

-----------------------------------------------------------------------------
(***************************************************************************)
(* Properties                                                              *)
(***************************************************************************)
\* The type of the variables; num_font_* are written as integers, so that a
\* decrement below zero (a wrap in the code) would show in CountersMatch.
TypeOK ==
  /\ pc \in {"idle", "probe", "match", "check", "load", "finish", "sort",
             "done", "unload"}
  /\ index \in Indexes
  /\ face \in 1 .. NumFaces + 1
  /\ scan \in [total : Nat, ok : Nat, dup : Nat, dupAt : Nat \ {0}]
  /\ r \in {"ok", "err", "dup", "oom", "cancel"}
  /\ result \in {"none", "ok", "cancel"}
  /\ loaded \in Seq(Entry)
  /\ cap \in Nat
  /\ walkCap \in Nat
  /\ count \in [loaded : Int, failed : Int, unmatched : Int]
  /\ cursor \in Nat \ {0}
  /\ cancelled \in BOOLEAN
  /\ ours \in [Files -> Nat]
  /\ others \in SUBSET Files
  /\ late \in BOOLEAN

\* The records the unload has still to visit are the registrations this
\* process holds: a file is registered exactly while one record says so, never
\* twice, through allocation failures, cancellation and sorting.  It is what
\* lets fl_unload_fonts give back everything and nothing else.
RegisteredIffRecorded ==
  \A f \in Files :
    ours[f] = IF \E i \in DOMAIN loaded :
                   i >= cursor /\ Registered(loaded[i]) /\ loaded[i].file = f
                THEN 1 ELSE 0

\* Two files of the same content are never registered together: the pointer
\* check and the hash check of fl_load_file between them catch every copy,
\* whatever face asked for it.
NoContentTwice ==
  \A f, g \in Files : ours[f] > 0 /\ ours[g] > 0 /\ Digest[f] = Digest[g] => f = g

\* The counters the windows and the JSON events show are the numbers of records
\* of each kind, at every moment of loading and unloading; in particular
\* num_font_loaded-- of the unload never wraps.
CountersMatch ==
  LET Number(Test(_)) == Cardinality(IndicesOf(Test))
  IN  /\ count.loaded = Cardinality({i \in IndicesOf(Registered) : i >= cursor})
      /\ count.failed = Number(LAMBDA e : e.base = "err" /\ ~e.dup)
      /\ count.unmatched = Number(LAMBDA e : e.base = "miss")

\* A record for every face the subtitles ask for: installed, loaded, failed,
\* missing, or a duplicate of something loaded for another face.
EveryFaceReported ==
  pc = "done" /\ result = "ok" /\ r # "oom" => \A fc \in Faces : FaceLoaded(fc)

\* A duplicate comes after the record it duplicates, and that record has a
\* registration (or a failure) of its own.
DupFollowsPrimary ==
  pc = "done" /\ result = "ok" =>
    \A i \in DOMAIN loaded : loaded[i].dup =>
      \E j \in 1 .. i - 1 : /\ Primary(loaded[j])
                            /\ loaded[j].file = loaded[i].file
                            /\ loaded[j].base = loaded[i].base

\* The list a load leaves, which windows, events and the exporter read top down:
\* without an allocation failure it says of every face what became of it, and a
\* file that several faces share is found at its primary record first.
ListRight == EveryFaceReported /\ DupFollowsPrimary

\* After fl_cancel at most one more file is registered, the one whose check
\* had already passed; this also holds across later loads.
StopsSoon ==
  [][late => \A f \in Files : ours'[f] <= ours[f]]_vars

\* The session of fl_load_fonts and fl_unload_fonts keeps the promise FontLease
\* states, with the registered files for held.
Phase ==
  IF pc = "idle" THEN "idle"
  ELSE IF pc = "done" THEN "loaded"
  ELSE IF pc = "unload" THEN "releasing" ELSE "loading"

Held == {f \in Files : ours[f] > 0}

Lease == INSTANCE FontLease WITH
  phase <- Phase, held <- Held, stop <- cancelled, late <- late

LeaseSpec == Lease!LSpec

\* A load or an unload that was begun returns, whatever fails and whoever
\* cancels on the way.
CallsReturn == pc \notin {"idle", "done"} ~> pc \in {"idle", "done"}
=============================================================================
