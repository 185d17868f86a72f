------------------------------ MODULE FontCache ------------------------------
(***************************************************************************)
(* The cache file fc-subs.db next to a font directory that the user        *)
(* changes: fl_scan_fonts from the cache and, when that gives no face,     *)
(* from the font files, then fl_save_cache (AppWorker in main.c,           *)
(* run_loader in main_mac.c).  The program may end at any step.            *)
(*                                                                         *)
(* Names of files that differ only in case are one name here, as they are  *)
(* on the volumes the program is used on.                                  *)
(***************************************************************************)
EXTENDS FontDb, FiniteSets

CONSTANTS
  NoFile,       \* no file of that name
  Names,        \* names font files may have
  Fonts,        \* contents they may have
  Content,      \* what the parser reads in each content
  Rooms,        \* lines the database may still grow by while a file is added
  Unassigned,   \* counts the memory of a new set may hold
  MaxEdits,     \* bound on the changes to the directory
  MaxStarts     \* bound on the starts of the program

\* The allocator of the Windows program clears the memory it gives.  That of the
\* macOS helper does not, and the counts of the set freed last may be in it.
Zero == [files |-> 0, faces |-> 0]

\* The database had no room to record the content: only the file is known.
Lost == "lost"

ASSUME CacheAssumption ==
  /\ IsFiniteSet(Names) /\ Empty \notin Names
  /\ NoFile \notin Fonts \cup {Lost} /\ Lost \notin Fonts
  /\ \A f \in Fonts : /\ Content[f] \in FontFiles
                      /\ Content[f].kind # "ttc" => Len(Content[f].fonts) = 1
  /\ Rooms \subseteq Nat
  /\ Unassigned \subseteq [files : Nat, faces : Nat] /\ Unassigned # {}
  /\ MaxEdits \in Nat /\ MaxStarts \in Nat

VARIABLES
  dir,          \* the font directory
  file,         \* fc-subs.db; src, began and done in it are history
  pc,           \* where the program is; "off": not running
  set,          \* c->font_set
  r,            \* result of fl_scan_fonts; the set is NULL unless it is "ok"
  todo,         \* files of the walk that were there when it began
  visited,      \* files the walk has called back for
  src,          \* history: what the lines of set were written from
  began,        \* history: the counts it had then
  calm,         \* history: no change and no fault since the walk began
  edits, starts

walk == <<todo, visited>>
origin == <<src, began>>
bounds == <<edits, starts>>
vars == <<dir, file, pc, set, r, walk, origin, calm, bounds>>

Present == {n \in Names : dir[n] # NoFile}
Nothing == [n \in Names |-> NoFile]

BeginWalk == todo' = Present /\ visited' = {}
EndWalk == todo' = {} /\ visited' = {}

Init ==
  /\ dir \in [Names -> Fonts \cup {NoFile}]
  /\ file = NoFile
  /\ pc = "off"
  /\ set = NoSet /\ r = "none" /\ src = Nothing /\ began = Zero
  /\ todo = {} /\ visited = {}
  /\ calm = TRUE
  /\ edits = 0 /\ starts = 0

(***************************************************************************)
(* The user                                                                *)
(***************************************************************************)
\* A font file is added, replaced or removed.
Edit(n) ==
  /\ edits < MaxEdits
  /\ edits' = edits + 1
  /\ \E f \in (Fonts \cup {NoFile}) \ {dir[n]} : dir' = [dir EXCEPT ![n] = f]
  /\ calm' = FALSE
  /\ UNCHANGED <<file, pc, set, r, walk, origin, starts>>

\* rebuildIndex of the macOS interface deletes the cache file.
DeleteCache ==
  /\ file # NoFile
  /\ pc \in {"off", "ready"}
  /\ file' = NoFile
  /\ UNCHANGED <<dir, pc, set, r, walk, origin, calm, bounds>>

Start ==
  /\ pc = "off"
  /\ starts < MaxStarts
  /\ starts' = starts + 1
  /\ pc' = "load"
  /\ UNCHANGED <<dir, file, set, r, walk, origin, calm, edits>>

Ends ==
  /\ pc' = "off"
  /\ set' = NoSet /\ r' = "none" /\ src' = Nothing /\ began' = Zero
  /\ EndWalk
  /\ UNCHANGED <<dir, file, calm, bounds>>

\* The program is closed, or killed wherever it is.
Stop == pc # "off" /\ Ends

\* fs_create leaves the pointers index and map of the set unassigned too.  Where
\* the memory was not cleared, fs_build_index reallocates the one and fs_free
\* unmaps the other, unless the cache gave it: both work, or end the program.
WildPointer ==
  /\ Unassigned # {Zero}
  /\ pc \in {"reindex", "index", "walk"} \/ (pc = "scan" /\ r = "ok")
  /\ Ends

(***************************************************************************)
(* fl_scan_fonts with the cache                                            *)
(***************************************************************************)
\* fl_scan_fonts failed: the set is freed.
Fail(why, next) ==
  /\ set' = NoSet /\ r' = why /\ src' = Nothing /\ began' = Zero
  /\ EndWalk
  /\ pc' = next

\* fs_cache_load: the header's size is the file's.
Whole == file # NoFile /\ file.len = file.size

\* The path, the file or the memory for the set may fail the load.
LoadCache ==
  /\ pc = "load"
  /\ \/ /\ Whole
        /\ set' = [db |-> SubSeq(file.db, 1, file.len - 1),
                   files |-> file.files, faces |-> file.faces]
        /\ src' = file.src /\ began' = file.began
        /\ r' = "ok"
        /\ BeginWalk
        /\ calm' = TRUE
        /\ pc' = "check"
     \/ ~Whole /\ calm' = TRUE /\ Fail("unrecognized", "scan")
     \/ calm' = FALSE /\ Fail("error", "scan")
  /\ UNCHANGED <<dir, file, bounds>>

\* The walk calls back for each file in some order.  A file that appears while
\* it goes on may be seen or not.
Visit(n) ==
  /\ n \in Present \ visited
  /\ visited' = visited \cup {n}
  /\ UNCHANGED todo

WalkOver == todo \cap Present \subseteq visited

\* fl_validate_cache_font_callback
CheckFile(n) ==
  /\ pc = "check"
  /\ \/ /\ HasFile(set, n)
        /\ Visit(n)
        /\ UNCHANGED <<pc, set, r, origin>>
     \/ /\ ~HasFile(set, n)
        /\ n \in Present \ visited
        /\ Fail("unrecognized", "scan")
  /\ UNCHANGED <<dir, file, calm, bounds>>

\* Mutant of CheckEnds: the number of files is not compared.
MutCheckEnds ==
  /\ pc = "check"
  /\ WalkOver \/ visited = {}
  /\ calm' = (calm /\ WalkOver)
  /\ pc' = "reindex" /\ EndWalk
  /\ UNCHANGED <<dir, file, set, r, origin, bounds>>

\* fl_cache_matches_font_dir.  A directory that cannot be opened has no files.
CheckEnds ==
  /\ pc = "check"
  /\ WalkOver \/ visited = {}
  /\ calm' = (calm /\ WalkOver)
  /\ IF Cardinality(visited) = set.files
       THEN pc' = "reindex" /\ EndWalk /\ UNCHANGED <<set, r, origin>>
       ELSE Fail("unrecognized", "scan")
  /\ UNCHANGED <<dir, file, bounds>>

(***************************************************************************)
(* fl_scan_fonts without the cache                                         *)
(***************************************************************************)
\* Mutant of BeginScan: the scan appends to the set that is there.
MutBeginScan ==
  /\ pc = "scan"
  /\ r' = "ok"
  /\ BeginWalk
  /\ calm' = TRUE
  /\ pc' = "walk"
  /\ UNCHANGED <<dir, file, set, origin, bounds>>

\* The set is a new one, of which fs_create does not assign the counts; the path
\* or the memory for it may fail.
BeginScan ==
  /\ pc = "scan"
  /\ \/ /\ began' \in Unassigned
        /\ set' = [db |-> << >>, files |-> began'.files, faces |-> began'.faces]
        /\ r' = "ok" /\ src' = Nothing
        /\ BeginWalk
        /\ calm' = TRUE
        /\ pc' = "walk"
     \/ calm' = FALSE /\ Fail("error", "ready")
  /\ UNCHANGED <<dir, file, bounds>>

\* fl_walk_font_callback, whose fs_add_font may run out of memory.
ScanFile(n) ==
  /\ pc = "walk"
  /\ Visit(n)
  /\ \E k \in Rooms :
       LET font == Content[dir[n]]
           room == Len(set.db) + k
       IN  /\ set' = AddFont(room, set, n, font)
           /\ src' = [src EXCEPT ![n] = IF set' = set THEN NoFile
                                        ELSE IF Roomy(room, set, n, font) THEN dir[n]
                                        ELSE Lost]
           /\ calm' = (calm /\ src'[n] = dir[n])
  /\ UNCHANGED <<dir, file, pc, r, began, bounds>>

\* FlMemMap gives nothing: the file is passed over.
SkipFile(n) ==
  /\ pc = "walk"
  /\ Visit(n)
  /\ calm' = FALSE
  /\ UNCHANGED <<dir, file, pc, set, r, origin, bounds>>

ScanEnds ==
  /\ pc = "walk"
  /\ WalkOver \/ visited = {}
  /\ calm' = (calm /\ WalkOver)
  /\ pc' = "index" /\ EndWalk
  /\ UNCHANGED <<dir, file, set, r, origin, bounds>>

\* fl_check_cancel, asked before each file of a scan, or no memory for a path.
WalkFails ==
  /\ \/ pc = "walk" /\ \E why \in {"cancelled", "oom"} : Fail(why, "ready")
     \/ pc = "check" /\ Fail("unrecognized", "scan")
  /\ calm' = FALSE
  /\ UNCHANGED <<dir, file, bounds>>

(***************************************************************************)
(* fs_build_index and what the caller does next                            *)
(***************************************************************************)
\* No memory for the index, or lines that do not match the counts.
BuildFails == Fail("oom", IF pc = "reindex" THEN "scan" ELSE "ready")

\* A cache without a face is no better than none; a scan is saved.
Index ==
  /\ pc \in {"reindex", "index"}
  /\ \/ /\ Builds(set)
        /\ pc' = IF pc = "index" THEN "save"
                 ELSE IF set.faces = 0 THEN "scan" ELSE "ready"
        /\ UNCHANGED <<set, r, origin, walk, calm>>
     \/ ~Builds(set) /\ BuildFails /\ UNCHANGED calm
     \/ BuildFails /\ calm' = FALSE
  /\ UNCHANGED <<dir, file, bounds>>

(***************************************************************************)
(* fs_cache_dump                                                           *)
(***************************************************************************)
\* Mutant of Dump: the size in the header is the body's alone.
MutDump(len) ==
  [files |-> set.files, faces |-> set.faces, db |-> set.db,
   size |-> Len(set.db), len |-> len, src |-> src,
   began |-> began, done |-> len = 1 + Len(set.db)]

\* The header, which says how long the whole file is, and the lines.  Of a file
\* that is not written to its end only some length is on the disk.
Dump(len) ==
  [files |-> set.files, faces |-> set.faces, db |-> set.db,
   size |-> 1 + Len(set.db), len |-> len, src |-> src,
   began |-> began, done |-> len = 1 + Len(set.db)]

\* The old file is truncated first.
OpenCache ==
  /\ pc = "save"
  /\ \/ \E len \in {0, Len(set.db)} : file' = Dump(len) /\ pc' = "saving"
     \/ UNCHANGED file /\ pc' = "ready"
  /\ UNCHANGED <<dir, set, r, walk, origin, calm, bounds>>

\* An empty cache is removed; a full disk leaves the file as it is.
WriteCache ==
  /\ pc = "saving"
  /\ \/ file' = IF set.files = 0 THEN NoFile ELSE Dump(1 + Len(set.db))
     \/ UNCHANGED file
  /\ pc' = "ready"
  /\ UNCHANGED <<dir, set, r, walk, origin, calm, bounds>>

\* APP_UNLOAD_FONT: Retry scans again, never from the cache.
Retry ==
  /\ pc = "ready"
  /\ pc' = "scan"
  /\ UNCHANGED <<dir, file, set, r, walk, origin, calm, bounds>>

Program ==
  \/ LoadCache \/ CheckEnds \/ BeginScan \/ ScanEnds \/ WalkFails
  \/ Index \/ OpenCache \/ WriteCache
  \/ \E n \in Names : CheckFile(n) \/ ScanFile(n) \/ SkipFile(n)

Next ==
  \/ Program \/ WildPointer
  \/ Start \/ Retry \/ Stop \/ DeleteCache \/ \E n \in Names : Edit(n)

Spec == Init /\ [][Next]_vars

-----------------------------------------------------------------------------
Sources == [Names -> Fonts \cup {NoFile, Lost}]

TypeOK ==
  /\ dir \in [Names -> Fonts \cup {NoFile}]
  /\ file # NoFile => file.len \in 0 .. 1 + Len(file.db) /\ file.src \in Sources
  /\ pc \in {"off", "load", "check", "reindex", "scan", "walk", "index",
             "save", "saving", "ready"}
  /\ began \in Unassigned \cup {Zero}
  /\ set.files \in began.files .. began.files + Cardinality(Names)
  /\ set.faces \in Nat /\ set.faces >= began.faces
  /\ r \in {"none", "ok", "unrecognized", "error", "oom", "cancelled"}
  /\ todo \subseteq Names /\ visited \subseteq Names
  /\ src \in Sources
  /\ calm \in BOOLEAN

SrcNames(s) == {n \in Names : s[n] # NoFile}

\* The entries due for what the lines were written from, and an index that has
\* each of them and no other.
DueOf(s) == UNION {{n} \X Due(Content[s[n]]) : n \in {m \in Names : s[m] \in Fonts}}

IsEntry(e, w, s) ==
  LET content == Content[s[w[1]]]
      own == OwnVersion(Records(content.fonts[w[2][1]]))
  IN  /\ e[1] = w[2][2]
      /\ e[2].file = w[1] /\ e[2].format = content.kind
      /\ own # Empty => e[2].ver = own

Exact(index, s) ==
  /\ Len(index) = Cardinality(DueOf(s))
  /\ \A w \in DueOf(s) : \E i \in DOMAIN index : IsEntry(index[i], w, s)

\* "for checking only" (font_set.c:298): the lines have the faces and files that
\* were counted while they were written and taken back, or the whole index is
\* refused and no font can be loaded.  A cache that has faces is never refused so.
\* A scan is not if its counts began with zero and every file it recorded is
\* Regular, whatever did not fit, could not be parsed or was given twice.
LinesCounted ==
  /\ pc = "reindex" /\ set.faces # 0 => Counted(set)
  /\ pc = "index" /\ began = Zero
       /\ (\A n \in Names : src[n] \in Fonts => Regular(Content[src[n]])) => Counted(set)

\* The index is right whichever way it came about, past torn files, rollbacks,
\* counts that began as anything and lines read back: it has one entry for each
\* face of each font of the files the database was written from, with the file,
\* the format and the font's own version, if it has one, and no other.
IndexExact ==
  pc = "ready" /\ r = "ok" => Exact(ReadLines(set.db).index, src)

\* "stale cache was accepted": if nothing changed or failed since it began,
\* a start ends with the files that are in the directory, whether the cache
\* was accepted or the files were read; every other cache is given up.
NamesFresh == pc = "ready" /\ r = "ok" /\ calm => FileNames(set) = Present

\* The cache does its work: a start that meets no change and no fault gives it
\* up only if there is none, it is torn, it has no face, or it was made of other
\* files.
NoNeedlessScan ==
  [][pc' = "scan" /\ pc \in {"load", "check"} /\ calm'
       => \/ file = NoFile \/ ~file.done \/ file.faces = 0
          \/ SrcNames(file.src) # Present]_vars
=============================================================================
