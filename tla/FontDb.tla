------------------------------- MODULE FontDb -------------------------------
(***************************************************************************)
(* The font database of font_set.c: one block of lines for each font file, *)
(* written while ttf_parser.c reads the file's name tables, and the index  *)
(* that is built from the lines.  The index is rebuilt from the same lines *)
(* when they come back from the cache file.                                *)
(*                                                                         *)
(*    name of the file                                                     *)
(*    \tt:format                                                           *)
(*    \tv:version       \  for each font of the file                       *)
(*    face ... face     /                                                  *)
(*    (empty line)                                                         *)
(*                                                                         *)
(* A line is a record of its tag and its text; a font is the list of its   *)
(* name records, or why the parser refuses it.                             *)
(***************************************************************************)
EXTENDS Integers, Sequences, SequencesExt

English == 1033

\* The text of an empty line, and the tag of a line without one.
Empty == ""

Line(tag, text) == [tag |-> tag, text |-> text]
EndLine == Line(Empty, Empty)

NoSet == [db |-> << >>, files |-> 0, faces |-> 0]

(***************************************************************************)
(* ttf_parser.c                                                            *)
(***************************************************************************)
\* What the parser finds in a file: the records of each name table of each font,
\* in the order of the file, or why it refuses the font.  A font should have one
\* name table, but all are read.  The text of a record ends at its first NUL, so
\* it may be empty though the record has cch characters.
NameRecords == [platform : Nat, id : Nat, lang : Nat, cch : Nat, text : STRING]
FontTables == [form : {"ok", "unrecognized", "corrupted"}, tables : Seq(Seq(NameRecords))]
FontFiles == [kind : {"ttc", "otf", "ttf"}, fonts : Seq(FontTables)]

\* A parse in progress: FS_ParseCtx, the lines and the result.  The positions
\* pos_ver and pos_face are the numbers of lines before them; the buffer of the
\* lines holds at most room of them.
Parse(room, db) ==
  [db |-> db, room |-> room, ver |-> Len(db), face |-> Len(db), lang |-> 0,
   count |-> 0, r |-> "ok"]

\* A version replaces what was written of the font so far.
PutVersion(p, text, lang) ==
  LET head == SubSeq(p.db, 1, p.ver)           \* str_db_seek to pos_ver
  IN  IF Len(head) >= p.room THEN [p EXCEPT !.db = head, !.r = "oom"]
      ELSE [p EXCEPT !.db = Append(head, Line("ver", text)),
                     !.lang = lang, !.face = Len(head) + 1]

\* Mutant of PutFace: a face taken back is counted.
MutPutFace(p, text) ==
  LET face == Line(Empty, text)
  IN  IF Len(p.db) >= p.room THEN [p EXCEPT !.r = "oom"]
      ELSE IF \E i \in p.face + 1 .. Len(p.db) : p.db[i] = face
        THEN [p EXCEPT !.count = @ + 1]
      ELSE [p EXCEPT !.db = Append(@, face), !.count = @ + 1]

\* A face is pushed, and taken back when the font has given it before.
PutFace(p, text) ==
  LET face == Line(Empty, text)
  IN  IF Len(p.db) >= p.room THEN [p EXCEPT !.r = "oom"]
      ELSE IF \E i \in p.face + 1 .. Len(p.db) : p.db[i] = face THEN p
      ELSE [p EXCEPT !.db = Append(@, face), !.count = @ + 1]

\* Mutant of NameRecord: the first version stays, English or not.
MutNameRecord(p, rec) ==
  IF p.r # "ok" \/ rec.cch = 0 THEN p
  ELSE IF rec.id # 5 THEN PutFace(p, rec.text)
  ELSE IF p.lang = 0 THEN PutVersion(p, rec.text, rec.lang)
  ELSE p

\* fs_parser_name_cb: the English version, or else the first one, and the faces.
NameRecord(p, rec) ==
  IF p.r # "ok" \/ rec.cch = 0 THEN p
  ELSE IF rec.id # 5 THEN PutFace(p, rec.text)
  ELSE IF p.lang = 0 \/ rec.lang = English THEN PutVersion(p, rec.text, rec.lang)
  ELSE p

\* otf_parse_table_name: of the Windows records, the versions, then the names.
VersionRecord(p, rec) ==
  IF rec.platform = 3 /\ rec.id = 5 THEN NameRecord(p, rec) ELSE p

FaceRecord(p, rec) ==
  IF rec.platform = 3 /\ rec.id \in {1, 4, 6} THEN NameRecord(p, rec) ELSE p

\* A new font_id moves pos_ver and pos_face to the end of the lines.
NewFont(p) == [p EXCEPT !.ver = Len(p.db), !.face = Len(p.db), !.lang = 0]

NameTable(p, names) ==
  FoldLeft(FaceRecord, FoldLeft(VersionRecord, p, names), names)

\* otf_parse_internal for one font: each of its name tables in turn.  A version
\* in a later one takes back faces that stay counted.
OtfParse(p, font) ==
  IF font.form # "ok" THEN [p EXCEPT !.r = font.form]
  ELSE FoldLeft(NameTable, NewFont(p), font.tables)

\* ttc_parse and otf_parse: neither touches the lines of a file of the other kind.
NextFont(p, font) == IF p.r = "ok" THEN OtfParse(p, font) ELSE p

TtcParse(p, file) ==
  IF file.kind # "ttc" THEN [p EXCEPT !.r = "unrecognized"]
  ELSE FoldLeft(NextFont, p, file.fonts)

OtfFile(p, file) ==
  IF file.kind = "ttc" THEN [p EXCEPT !.r = "unrecognized"]
  ELSE OtfParse(p, file.fonts[1])

(***************************************************************************)
(* fs_add_font                                                             *)
(***************************************************************************)
Block(db, name, format) == db \o <<Line(Empty, name), Line("fmt", format)>>

Good(p) == p.r = "ok" /\ p.count > 0

\* First as a collection, then as a single font.  A file without a face, or
\* that cannot be parsed or recorded whole, keeps its name and an error line;
\* if not even these fit, nothing of it is kept.
AddFont(room, s, name, file) ==
  LET format == IF file.kind = "otf" THEN "otf" ELSE "ttf"
      ttc == TtcParse(Parse(room, Block(s.db, name, "ttc")), file)
      otf == OtfFile(Parse(room, Block(s.db, name, format)), file)
      got == IF Good(ttc) THEN ttc ELSE otf
      error == Block(s.db, name, IF Good(ttc) THEN "ttc" ELSE format)
                 \o <<Line("err", Empty), EndLine>>
  IN  IF room < Len(s.db) + 2 THEN s
      ELSE IF Good(got) /\ Len(got.db) < room
        THEN [db |-> Append(got.db, EndLine),
              files |-> s.files + 1, faces |-> s.faces + got.count]
      ELSE IF Len(error) <= room
        THEN [s EXCEPT !.db = error, !.files = @ + 1]
      ELSE s

\* The room was enough for what the parser gave.
Roomy(room, s, name, file) ==
  LET start == Parse(room, Block(s.db, name, file.kind))
      p == IF file.kind = "ttc" THEN TtcParse(start, file) ELSE OtfFile(start, file)
  IN  p.r # "oom" /\ (Good(p) => Len(p.db) < room)

(***************************************************************************)
(* fs_build_index, fs_has_file                                             *)
(***************************************************************************)
NoIdx == [file |-> Empty, format |-> Empty, ver |-> Empty]

NothingRead ==
  [last |-> NoIdx, named |-> FALSE, files |-> 0, names |-> {}, index |-> << >>]

\* One line of the loop; version and format stay until the next empty line.
ReadLine(b, line) ==
  CASE line = EndLine -> [b EXCEPT !.last = NoIdx, !.named = FALSE]
    [] line.tag = "ver" -> [b EXCEPT !.last.ver = line.text]
    [] line.tag = "fmt" -> [b EXCEPT !.last.format = line.text]
    [] line.tag = "err" -> b
    [] line.tag = Empty /\ line # EndLine ->
         IF b.named THEN [b EXCEPT !.index = Append(@, <<line.text, b.last>>)]
         ELSE [b EXCEPT !.last.file = line.text, !.named = TRUE, !.files = @ + 1,
                        !.names = @ \cup {line.text}]

ReadLines(db) == FoldLeft(ReadLine, NothingRead, db)

\* The lines have as many faces and files as were counted while they were written.
Counted(s) ==
  Len(ReadLines(s.db).index) = s.faces /\ ReadLines(s.db).files = s.files

\* The counts must match, unless no face was counted; the order in which
\* tim_sort puts the entries is FontQuery's.
Builds(s) == s.faces = 0 \/ Counted(s)

\* fs_has_file tells the names of files from the other lines as fs_build_index does.
FileNames(s) == ReadLines(s.db).names

HasFile(s, name) == name \in FileNames(s)

(***************************************************************************)
(* What the index of a directory should be, said without the lines.        *)
(***************************************************************************)
Join(s, t) == s \o t
Records(font) == FoldLeft(Join, << >>, font.tables)

IsVersion(rec) == rec.platform = 3 /\ rec.id = 5 /\ rec.cch # 0
IsFace(rec) == rec.platform = 3 /\ rec.id \in {1, 4, 6} /\ rec.cch # 0

\* The version of a font: its last English record; if there is none, the first
\* one that says its language; if none does, the last one.
OwnVersion(names) ==
  LET vers == {i \in DOMAIN names : IsVersion(names[i])}
      english == {i \in vers : names[i].lang = English}
      foreign == {i \in vers : names[i].lang # 0}
  IN  IF english # {} THEN names[Max(english)].text
      ELSE IF foreign # {} THEN names[Min(foreign)].text
      ELSE IF vers # {} THEN names[Max(vers)].text ELSE Empty

OwnFaces(names) ==
  {names[i].text : i \in {j \in DOMAIN names : IsFace(names[j])}} \ {Empty}

\* A file of which every face that is counted stays in the lines and is read as
\* one: no name that has characters begins with NUL, and no name table of a font
\* but its first gives a version.
Regular(file) ==
  \A i \in DOMAIN file.fonts :
    LET tables == file.fonts[i].tables
    IN  \A k \in DOMAIN tables : \A j \in DOMAIN tables[k] :
          /\ tables[k][j].cch # 0 => tables[k][j].text # Empty
          /\ k > 1 => ~IsVersion(tables[k][j])

\* A file is indexed when all of its fonts can be read and it names a face.
Readable(file) ==
  /\ \A i \in DOMAIN file.fonts : file.fonts[i].form = "ok"
  /\ \E i \in DOMAIN file.fonts : OwnFaces(Records(file.fonts[i])) # {}

\* The entries due for a file: its fonts' faces.
Due(file) ==
  IF ~Readable(file) THEN {}
  ELSE UNION {{<<i, f>> : f \in OwnFaces(Records(file.fonts[i]))} : i \in DOMAIN file.fonts}
=============================================================================
