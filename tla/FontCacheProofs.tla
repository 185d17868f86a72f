-------------------------- MODULE FontCacheProofs --------------------------
(***************************************************************************)
(* Proofs about FontDb and FontCache, for every directory, every content   *)
(* of the font files, and whatever fails or changes at any moment.         *)
(***************************************************************************)
EXTENDS FontCache, SequenceTheorems, FiniteSetTheorems, TLAPS

Versions == INSTANCE FoldFacts WITH Op <- VersionRecord
FaceNames == INSTANCE FoldFacts WITH Op <- FaceRecord
NameTables == INSTANCE FoldFacts WITH Op <- NameTable
Joining == INSTANCE FoldFacts WITH Op <- Join
Collections == INSTANCE FoldFacts WITH Op <- NextFont
Reading == INSTANCE FoldFacts WITH Op <- ReadLine

Formats == {"ttc", "otf", "ttf"}
Texts == Names \cup STRING \cup Formats \cup {Empty}
Lines == [tag : {Empty, "ver", "fmt", "err"}, text : Texts]

\* The provers meet the empty string here and nowhere else.
LEMMA TagsDiffer == "ver" # Empty /\ "fmt" # Empty /\ "err" # Empty
BY Zenon DEF Empty

-----------------------------------------------------------------------------
(***************************************************************************)
(* How fs_build_index and fs_has_file read the lines.                      *)
(***************************************************************************)
Lasts == [file : Texts, format : Texts, ver : Texts]
Reads == [last : Lasts, named : BOOLEAN, files : Nat, names : SUBSET Texts,
          index : Seq(Texts \X Lasts)]

\* What one line changes.
LEMMA LineRead ==
  ASSUME NEW b \in Reads, NEW l \in Lines
  PROVE  LET c == ReadLine(b, l)
             same == c.files = b.files /\ c.names = b.names
         IN  /\ c \in Reads
             /\ l = EndLine => same /\ c.named = FALSE /\ Len(c.index) = Len(b.index)
             /\ l.tag # Empty => same /\ c.named = b.named /\ Len(c.index) = Len(b.index)
             /\ l.tag = Empty /\ l # EndLine /\ b.named = TRUE =>
                  same /\ c.named = TRUE /\ Len(c.index) = Len(b.index) + 1
             /\ l.tag = Empty /\ l # EndLine /\ b.named = FALSE =>
                  /\ c.files = b.files + 1 /\ c.names = b.names \cup {l.text}
                  /\ c.named = TRUE /\ Len(c.index) = Len(b.index)
<1> DEFINE entry == <<l.text, b.last>>
           index == Append(b.index, entry)
           names == b.names \cup {l.text}
           files == b.files + 1
<1>1. /\ l.text \in Texts /\ l.tag \in {Empty, "ver", "fmt", "err"}
      /\ b.last \in Lasts /\ NoIdx \in Lasts
  BY DEF Lines, Reads, Lasts, NoIdx, Texts
<1>2. index \in Seq(Texts \X Lasts) /\ Len(index) = Len(b.index) + 1
  <2>1. b.index \in Seq(Texts \X Lasts) /\ entry \in Texts \X Lasts
    BY <1>1 DEF Reads
  <2>. HIDE DEF entry
  <2>. QED  BY <2>1
<1>3. names \in SUBSET Texts /\ files \in Nat
  BY <1>1 DEF Reads
<1>4. EndLine.tag = Empty
  BY DEF EndLine, Line
<1>5. CASE l = EndLine
  <2>1. ReadLine(b, l) = [b EXCEPT !.last = NoIdx, !.named = FALSE]
    BY <1>4, <1>5, TagsDiffer DEF ReadLine
  <2>. QED  BY <1>1, <1>4, <1>5, <2>1 DEF Reads
<1>6. CASE l.tag # Empty
  <2>1. l # EndLine
    BY <1>4, <1>6
  <2>2. \/ ReadLine(b, l) = [b EXCEPT !.last.ver = l.text]
        \/ ReadLine(b, l) = [b EXCEPT !.last.format = l.text]
        \/ ReadLine(b, l) = b
    BY <1>1, <1>6, <2>1 DEF ReadLine
  <2>. QED  BY <1>1, <1>6, <2>1, <2>2 DEF Reads, Lasts
<1>7. CASE l.tag = Empty /\ l # EndLine /\ b.named = TRUE
  <2>1. ReadLine(b, l) = [b EXCEPT !.index = index]
    BY <1>7, TagsDiffer DEF ReadLine
  <2>. HIDE DEF index
  <2>. QED  BY <1>1, <1>2, <1>7, <2>1 DEF Reads
<1>8. CASE l.tag = Empty /\ l # EndLine /\ b.named = FALSE
  <2>1. ReadLine(b, l) = [b EXCEPT !.last.file = l.text, !.named = TRUE, !.files = files,
                                   !.names = names]
    BY <1>8, TagsDiffer DEF ReadLine
  <2> DEFINE last == [b.last EXCEPT !.file = l.text]
  <2>2. last \in Lasts
    BY <1>1 DEF Lasts
  <2>3. ReadLine(b, l) = [b EXCEPT !.last = last, !.named = TRUE, !.files = files,
                                   !.names = names]
    BY <2>1
  <2>4. /\ files = b.files + 1 /\ names = b.names \cup {l.text}
    OBVIOUS
  <2>. HIDE DEF last, files, names
  <2>. QED  BY <1>3, <1>8, <2>2, <2>3, <2>4 DEF Reads
<1>9. b.named = TRUE \/ b.named = FALSE
  BY DEF Reads
<1>. QED  BY <1>5, <1>6, <1>7, <1>8, <1>9

LEMMA LinesRead ==
  ASSUME NEW d \in Seq(Lines)
  PROVE  /\ ReadLines(d) \in Reads
         /\ \A l \in Lines : ReadLines(Append(d, l)) = ReadLine(ReadLines(d), l)
<1>1. \A base, s : FoldLeft(ReadLine, base, s) = Reading!Fold(base, s)
  BY DEF Reading!Fold, FoldLeft, Reading!FoldLeft, MapThenFoldSet,
         Reading!MapThenFoldSet, Max, Reading!Max
<1>2. NothingRead \in Reads
  BY DEF NothingRead, NoIdx, Reads, Lasts, Texts
<1>3. \A b \in Reads, l \in Lines : ReadLine(b, l) \in Reads
  BY LineRead
<1>4. \A s \in Seq(Lines) : Reading!Fold(NothingRead, s) \in Reads
  BY <1>2, <1>3, Reading!FoldKeeps
<1>5. \A l \in Lines :
        Reading!Fold(NothingRead, Append(d, l)) = ReadLine(Reading!Fold(NothingRead, d), l)
  BY Reading!FoldAppend
<1>. QED  BY <1>1, <1>4, <1>5 DEF ReadLines

LEMMA NothingIsRead ==
  /\ ReadLines(<< >>).named = FALSE /\ ReadLines(<< >>).files = 0
  /\ ReadLines(<< >>).names = {} /\ Len(ReadLines(<< >>).index) = 0
<1>1. FoldLeft(ReadLine, NothingRead, << >>) = Reading!Fold(NothingRead, << >>)
  BY DEF Reading!Fold, FoldLeft, Reading!FoldLeft, MapThenFoldSet,
         Reading!MapThenFoldSet, Max, Reading!Max
<1>2. ReadLines(<< >>) = NothingRead
  BY <1>1, Reading!FoldEmpty DEF ReadLines
<1>. QED  BY <1>2 DEF NothingRead

-----------------------------------------------------------------------------
(***************************************************************************)
(* The parser of a font file: whatever the file holds, and whatever is     *)
(* taken back or does not fit, the lines after those that were there name  *)
(* one file and have as many faces as were counted, unless a name that is  *)
(* empty broke the block or a version took faces back: then they have      *)
(* fewer.                                                                  *)
(***************************************************************************)
\* What a block is added to: whether the lines before it are sound, whether the
\* file may be one that is not Regular, and the counts with it.
Bases == [ok : BOOLEAN, may : BOOLEAN, files : Nat, names : SUBSET Texts, faces : Nat]

\* Lines in which c faces were counted since.
Fits(g, d, c) ==
  \/ /\ g.ok = TRUE
     /\ ReadLines(d).named = TRUE /\ ReadLines(d).files = g.files
     /\ ReadLines(d).names = g.names /\ Len(ReadLines(d).index) = g.faces + c
  \/ g.may = TRUE /\ Len(ReadLines(d).index) < g.faces + c

InParse == [db : Seq(Lines), room : Nat, ver : Nat, face : Nat, lang : Nat,
            count : Nat, r : {"ok", "oom", "unrecognized", "corrupted"}]

Parses(g) == {p \in InParse : Fits(g, p.db, p.count)}

\* The lines before the version fit too: a version may take back what is after.
Versioning(g) ==
  {p \in Parses(g) : p.ver <= Len(p.db) /\ Fits(g, SubSeq(p.db, 1, p.ver), p.count)}

\* The fonts a file may have: only the first name table may give versions.
RecordsFor(g) == {rec \in NameRecords : rec.cch # 0 /\ rec.text = Empty => g.may = TRUE}
Unversioned(g) == {rec \in RecordsFor(g) : ~IsVersion(rec)}
FontsFor(g) ==
  {font \in [form : {"ok", "unrecognized", "corrupted"}, tables : Seq(Seq(RecordsFor(g)))] :
     g.may = TRUE \/ \A k \in DOMAIN font.tables :
                         k > 1 => font.tables[k] \in Seq(Unversioned(g))}

\* A line with a tag counts for nothing.
LEMMA TagFits ==
  ASSUME NEW g \in Bases, NEW d \in Seq(Lines), NEW l \in Lines, l.tag # Empty,
         NEW c \in Nat, Fits(g, d, c)
  PROVE  Append(d, l) \in Seq(Lines) /\ Fits(g, Append(d, l), c)
<1>1. ReadLines(d) \in Reads /\ ReadLines(Append(d, l)) = ReadLine(ReadLines(d), l)
  BY LinesRead
<1> DEFINE a == ReadLines(d)
           b == ReadLines(Append(d, l))
<1>2. a \in Reads /\ b = ReadLine(a, l)
  BY <1>1
<1>. HIDE DEF a, b
<1>3. /\ b.files = a.files /\ b.names = a.names /\ b.named = a.named
      /\ Len(b.index) = Len(a.index)
  BY <1>2, LineRead
<1>4. Append(d, l) \in Seq(Lines)
  OBVIOUS
<1>. QED  BY <1>3, <1>4 DEF Fits, a, b

\* A face that is counted is read as one, unless it is empty.
LEMMA FaceFits ==
  ASSUME NEW g \in Bases, NEW d \in Seq(Lines), NEW text \in Texts,
         text # Empty \/ g.may = TRUE,
         NEW c \in Nat, Fits(g, d, c)
  PROVE  /\ Append(d, Line(Empty, text)) \in Seq(Lines)
         /\ Fits(g, Append(d, Line(Empty, text)), c + 1)
<1> DEFINE l == Line(Empty, text)
           a == ReadLines(d)
           b == ReadLines(Append(d, l))
<1>1. /\ l \in Lines /\ l.tag = Empty
      /\ l = EndLine <=> text = Empty
  BY DEF Line, Lines, EndLine
<1>2. a \in Reads /\ b = ReadLine(a, l)
  BY <1>1, LinesRead
<1>3. Append(d, l) \in Seq(Lines)
  BY <1>1
<1>4. Len(a.index) \in Nat /\ a.named \in BOOLEAN /\ g.faces \in Nat
  BY <1>2 DEF Reads, Bases
<1>. HIDE DEF l, a
<1>5. CASE text = Empty
  <2>1. Len(b.index) = Len(a.index)
    BY <1>1, <1>2, <1>5, LineRead
  <2>. HIDE DEF b
  <2>2. Len(a.index) <= g.faces + c
    BY <1>4 DEF Fits, a
  <2>3. Len(b.index) < g.faces + (c + 1)
    BY <1>4, <2>1, <2>2
  <2>. QED  BY <1>3, <1>5, <2>3 DEF Fits, b, l
<1>6. CASE text # Empty
  <2>1. /\ a.named = TRUE =>
             /\ b.files = a.files /\ b.names = a.names
             /\ b.named = TRUE /\ Len(b.index) = Len(a.index) + 1
        /\ Len(b.index) <= Len(a.index) + 1
    <3>1. CASE a.named = TRUE
      <4>. HIDE DEF b
      <4>1. /\ b.files = a.files /\ b.names = a.names
            /\ b.named = TRUE /\ Len(b.index) = Len(a.index) + 1
        <5>1. LET now == ReadLine(a, l)
              IN  /\ now.files = a.files /\ now.names = a.names
                  /\ now.named = TRUE /\ Len(now.index) = Len(a.index) + 1
          BY <1>1, <1>2, <1>6, <3>1, LineRead
        <5>. QED  BY <1>2, <5>1
      <4>. QED  BY <1>4, <4>1
    <3>2. CASE a.named = FALSE
      <4>1. Len(b.index) = Len(a.index)
        BY <1>1, <1>2, <1>6, <3>2, LineRead
      <4>. HIDE DEF b
      <4>. QED  BY <1>4, <3>2, <4>1
    <3>. QED  BY <1>4, <3>1, <3>2
  <2>. HIDE DEF b
  <2>2. CASE /\ g.ok = TRUE
             /\ a.named = TRUE /\ a.files = g.files
             /\ a.names = g.names /\ Len(a.index) = g.faces + c
    <3>1. /\ b.named = TRUE /\ b.files = g.files /\ b.names = g.names
          /\ Len(b.index) = g.faces + (c + 1)
      <4>1. Len(b.index) = (g.faces + c) + 1
        BY <2>1, <2>2
      <4>2. (g.faces + c) + 1 = g.faces + (c + 1)
        BY <1>4
      <4>. QED  BY <2>1, <2>2, <4>1, <4>2, Zenon
    <3>2. Fits(g, Append(d, l), c + 1)
      BY <2>2, <3>1 DEF Fits, b
    <3>. QED  BY <1>3, <3>2 DEF l
  <2>3. CASE g.may = TRUE /\ Len(a.index) < g.faces + c
    <3>1. Len(b.index) < g.faces + (c + 1)
      <4>1. Len(b.index) \in Nat
        BY <1>1, <1>2, LineRead DEF Reads, b
      <4>. QED  BY <1>4, <2>1, <2>3, <4>1
    <3>. QED  BY <1>3, <2>3, <3>1 DEF Fits, b, l
  <2>. QED  BY <2>2, <2>3 DEF Fits, a
<1>. QED  BY <1>5, <1>6
\* otf_parse_table_name, the first loop
LEMMA VersionRecordFits ==
  ASSUME NEW g \in Bases, NEW p \in Versioning(g), NEW rec \in RecordsFor(g)
  PROVE  VersionRecord(p, rec) \in Versioning(g)
<1> DEFINE head == SubSeq(p.db, 1, p.ver)
           version == Line("ver", rec.text)
           d == Append(head, version)
           k == Len(head) + 1
<1>1. /\ p \in InParse /\ p.db \in Seq(Lines) /\ p.ver \in Nat /\ p.ver <= Len(p.db)
      /\ p.count \in Nat
      /\ Fits(g, head, p.count)
  BY DEF Versioning, Parses, InParse
<1>2. version \in Lines /\ version.tag # Empty /\ rec.lang \in Nat
  BY TagsDiffer DEF Line, Lines, Texts, RecordsFor, NameRecords
<1>3. head \in Seq(Lines) /\ Len(head) = p.ver /\ SubSeq(head, 1, p.ver) = head
  BY <1>1
<1>4. \/ VersionRecord(p, rec) = p
      \/ VersionRecord(p, rec) = [p EXCEPT !.db = head, !.r = "oom"]
      \/ VersionRecord(p, rec) = [p EXCEPT !.db = d, !.lang = rec.lang, !.face = k]
  <2>1. \/ VersionRecord(p, rec) = p
        \/ VersionRecord(p, rec) = PutVersion(p, rec.text, rec.lang)
    BY DEF VersionRecord, NameRecord
  <2>2. \/ PutVersion(p, rec.text, rec.lang) = [p EXCEPT !.db = head, !.r = "oom"]
        \/ PutVersion(p, rec.text, rec.lang) =
             [p EXCEPT !.db = d, !.lang = rec.lang, !.face = k]
    BY Zenon DEF PutVersion
  <2>. HIDE DEF head, d, k
  <2>. QED  BY <2>1, <2>2
<1>. HIDE DEF head, version
<1>5. /\ d \in Seq(Lines) /\ Len(d) = p.ver + 1 /\ k \in Nat
      /\ SubSeq(d, 1, p.ver) = head
  <2>1. d \in Seq(Lines) /\ Len(d) = p.ver + 1 /\ k \in Nat
    BY <1>1, <1>2, <1>3
  <2>2. SubSeq(d, 1, p.ver) = head
    BY <1>1, <1>2, <1>3
  <2>. QED  BY <2>1, <2>2
<1>6. Fits(g, d, p.count)
  BY <1>1, <1>2, <1>3, TagFits
<1>. HIDE DEF d, k
<1>7. ASSUME VersionRecord(p, rec) = [p EXCEPT !.db = head, !.r = "oom"]
      PROVE  VersionRecord(p, rec) \in Versioning(g)
  <2> DEFINE q == [p EXCEPT !.db = head, !.r = "oom"]
  <2>1. q \in InParse /\ q.db = head /\ q.ver = p.ver /\ q.count = p.count
    BY <1>1, <1>3 DEF InParse
  <2>. HIDE DEF q
  <2>2. SubSeq(q.db, 1, q.ver) = head /\ q.ver <= Len(q.db)
    BY <1>1, <1>3, <2>1
  <2>3. q \in Versioning(g)
    BY <1>1, <2>1, <2>2 DEF Versioning, Parses
  <2>. QED  BY <1>7, <2>3 DEF q
<1>8. ASSUME VersionRecord(p, rec) = [p EXCEPT !.db = d, !.lang = rec.lang, !.face = k]
      PROVE  VersionRecord(p, rec) \in Versioning(g)
  <2> DEFINE q == [p EXCEPT !.db = d, !.lang = rec.lang, !.face = k]
  <2>1. q \in InParse /\ q.db = d /\ q.ver = p.ver /\ q.count = p.count
    BY <1>1, <1>2, <1>5 DEF InParse
  <2>. HIDE DEF q
  <2>2. q.ver <= Len(q.db)
    BY <1>1, <1>5, <2>1
  <2>3. q \in Versioning(g)
    BY <1>1, <1>5, <1>6, <2>1, <2>2 DEF Versioning, Parses
  <2>. QED  BY <1>8, <2>3 DEF q
<1>. QED  BY <1>4, <1>7, <1>8

\* The second loop: the faces of a record, or the end of the memory.
LEMMA FaceRecordFits ==
  ASSUME NEW g \in Bases, NEW p \in Parses(g), NEW rec \in RecordsFor(g)
  PROVE  FaceRecord(p, rec) \in Parses(g)
<1> DEFINE face == Line(Empty, rec.text)
           d == Append(p.db, face)
           k == p.count + 1
<1>1. /\ p \in InParse /\ p.db \in Seq(Lines) /\ p.count \in Nat
      /\ Fits(g, p.db, p.count)
  BY DEF Parses, InParse
<1>2. rec.text \in Texts /\ (rec.cch # 0 => rec.text # Empty \/ g.may = TRUE)
  BY DEF RecordsFor, NameRecords, Texts
<1>3. \/ FaceRecord(p, rec) = p
      \/ FaceRecord(p, rec) = [p EXCEPT !.r = "oom"]
      \/ /\ rec.cch # 0
         /\ FaceRecord(p, rec) = [p EXCEPT !.db = d, !.count = k]
  <2>1. \/ FaceRecord(p, rec) = p
        \/ rec.cch # 0 /\ FaceRecord(p, rec) = PutFace(p, rec.text)
    BY DEF FaceRecord, NameRecord
  <2>2. \/ PutFace(p, rec.text) = [p EXCEPT !.r = "oom"]
        \/ PutFace(p, rec.text) = p
        \/ PutFace(p, rec.text) = [p EXCEPT !.db = d, !.count = k]
    BY Zenon DEF PutFace
  <2>. HIDE DEF d, k
  <2>. QED  BY <2>1, <2>2
<1>4. [p EXCEPT !.r = "oom"] \in Parses(g)
  BY <1>1 DEF Parses, InParse
<1>5. ASSUME rec.cch # 0, FaceRecord(p, rec) = [p EXCEPT !.db = d, !.count = k]
      PROVE  FaceRecord(p, rec) \in Parses(g)
  <2> DEFINE q == [p EXCEPT !.db = d, !.count = k]
  <2>1. d \in Seq(Lines) /\ Fits(g, d, k) /\ k \in Nat
    <3> DEFINE text == rec.text
               c == p.count
               b == p.db
    <3>1. /\ b \in Seq(Lines) /\ text \in Texts /\ c \in Nat
          /\ text # Empty \/ g.may = TRUE
          /\ Fits(g, b, c)
      BY <1>1, <1>2, <1>5
    <3>. HIDE DEF text, c, b
    <3>2. /\ Append(b, Line(Empty, text)) \in Seq(Lines)
          /\ Fits(g, Append(b, Line(Empty, text)), c + 1)
      BY <3>1, FaceFits
    <3>. QED  BY <3>1, <3>2 DEF text, c, b
  <2>. HIDE DEF d, k
  <2>2. q \in InParse /\ q.db = d /\ q.count = k
    BY <1>1, <2>1 DEF InParse
  <2>. HIDE DEF q
  <2>3. q \in Parses(g)
    BY <2>1, <2>2 DEF Parses
  <2>. QED  BY <1>5, <2>3 DEF q
<1>. HIDE DEF d, k
<1>. QED  BY <1>1, <1>3, <1>4, <1>5
\* A face that is counted leaves the lines before the version with fewer.
LEMMA FaceRecordLeaves ==
  ASSUME NEW g \in Bases, g.may = TRUE, NEW p \in Versioning(g), NEW rec \in RecordsFor(g)
  PROVE  FaceRecord(p, rec) \in Versioning(g)
<1> DEFINE d == Append(p.db, Line(Empty, rec.text))
           k == p.count + 1
           head == SubSeq(p.db, 1, p.ver)
           q == FaceRecord(p, rec)
<1>1. /\ p \in InParse /\ p.db \in Seq(Lines) /\ p.count \in Nat /\ p.ver \in Nat
      /\ p.ver <= Len(p.db) /\ Fits(g, head, p.count) /\ p \in Parses(g)
  BY DEF Versioning, Parses, InParse
<1>2. q \in Parses(g) /\ q \in InParse
  BY <1>1, FaceRecordFits DEF Parses
<1>3. \/ q = p
      \/ q = [p EXCEPT !.r = "oom"]
      \/ q = [p EXCEPT !.db = d, !.count = k]
  <2>1. q = p \/ q = PutFace(p, rec.text)
    BY DEF FaceRecord, NameRecord
  <2>2. \/ PutFace(p, rec.text) = [p EXCEPT !.r = "oom"]
        \/ PutFace(p, rec.text) = p
        \/ PutFace(p, rec.text) = [p EXCEPT !.db = d, !.count = k]
    BY Zenon DEF PutFace
  <2>. HIDE DEF d, k, q
  <2>. QED  BY <2>1, <2>2
<1>4. /\ k \in Nat /\ Line(Empty, rec.text) \in Lines
  BY <1>1 DEF Line, Lines, RecordsFor, NameRecords, Texts
<1>5. SubSeq(d, 1, p.ver) = head /\ p.ver <= Len(d)
  <2> DEFINE b == p.db
             l == Line(Empty, rec.text)
             v == p.ver
  <2>1. b \in Seq(Lines) /\ l \in Lines /\ v \in Nat /\ v <= Len(b)
    BY <1>1, <1>4
  <2>. HIDE DEF b, l, v
  <2>2. SubSeq(Append(b, l), 1, v) = SubSeq(b, 1, v) /\ v <= Len(Append(b, l))
    BY <2>1
  <2>. QED  BY <2>2 DEF b, l, v
<1>6. Fits(g, head, k)
  <2> DEFINE x == Len(ReadLines(head).index)
             f == g.faces
             c == p.count
  <2>1. x <= f + c /\ f \in Nat /\ c \in Nat /\ x \in Nat
    <3>1. ReadLines(head) \in Reads
      <4>1. head \in Seq(Lines)
        BY <1>1
      <4>. HIDE DEF head
      <4>. QED  BY <4>1, LinesRead
    <3>2. x \in Nat
      <4>. HIDE DEF head
      <4>. QED  BY <3>1 DEF Reads
    <3>3. f \in Nat /\ c \in Nat
      BY <1>1 DEF Bases
    <3>4. x = f + c \/ x < f + c
      BY <1>1, Zenon DEF Fits
    <3>. HIDE DEF x, f, c
    <3>. QED  BY <3>2, <3>3, <3>4
  <2>2. k = c + 1
    OBVIOUS
  <2>. HIDE DEF x, f, c, k
  <2>3. x < f + k
    BY <2>1, <2>2
  <2>. QED  BY <2>3, Zenon DEF Fits, x, f
<1>. HIDE DEF d, k, head, q
<1>7. ASSUME q = [p EXCEPT !.db = d, !.count = k] PROVE q \in Versioning(g)
  <2>1. q.db = d /\ q.count = k /\ q.ver = p.ver
    BY <1>1, <1>7 DEF InParse
  <2>. QED  BY <1>2, <1>5, <1>6, <2>1 DEF Versioning
<1>8. ASSUME q = [p EXCEPT !.r = "oom"] PROVE q \in Versioning(g)
  <2>1. q.db = p.db /\ q.count = p.count /\ q.ver = p.ver
    BY <1>1, <1>8 DEF InParse
  <2>. QED  BY <1>1, <1>2, <2>1 DEF Versioning, head
<1>. QED  BY <1>3, <1>7, <1>8 DEF q

\* One name table: its versions, then its faces.
LEMMA TableFits ==
  ASSUME NEW g \in Bases, NEW p \in Parses(g), NEW names \in Seq(RecordsFor(g)),
         p \in Versioning(g) \/ names \in Seq(Unversioned(g))
  PROVE  /\ NameTable(p, names) \in Parses(g)
         /\ p \in Versioning(g) /\ g.may = TRUE => NameTable(p, names) \in Versioning(g)
<1> DEFINE v == FoldLeft(VersionRecord, p, names)
           q == FoldLeft(FaceRecord, v, names)
<1>1. \A base, s : FoldLeft(VersionRecord, base, s) = Versions!Fold(base, s)
  BY DEF Versions!Fold, FoldLeft, Versions!FoldLeft, MapThenFoldSet,
         Versions!MapThenFoldSet, Max, Versions!Max
<1>2. \A base, s : FoldLeft(FaceRecord, base, s) = FaceNames!Fold(base, s)
  BY DEF FaceNames!Fold, FoldLeft, FaceNames!FoldLeft, MapThenFoldSet,
         FaceNames!MapThenFoldSet, Max, FaceNames!Max
<1>3. \A acc \in Versioning(g), rec \in RecordsFor(g) :
        VersionRecord(acc, rec) \in Versioning(g)
  BY VersionRecordFits
<1>4. \A acc \in Parses(g), rec \in Unversioned(g) : VersionRecord(acc, rec) \in Parses(g)
  <2>. SUFFICES ASSUME NEW acc \in Parses(g), NEW rec \in Unversioned(g)
                PROVE  VersionRecord(acc, rec) = acc
    OBVIOUS
  <2>1. ~IsVersion(rec)
    BY DEF Unversioned
  <2>. QED  BY <2>1, Zenon DEF IsVersion, VersionRecord, NameRecord
<1>5. \A acc \in Parses(g), rec \in RecordsFor(g) : FaceRecord(acc, rec) \in Parses(g)
  BY FaceRecordFits
<1>6. p \in Versioning(g) => v \in Versioning(g)
  <2>. SUFFICES ASSUME p \in Versioning(g) PROVE v \in Versioning(g)
    OBVIOUS
  <2>1. \A s \in Seq(RecordsFor(g)) : Versions!Fold(p, s) \in Versioning(g)
    BY <1>3, Versions!FoldKeeps
  <2>. QED  BY <1>1, <2>1
<1>7. v \in Parses(g)
  <2>1. CASE p \in Versioning(g)
    BY <1>6, <2>1 DEF Versioning
  <2>2. CASE names \in Seq(Unversioned(g))
    <3>1. \A s \in Seq(Unversioned(g)) : Versions!Fold(p, s) \in Parses(g)
      BY <1>4, Versions!FoldKeeps
    <3>. QED  BY <1>1, <2>2, <3>1
  <2>. QED  BY <2>1, <2>2
<1>8. NameTable(p, names) = q
  BY DEF NameTable
<1>. HIDE DEF v
<1>9. q \in Parses(g)
  <2>1. \A s \in Seq(RecordsFor(g)) : FaceNames!Fold(v, s) \in Parses(g)
    BY <1>5, <1>7, FaceNames!FoldKeeps
  <2>. QED  BY <1>2, <2>1
<1>10. ASSUME p \in Versioning(g), g.may = TRUE PROVE q \in Versioning(g)
  <2>1. \A acc \in Versioning(g), rec \in RecordsFor(g) : FaceRecord(acc, rec) \in Versioning(g)
    BY <1>10, FaceRecordLeaves
  <2>2. v \in Versioning(g)
    BY <1>6, <1>10
  <2>3. \A s \in Seq(RecordsFor(g)) : FaceNames!Fold(v, s) \in Versioning(g)
    BY <2>1, <2>2, FaceNames!FoldKeeps
  <2>. QED  BY <1>2, <2>3
<1>. HIDE DEF q
<1>. QED  BY <1>8, <1>9, <1>10

\* One font of the file.
LEMMA OtfFits ==
  ASSUME NEW g \in Bases, NEW p \in Parses(g), NEW font \in FontsFor(g)
  PROVE  OtfParse(p, font) \in Parses(g)
<1> DEFINE start == NewFont(p)
           tables == font.tables
           I == {x \in Nat \X Parses(g) :
                   g.may = TRUE \/ x[1] = 0 => x[2] \in Versioning(g)}
<1>0. /\ tables \in Seq(Seq(RecordsFor(g)))
      /\ font.form \in {"ok", "unrecognized", "corrupted"}
      /\ g.may = TRUE \/ \A k \in DOMAIN tables : k > 1 => tables[k] \in Seq(Unversioned(g))
  BY DEF FontsFor
<1>1. start \in Versioning(g)
  <2> DEFINE k == Len(p.db)
             q == [p EXCEPT !.ver = k, !.face = k, !.lang = 0]
  <2>1. p \in InParse /\ k \in Nat /\ Fits(g, p.db, p.count) /\ SubSeq(p.db, 1, k) = p.db
    BY DEF Parses, InParse
  <2>2. k = Len(p.db)
    OBVIOUS
  <2>. HIDE DEF k
  <2>3. q \in InParse /\ q.db = p.db /\ q.ver = k /\ q.count = p.count
    BY <2>1 DEF InParse
  <2>. HIDE DEF q
  <2>4. SubSeq(q.db, 1, q.ver) = p.db /\ q.ver <= Len(q.db)
    BY <2>1, <2>2, <2>3
  <2>5. q \in Versioning(g)
    BY <2>1, <2>3, <2>4 DEF Versioning, Parses
  <2>. QED  BY <2>5 DEF NewFont, q, k
<1>. HIDE DEF start, tables
<1>2. <<0, start>> \in I
  BY <1>1 DEF Versioning
<1>3. ASSUME NEW k \in Nat, NEW acc, k < Len(tables), <<k, acc>> \in I
      PROVE  <<k + 1, NameTable(acc, tables[k + 1])>> \in I
  <2> DEFINE names == tables[k + 1]
             next == NameTable(acc, names)
  <2>1. k + 1 \in DOMAIN tables /\ names \in Seq(RecordsFor(g)) /\ k + 1 \in Nat /\ k + 1 # 0
    BY <1>0, <1>3
  <2>2. acc \in Parses(g) /\ (g.may = TRUE \/ k = 0 => acc \in Versioning(g))
    BY <1>3
  <2>3. acc \in Versioning(g) \/ names \in Seq(Unversioned(g))
    <3>1. CASE g.may = TRUE \/ k = 0
      BY <2>2, <3>1
    <3>2. CASE ~(g.may = TRUE) /\ k # 0
      <4>1. k + 1 > 1
        BY <3>2
      <4>. QED  BY <1>0, <2>1, <3>2, <4>1
    <3>. QED  BY <3>1, <3>2
  <2>. HIDE DEF names
  <2>4. /\ next \in Parses(g)
        /\ acc \in Versioning(g) /\ g.may = TRUE => next \in Versioning(g)
    BY <2>1, <2>2, <2>3, TableFits
  <2>. HIDE DEF next
  <2>. QED  BY <2>1, <2>2, <2>4 DEF next, names
<1>. HIDE DEF I
<1>4. <<Len(tables), NameTables!Fold(start, tables)>> \in I
  BY <1>0, <1>2, <1>3, NameTables!FoldSteps
<1>5. FoldLeft(NameTable, start, tables) = NameTables!Fold(start, tables)
  BY DEF NameTables!Fold, FoldLeft, NameTables!FoldLeft, MapThenFoldSet,
         NameTables!MapThenFoldSet, Max, NameTables!Max
<1>6. FoldLeft(NameTable, start, tables) \in Parses(g)
  BY <1>4, <1>5 DEF I
<1>7. [p EXCEPT !.r = font.form] \in Parses(g)
  BY <1>0 DEF Parses, InParse
<1>. QED  BY <1>6, <1>7, Zenon DEF OtfParse, start, tables

\* A Regular file has only fonts of that kind.
LEMMA FontsOf ==
  ASSUME NEW g \in Bases, NEW ff \in FontFiles, g.may = TRUE \/ Regular(ff)
  PROVE  ff.fonts \in Seq(FontsFor(g))
<1>1. ff.fonts \in Seq(FontTables)
  BY DEF FontFiles
<1>2. ASSUME NEW i \in 1 .. Len(ff.fonts)
      PROVE  ff.fonts[i] \in FontsFor(g)
  <2> DEFINE font == ff.fonts[i]
             tables == font.tables
  <2>1. i \in DOMAIN ff.fonts /\ font \in FontTables
    BY <1>1
  <2>2. /\ tables \in Seq(Seq(NameRecords))
        /\ font.form \in {"ok", "unrecognized", "corrupted"}
        /\ font = [form |-> font.form, tables |-> tables]
    BY <2>1 DEF FontTables
  <2>3. g.may = TRUE \/ \A k \in DOMAIN tables : \A j \in DOMAIN tables[k] :
          /\ tables[k][j].cch # 0 => tables[k][j].text # Empty
          /\ k > 1 => ~IsVersion(tables[k][j])
    BY <2>1, Zenon DEF Regular
  <2>. HIDE DEF font, tables
  <2>4. ASSUME NEW k \in DOMAIN tables
        PROVE  /\ tables[k] \in Seq(RecordsFor(g))
               /\ g.may = TRUE \/ (k > 1 => tables[k] \in Seq(Unversioned(g)))
    <3> DEFINE names == tables[k]
    <3>1. names \in Seq(NameRecords)
      BY <2>2
    <3>2. \A j \in DOMAIN names : names[j] \in NameRecords
      BY <3>1
    <3>3. g.may = TRUE \/ \A j \in DOMAIN names :
            /\ names[j].cch # 0 => names[j].text # Empty
            /\ k > 1 => ~IsVersion(names[j])
      BY <2>3
    <3>. HIDE DEF names
    <3>4. \A j \in DOMAIN names : names[j] \in RecordsFor(g)
      BY <3>2, <3>3 DEF RecordsFor
    <3>5. g.may = TRUE \/ (k > 1 => \A j \in DOMAIN names : names[j] \in Unversioned(g))
      BY <3>3, <3>4 DEF Unversioned
    <3>6. names \in Seq(RecordsFor(g))
      BY <3>1, <3>4
    <3>7. g.may = TRUE \/ (k > 1 => names \in Seq(Unversioned(g)))
      BY <3>1, <3>5
    <3>. QED  BY <3>6, <3>7 DEF names
  <2>5. tables \in Seq(Seq(RecordsFor(g)))
    <3>1. \A k \in DOMAIN tables : tables[k] \in Seq(RecordsFor(g))
      BY <2>4
    <3> DEFINE R == Seq(RecordsFor(g))
               N == Seq(NameRecords)
    <3>2. tables \in Seq(N) /\ \A k \in DOMAIN tables : tables[k] \in R
      BY <2>2, <3>1
    <3>. HIDE DEF R, N
    <3>. QED  BY <3>2 DEF R
  <2>6. font \in FontsFor(g)
    <3>1. /\ font \in [form : {"ok", "unrecognized", "corrupted"},
                       tables : Seq(Seq(RecordsFor(g)))]
          /\ font.tables = tables
      BY <2>2, <2>5
    <3>2. g.may = TRUE \/ \A k \in DOMAIN tables : k > 1 => tables[k] \in Seq(Unversioned(g))
      BY <2>4
    <3>. QED  BY <3>1, <3>2, Zenon DEF FontsFor
  <2>. QED  BY <2>6 DEF font
<1>. QED  BY <1>1, <1>2

\* The fonts of a collection, and a single font.
LEMMA FileFits ==
  ASSUME NEW g \in Bases, NEW p \in Parses(g),
         NEW ff \in FontFiles, ff.kind # "ttc" => Len(ff.fonts) = 1,
         g.may = TRUE \/ Regular(ff)
  PROVE  TtcParse(p, ff) \in Parses(g) /\ OtfFile(p, ff) \in Parses(g)
<1>1. ff.fonts \in Seq(FontsFor(g))
  BY FontsOf
<1>2. \A acc \in Parses(g), font \in FontsFor(g) : NextFont(acc, font) \in Parses(g)
  BY OtfFits DEF NextFont
<1>3. FoldLeft(NextFont, p, ff.fonts) = Collections!Fold(p, ff.fonts)
  BY DEF Collections!Fold, FoldLeft, Collections!FoldLeft, MapThenFoldSet,
         Collections!MapThenFoldSet, Max, Collections!Max
<1>4. FoldLeft(NextFont, p, ff.fonts) \in Parses(g)
  BY <1>1, <1>2, <1>3, Collections!FoldKeeps
<1>5. [p EXCEPT !.r = "unrecognized"] \in Parses(g)
  BY DEF Parses, InParse
<1>6. ff.kind # "ttc" => OtfParse(p, ff.fonts[1]) \in Parses(g)
  <2>1. Len(ff.fonts) = 1 => ff.fonts[1] \in FontsFor(g)
    BY <1>1
  <2>. QED  BY <2>1, OtfFits
<1>. QED  BY <1>4, <1>5, <1>6 DEF TtcParse, OtfFile
-----------------------------------------------------------------------------
(***************************************************************************)
(* fs_add_font adds one whole block, or nothing.                           *)
(***************************************************************************)
FontSets == [db : Seq(Lines), files : Nat, faces : Nat]

\* The lines end with a whole block.
Closed(s) == ReadLines(s.db).named = FALSE

\* Fewer faces than counted: fs_build_index refuses the lines.
Short(s) == Len(ReadLines(s.db).index) < s.faces

\* The first line of a block.
LEMMA NameRead ==
  ASSUME NEW d \in Seq(Lines), NEW n \in Names, ReadLines(d).named = FALSE
  PROVE  LET a == ReadLines(d)
             b == ReadLines(Append(d, Line(Empty, n)))
         IN  /\ Line(Empty, n) \in Lines
             /\ b.named = TRUE /\ b.files = a.files + 1 /\ b.names = a.names \cup {n}
             /\ Len(b.index) = Len(a.index)
<1> DEFINE l == Line(Empty, n)
           a == ReadLines(d)
           b == ReadLines(Append(d, l))
<1>1. l \in Lines /\ l.tag = Empty /\ l # EndLine /\ l.text = n
  BY CacheAssumption DEF Line, Lines, EndLine, Texts
<1>2. a \in Reads /\ b = ReadLine(a, l) /\ a.named = FALSE
  BY <1>1, LinesRead
<1>3. b.named = TRUE /\ b.files = a.files + 1 /\ b.names = a.names \cup {n}
      /\ Len(b.index) = Len(a.index)
  <2>. HIDE DEF a, b, l
  <2>1. LET c == ReadLine(a, l)
        IN  /\ c.files = a.files + 1 /\ c.names = a.names \cup {l.text}
            /\ c.named = TRUE /\ Len(c.index) = Len(a.index)
    BY <1>1, <1>2, LineRead
  <2>. QED  BY <1>1, <1>2, <2>1
<1>. QED  BY <1>1, <1>3

\* The last one.
LEMMA EndRead ==
  ASSUME NEW d \in Seq(Lines)
  PROVE  LET a == ReadLines(d)
             b == ReadLines(Append(d, EndLine))
         IN  /\ Append(d, EndLine) \in Seq(Lines)
             /\ b.named = FALSE /\ b.files = a.files /\ b.names = a.names
             /\ Len(b.index) = Len(a.index)
<1> DEFINE a == ReadLines(d)
           b == ReadLines(Append(d, EndLine))
<1>1. EndLine \in Lines
  BY DEF Line, Lines, EndLine, Texts
<1>2. a \in Reads /\ b = ReadLine(a, EndLine)
  BY <1>1, LinesRead
<1>3. b.named = FALSE /\ b.files = a.files /\ b.names = a.names
      /\ Len(b.index) = Len(a.index)
  <2>. HIDE DEF a, b
  <2>1. LET c == ReadLine(a, EndLine)
        IN  /\ c.files = a.files /\ c.names = a.names
            /\ c.named = FALSE /\ Len(c.index) = Len(a.index)
    BY <1>1, <1>2, LineRead
  <2>. QED  BY <1>2, <2>1
<1>. QED  BY <1>1, <1>3

\* What a block of the file n starts from.
Base(s, n, may) ==
  [ok |-> Counted(s), may |-> may, files |-> s.files + 1,
   names |-> FileNames(s) \cup {n}, faces |-> s.faces]

LEMMA BaseIs ==
  ASSUME NEW s \in FontSets, NEW n \in Names, NEW may \in BOOLEAN
  PROVE  Base(s, n, may) \in Bases
<1>1. ReadLines(s.db) \in Reads
  BY LinesRead DEF FontSets
<1>2. FileNames(s) \in SUBSET Texts /\ n \in Texts
  BY <1>1 DEF FileNames, Reads, Texts
<1>3. Counted(s) \in BOOLEAN
  BY DEF Counted
<1>. QED  BY <1>2, <1>3 DEF Base, Bases, FontSets

\* The two lines before the faces.
LEMMA BlockFits ==
  ASSUME NEW s \in FontSets, Closed(s), NEW n \in Names, NEW format \in Formats,
         NEW may \in BOOLEAN, Counted(s) \/ (may = TRUE /\ Short(s))
  PROVE  /\ Block(s.db, n, format) \in Seq(Lines)
         /\ Len(Block(s.db, n, format)) = Len(s.db) + 2
         /\ Fits(Base(s, n, may), Block(s.db, n, format), 0)
<1> DEFINE b == s.db
           l1 == Line(Empty, n)
           l2 == Line("fmt", format)
           d == Append(b, l1)
           g == Base(s, n, may)
<1>1. b \in Seq(Lines) /\ ReadLines(b).named = FALSE /\ s.faces \in Nat
  BY DEF FontSets, Closed
<1>2. /\ l1 \in Lines
      /\ ReadLines(d).named = TRUE /\ ReadLines(d).files = ReadLines(b).files + 1
      /\ ReadLines(d).names = ReadLines(b).names \cup {n}
      /\ Len(ReadLines(d).index) = Len(ReadLines(b).index)
  BY <1>1, NameRead
<1>3. l2 \in Lines /\ l2.tag # Empty
  BY TagsDiffer DEF Line, Lines, Texts
<1>4. Block(b, n, format) = Append(d, l2) /\ d \in Seq(Lines) /\ Len(d) = Len(b) + 1
  <2>1. Block(b, n, format) = b \o <<l1, l2>>
    BY DEF Block
  <2>. HIDE DEF b, l1, l2
  <2>. QED  BY <1>1, <1>2, <1>3, <2>1
<1>5. g \in Bases
  BY BaseIs
<1>6. Fits(g, d, 0)
  <2>1. /\ g.ok = Counted(s) /\ g.may = may /\ g.files = s.files + 1
        /\ g.names = FileNames(s) \cup {n} /\ g.faces = s.faces
    BY DEF Base
  <2>. HIDE DEF d, g, l1
  <2>2. g.faces + 0 = s.faces
    BY <1>1, <2>1
  <2>3. CASE Counted(s)
    BY <1>2, <2>1, <2>2, <2>3 DEF Fits, Counted, FileNames
  <2>4. CASE may = TRUE /\ Short(s)
    BY <1>2, <2>1, <2>2, <2>4 DEF Fits, Short
  <2>. QED  BY <2>3, <2>4
<1>7. Fits(g, Append(d, l2), 0)
  <2>. HIDE DEF d, g, l2
  <2>. QED  BY <1>3, <1>4, <1>5, <1>6, TagFits
<1>8. Len(Block(b, n, format)) = Len(b) + 2 /\ Block(b, n, format) \in Seq(Lines)
  <2>. HIDE DEF b, d, l2
  <2>. QED  BY <1>1, <1>3, <1>4
<1>. QED  BY <1>4, <1>7, <1>8

\* The block is closed.
LEMMA BlockEnds ==
  ASSUME NEW s \in FontSets, NEW n \in Names, NEW may \in BOOLEAN,
         NEW d \in Seq(Lines), NEW c \in Nat, Fits(Base(s, n, may), d, c)
  PROVE  LET t == [db |-> Append(d, EndLine), files |-> s.files + 1, faces |-> s.faces + c]
         IN  /\ t \in FontSets /\ Closed(t)
             /\ \/ Counted(s) /\ Counted(t) /\ FileNames(t) = FileNames(s) \cup {n}
                \/ may = TRUE /\ Short(t)
<1> DEFINE g == Base(s, n, may)
           e == Append(d, EndLine)
           files == s.files + 1
           faces == s.faces + c
           t == [db |-> e, files |-> files, faces |-> faces]
<1>1. /\ e \in Seq(Lines)
      /\ ReadLines(e).named = FALSE /\ ReadLines(e).files = ReadLines(d).files
      /\ ReadLines(e).names = ReadLines(d).names
      /\ Len(ReadLines(e).index) = Len(ReadLines(d).index)
  BY EndRead
<1>2. files \in Nat /\ faces \in Nat
  BY DEF FontSets
<1>3. /\ g.ok = Counted(s) /\ g.may = may /\ g.files = files
      /\ g.names = FileNames(s) \cup {n} /\ g.faces + c = faces
  BY DEF Base
<1>4. Fits(g, d, c)
  OBVIOUS
<1>. HIDE DEF g, e, files, faces
<1>5. t \in FontSets /\ t.db = e /\ t.files = files /\ t.faces = faces
  BY <1>1, <1>2 DEF FontSets
<1>. HIDE DEF t
<1>6. Closed(t)
  BY <1>1, <1>5 DEF Closed
<1>7. \/ Counted(s) /\ Counted(t) /\ FileNames(t) = FileNames(s) \cup {n}
      \/ may = TRUE /\ Short(t)
  BY <1>1, <1>3, <1>4, <1>5 DEF Fits, Counted, FileNames, Short
<1>. QED  BY <1>5, <1>6, <1>7 DEF t, e, files, faces

LEMMA KnownIs ==
  ASSUME NEW s \in FontSets, NEW db \in Seq(Lines), NEW files \in Nat
  PROVE  [s EXCEPT !.db = db, !.files = files] =
           [db |-> db, files |-> files, faces |-> s.faces]
<1> DEFINE q == [s EXCEPT !.db = db, !.files = files]
<1>1. q \in FontSets /\ q.db = db /\ q.files = files /\ q.faces = s.faces
  BY DEF FontSets
<1>. HIDE DEF q
<1>2. q = [db |-> q.db, files |-> q.files, faces |-> q.faces]
  BY <1>1 DEF FontSets
<1>. QED  BY <1>1, <1>2 DEF q
\* The parse of a file that fs_add_font keeps, if it is good.
Parsed(room, s, n, ff) ==
  LET start == Parse(room, Block(s.db, n, ff.kind))
  IN  IF ff.kind = "ttc" THEN TtcParse(start, ff) ELSE OtfFile(start, ff)

\* A set with one more file.
Longer(s, db, count) == [db |-> db, files |-> s.files + 1, faces |-> s.faces + count]

\* What fs_add_font makes of it.
Made(s, n, room, ff, t) ==
  LET p == Parsed(room, s, n, ff)
  IN  \/ t = s
      \/ Good(p) /\ Len(p.db) < room /\ t = Longer(s, Append(p.db, EndLine), p.count)
      \/ /\ ~(Good(p) /\ Len(p.db) < room)
         /\ \E format \in Formats :
              t = Longer(s, Block(s.db, n, format) \o <<Line("err", Empty), EndLine>>, 0)

LEMMA RoomyIs ==
  ASSUME NEW room, NEW s, NEW n, NEW ff
  PROVE  Roomy(room, s, n, ff) <=>
           LET p == Parsed(room, s, n, ff) IN p.r # "oom" /\ (Good(p) => Len(p.db) < room)
BY Zenon DEF Roomy, Parsed

LEMMA BlockType ==
  ASSUME NEW d \in Seq(Lines), NEW n \in Names, NEW format \in Formats
  PROVE  Block(d, n, format) \in Seq(Lines)
<1>1. Line(Empty, n) \in Lines /\ Line("fmt", format) \in Lines
  BY DEF Line, Lines, Texts
<1>. QED  BY <1>1 DEF Block

LEMMA FontMade ==
  ASSUME NEW s \in FontSets, NEW n \in Names, NEW room \in Nat, NEW ff \in FontFiles
  PROVE  Made(s, n, room, ff, AddFont(room, s, n, ff))
<1> DEFINE t == AddFont(room, s, n, ff)
           p == Parsed(room, s, n, ff)
           format == IF ff.kind = "otf" THEN "otf" ELSE "ttf"
           ttc0 == Parse(room, Block(s.db, n, "ttc"))
           otf0 == Parse(room, Block(s.db, n, format))
           ttc == TtcParse(ttc0, ff)
           otf == OtfFile(otf0, ff)
           got == IF Good(ttc) THEN ttc ELSE otf
           tried == IF Good(ttc) THEN "ttc" ELSE format
           error == Block(s.db, n, tried) \o <<Line("err", Empty), EndLine>>
           files == s.files + 1
           added == Longer(s, Append(got.db, EndLine), got.count)
           known == [s EXCEPT !.db = error, !.files = files]
<1>1. ff.kind \in {"ttc", "otf", "ttf"} /\ tried \in Formats
  BY DEF FontFiles, Formats
<1>2. \A d : /\ Parse(room, d).r = "ok"
             /\ [Parse(room, d) EXCEPT !.r = "unrecognized"].r = "unrecognized"
  BY DEF Parse
<1>3. (Good(got) <=> Good(p)) /\ (Good(p) => got = p)
  <2>1. CASE ff.kind = "ttc"
    <3>1. p = ttc
      BY <2>1, Zenon DEF Parsed
    <3>2. otf = [otf0 EXCEPT !.r = "unrecognized"]
      BY <2>1, Zenon DEF OtfFile
    <3>3. otf.r = "unrecognized"
      BY <1>2, <3>2
    <3>. HIDE DEF ttc, otf, p
    <3>4. ~Good(otf)
      BY <3>3 DEF Good
    <3>. QED  BY <3>1, <3>4
  <2>2. CASE ff.kind # "ttc"
    <3>0. format = ff.kind
      BY <1>1, <2>2
    <3>1. p = otf
      BY <2>2, <3>0, Zenon DEF Parsed
    <3>2. ttc = [ttc0 EXCEPT !.r = "unrecognized"]
      BY <2>2, Zenon DEF TtcParse
    <3>3. ttc.r = "unrecognized"
      BY <1>2, <3>2
    <3>. HIDE DEF ttc, otf, p
    <3>4. ~Good(ttc)
      BY <3>3 DEF Good
    <3>. QED  BY <3>1, <3>4
  <2>. QED  BY <2>1, <2>2
<1>4. t = IF room < Len(s.db) + 2 THEN s
          ELSE IF Good(got) /\ Len(got.db) < room THEN added
          ELSE IF Len(error) <= room THEN known ELSE s
  BY Zenon DEF AddFont, Longer
<1>5. known = Longer(s, error, 0)
  <2>1. /\ s.faces \in Nat /\ files \in Nat
        /\ s.db \in Seq(Lines)
    BY DEF FontSets
  <2> DEFINE k == s.faces
  <2>2. k + 0 = k
    BY <2>1
  <2>3. error \in Seq(Lines)
    <3>1. Block(s.db, n, tried) \in Seq(Lines)
      BY <1>1, <2>1, BlockType
    <3>2. Line("err", Empty) \in Lines /\ EndLine \in Lines
      BY DEF Line, Lines, Texts, EndLine
    <3>. QED  BY <3>1, <3>2
  <2>. HIDE DEF error, files
  <2>4. known = [db |-> error, files |-> files, faces |-> k]
    BY <2>1, <2>3, KnownIs, Zenon
  <2>. QED  BY <2>2, <2>4, Zenon DEF Longer, files, k
<1>. HIDE DEF added, known, got, tried, t, p, error
<1>6. \/ t = s
      \/ Good(got) /\ Len(got.db) < room /\ t = added
      \/ ~(Good(got) /\ Len(got.db) < room) /\ t = known
  BY <1>4, Zenon
<1>7. CASE Good(got) /\ Len(got.db) < room /\ t = added
  BY <1>3, <1>7, Zenon DEF Made, t, p, added
<1>8. CASE ~(Good(got) /\ Len(got.db) < room) /\ t = known
  <2>1. ~(Good(p) /\ Len(p.db) < room)
    BY <1>3, <1>8, Zenon
  <2>2. t = Longer(s, Block(s.db, n, tried) \o <<Line("err", Empty), EndLine>>, 0)
    BY <1>5, <1>8, Zenon DEF error
  <2>. QED  BY <1>1, <2>1, <2>2, Zenon DEF Made, t, p
<1>. QED  BY <1>6, <1>7, <1>8, Zenon DEF Made, t

\* A parse begins with the lines of the block.
LEMMA ParseBegins ==
  ASSUME NEW g \in Bases, NEW room \in Nat, NEW d \in Seq(Lines), Fits(g, d, 0)
  PROVE  Parse(room, d) \in Parses(g)
<1> DEFINE k == Len(d)
           q == [db |-> d, room |-> room, ver |-> k, face |-> k, lang |-> 0,
                 count |-> 0, r |-> "ok"]
<1>1. Parse(room, d) = q
  BY DEF Parse
<1>2. k \in Nat
  OBVIOUS
<1>. HIDE DEF k
<1>3. q \in Parses(g)
  BY <1>2 DEF Parses, InParse
<1>. QED  BY <1>1, <1>3

\* A parse has its type whatever the lines before it are.
LEMMA ParsedType ==
  ASSUME NEW s \in FontSets, NEW n \in Names, NEW room \in Nat, NEW ff \in FontFiles,
         ff.kind # "ttc" => Len(ff.fonts) = 1
  PROVE  Parsed(room, s, n, ff) \in InParse
<1> DEFINE d == Block(s.db, n, ff.kind)
           faces == Len(ReadLines(d).index) + 1
           g == [ok |-> FALSE, may |-> TRUE, files |-> 0, names |-> {}, faces |-> faces]
<1>1. d \in Seq(Lines)
  <2>1. s.db \in Seq(Lines) /\ ff.kind \in Formats
    BY DEF FontSets, FontFiles, Formats
  <2>. QED  BY <2>1, BlockType
<1>. HIDE DEF d
<1>2. faces \in Nat /\ faces + 0 = faces /\ Len(ReadLines(d).index) < faces
  <2>1. ReadLines(d) \in Reads
    BY <1>1, LinesRead
  <2>2. Len(ReadLines(d).index) \in Nat
    BY <2>1 DEF Reads
  <2>. QED  BY <2>2
<1>. HIDE DEF faces
<1>3. g \in Bases /\ g.may = TRUE /\ g.faces = faces
  BY <1>2 DEF Bases
<1>. HIDE DEF g
<1>4. Fits(g, d, 0)
  BY <1>2, <1>3, Zenon DEF Fits
<1> DEFINE start == Parse(room, d)
<1>5. start \in Parses(g)
  BY <1>1, <1>3, <1>4, ParseBegins
<1>. HIDE DEF start
<1>6. TtcParse(start, ff) \in Parses(g) /\ OtfFile(start, ff) \in Parses(g)
  BY <1>3, <1>5, FileFits
<1>7. Parsed(room, s, n, ff) \in Parses(g)
  BY <1>6, Zenon DEF Parsed, start, d
<1>. QED  BY <1>7 DEF Parses

\* What fs_add_font makes of the file n, whatever it holds and however much room
\* there is: nothing, or a block of its own that names it.  Only a file that is not
\* Regular may bring the count of the faces out of step, and only when it fits.
Blocked(s, n, room, ff, t) ==
  \/ t = s
  \/ /\ t \in FontSets /\ Closed(t) /\ t.files = s.files + 1
     /\ \/ Counted(s) /\ Counted(t) /\ FileNames(t) = FileNames(s) \cup {n}
        \/ Short(t) /\ (Short(s) \/ (~Regular(ff) /\ Roomy(room, s, n, ff)))

LEMMA MadeAdds ==
  ASSUME NEW s \in FontSets, Closed(s), Counted(s) \/ Short(s), NEW n \in Names,
         NEW room \in Nat, NEW ff \in FontFiles, ff.kind # "ttc" => Len(ff.fonts) = 1,
         NEW t, Made(s, n, room, ff, t)
  PROVE  Blocked(s, n, room, ff, t)
<1> DEFINE b == s.db
           p == Parsed(room, s, n, ff)
           Steps(may, u) ==
             /\ u \in FontSets /\ Closed(u) /\ u.files = s.files + 1
             /\ \/ Counted(s) /\ Counted(u) /\ FileNames(u) = FileNames(s) \cup {n}
                \/ may = TRUE /\ Short(u)
<1>1. ASSUME NEW may \in BOOLEAN, Counted(s) \/ (may = TRUE /\ Short(s)), NEW kind \in Formats
      PROVE  /\ Block(b, n, kind) \in Seq(Lines)
             /\ Fits(Base(s, n, may), Block(b, n, kind), 0)
  BY <1>1, BlockFits
<1>2. ASSUME NEW may \in BOOLEAN, NEW d \in Seq(Lines), NEW c \in Nat,
             Fits(Base(s, n, may), d, c)
      PROVE  Steps(may, Longer(s, Append(d, EndLine), c))
  BY <1>2, BlockEnds, Zenon DEF Longer
<1>3. ASSUME Good(p), Len(p.db) < room, t = Longer(s, Append(p.db, EndLine), p.count)
      PROVE  Blocked(s, n, room, ff, t)
  <2> DEFINE may == IF Short(s) \/ ~Regular(ff) THEN TRUE ELSE FALSE
             g == Base(s, n, may)
             start == Parse(room, Block(b, n, ff.kind))
  <2>1. may \in BOOLEAN /\ (may = TRUE <=> Short(s) \/ ~Regular(ff))
    BY Zenon
  <2>. HIDE DEF may
  <2>2. g \in Bases /\ g.may = may
    BY <2>1, BaseIs DEF Base
  <2>3. ff.kind \in Formats
    BY DEF FontFiles, Formats
  <2>4. Block(b, n, ff.kind) \in Seq(Lines) /\ Fits(g, Block(b, n, ff.kind), 0)
    BY <1>1, <2>1, <2>3
  <2>5. start \in Parses(g)
    <3>. HIDE DEF g
    <3>. QED  BY <2>2, <2>4, ParseBegins
  <2>6. p \in Parses(g)
    <3>. HIDE DEF g, start
    <3>1. g.may = TRUE \/ Regular(ff)
      BY <2>1, <2>2
    <3>2. TtcParse(start, ff) \in Parses(g) /\ OtfFile(start, ff) \in Parses(g)
      BY <2>2, <2>5, <3>1, FileFits
    <3>. QED  BY <3>2, Zenon DEF Parsed, start
  <2>7. p.db \in Seq(Lines) /\ p.count \in Nat /\ Fits(g, p.db, p.count) /\ p.r = "ok"
    <3>. HIDE DEF p, g
    <3>. QED  BY <1>3, <2>6 DEF Parses, InParse, Good
  <2>8. Steps(may, t)
    <3>. HIDE DEF p, Steps
    <3>. QED  BY <1>2, <1>3, <2>1, <2>7
  <2>9. Roomy(room, s, n, ff)
    <3>1. p.r # "oom"
      <4>. HIDE DEF p
      <4>. QED  BY <2>7
    <3>. QED  BY <1>3, <3>1, RoomyIs, Zenon
  <2>. HIDE DEF p, g, start
  <2>. QED  BY <2>1, <2>8, <2>9, Zenon DEF Blocked
<1>4. ASSUME NEW format \in Formats,
             t = Longer(s, Block(b, n, format) \o <<Line("err", Empty), EndLine>>, 0)
      PROVE  Blocked(s, n, room, ff, t)
  <2> DEFINE may == IF Short(s) THEN TRUE ELSE FALSE
             g == Base(s, n, may)
             block == Block(b, n, format)
             err == Line("err", Empty)
             open == Append(block, err)
             error == block \o <<err, EndLine>>
  <2>1. may \in BOOLEAN /\ (may = TRUE <=> Short(s))
    BY Zenon
  <2>. HIDE DEF may
  <2>2. g \in Bases
    BY <2>1, BaseIs
  <2>3. block \in Seq(Lines) /\ Fits(g, block, 0)
    BY <1>1, <2>1
  <2>4. err \in Lines /\ err.tag # Empty /\ EndLine \in Lines
    BY TagsDiffer DEF Line, Lines, Texts, EndLine
  <2>. HIDE DEF b, g, block, err
  <2>5. error = Append(open, EndLine)
    BY <2>3, <2>4
  <2>6. open \in Seq(Lines) /\ Fits(g, open, 0)
    BY <2>2, <2>3, <2>4, TagFits
  <2>. HIDE DEF open
  <2>7. Steps(may, Longer(s, Append(open, EndLine), 0))
    <3>1. Fits(Base(s, n, may), open, 0) /\ 0 \in Nat
      BY <2>6 DEF g
    <3>. HIDE DEF Steps
    <3>. QED  BY <1>2, <2>1, <2>6, <3>1
  <2>8. t = Longer(s, Append(open, EndLine), 0)
    BY <1>4, <2>5, Zenon DEF b, block, err
  <2>9. Steps(may, t)
    BY <2>7, <2>8, Zenon
  <2>. QED  BY <2>1, <2>9, Zenon DEF Blocked
<1>. HIDE DEF p
<1>. QED  BY <1>3, <1>4, Zenon DEF Made, Blocked, p, b

-----------------------------------------------------------------------------
(***************************************************************************)
(* The counts a set began with                                             *)
(***************************************************************************)
Counts == [files : Nat, faces : Nat]

\* The set without them.
Less(s, b) == [db |-> s.db, files |-> s.files - b.files, faces |-> s.faces - b.faces]

LEMMA MadeLess ==
  ASSUME NEW s \in FontSets, NEW b \in Counts, NEW n \in Names, NEW room \in Nat,
         NEW ff \in FontFiles, ff.kind # "ttc" => Len(ff.fonts) = 1,
         NEW t, Made(s, n, room, ff, t)
  PROVE  /\ Made(Less(s, b), n, room, ff, Less(t, b))
         /\ Roomy(room, Less(s, b), n, ff) <=> Roomy(room, s, n, ff)
         /\ Less(t, b) = Less(s, b) => t = s
<1> DEFINE o == Less(s, b)
           p == Parsed(room, s, n, ff)
<1>1. o.db = s.db /\ o.files = s.files - b.files /\ o.faces = s.faces - b.faces
  BY DEF Less
<1>2. Parsed(room, o, n, ff) = p
  BY <1>1, Zenon DEF Parsed
<1>3. Roomy(room, o, n, ff) <=> Roomy(room, s, n, ff)
  BY <1>2, RoomyIs, Zenon
<1>4. /\ s.files \in Nat /\ s.faces \in Nat /\ b.files \in Nat /\ b.faces \in Nat
  BY DEF FontSets, Counts
<1>5. ASSUME NEW db, NEW c \in Nat
      PROVE  /\ Less(Longer(s, db, c), b) = Longer(o, db, c)
             /\ Less(Longer(s, db, c), b) # o
  <2> DEFINE u == Longer(s, db, c)
             x == s.files
             y == s.faces
             v == b.files
             w == b.faces
  <2>1. u.db = db /\ u.files = x + 1 /\ u.faces = y + c
    BY DEF Longer
  <2>2. Less(u, b) = [db |-> db, files |-> (x + 1) - v, faces |-> (y + c) - w]
    BY <2>1, Zenon DEF Less
  <2>3. Longer(o, db, c) = [db |-> db, files |-> (x - v) + 1, faces |-> (y - w) + c]
    BY <1>1, Zenon DEF Longer
  <2>4. x \in Nat /\ y \in Nat /\ v \in Nat /\ w \in Nat
    BY <1>4
  <2>5. o.files = x - v /\ Less(u, b).files = (x + 1) - v
    BY <1>1, <2>2
  <2>. HIDE DEF x, y, v, w, u, o
  <2>6. (x + 1) - v = (x - v) + 1 /\ (y + c) - w = (y - w) + c /\ (x + 1) - v # x - v
    BY <2>4
  <2>. QED  BY <2>2, <2>3, <2>5, <2>6, Zenon DEF u
<1>6. CASE t = s
  BY <1>3, <1>6, Zenon DEF Made
<1>7. CASE Good(p) /\ Len(p.db) < room /\ t = Longer(s, Append(p.db, EndLine), p.count)
  <2>1. p.count \in Nat
    BY ParsedType DEF InParse
  <2>. QED  BY <1>2, <1>3, <1>5, <1>7, <2>1, Zenon DEF Made
<1>8. CASE /\ ~(Good(p) /\ Len(p.db) < room)
           /\ \E format \in Formats :
                t = Longer(s, Block(s.db, n, format) \o <<Line("err", Empty), EndLine>>, 0)
  <2>1. PICK format \in Formats :
          t = Longer(s, Block(s.db, n, format) \o <<Line("err", Empty), EndLine>>, 0)
    BY <1>8
  <2>2. 0 \in Nat
    OBVIOUS
  <2>. QED  BY <1>1, <1>2, <1>3, <1>5, <1>8, <2>1, <2>2, Zenon DEF Made
<1>. QED  BY <1>6, <1>7, <1>8, Zenon DEF Made
-----------------------------------------------------------------------------
(***************************************************************************)
(* The inductive invariant of FontCache.  NamesFresh alone is not          *)
(* inductive: what a start ends with depends on what was on the disk, on   *)
(* the lines being whole blocks, on the counts the set began with, and on  *)
(* what the walk has seen so far.                                          *)
(***************************************************************************)
\* The set without the counts that were in its memory.
Own == Less(set, began)

\* Lines that say what they were written from.
Sound(s, from) == Closed(s) /\ Counted(s) /\ FileNames(s) = SrcNames(from)

\* A file that was recorded is not Regular.
OfIrregular(from) == \E n \in Names : from[n] \in Fonts /\ ~Regular(Content[from[n]])

\* The lines of the set are sound, or lack a face that was counted.
SetOK ==
  /\ set \in FontSets /\ began \in Counts
  /\ Own \in FontSets /\ Closed(Own)
  /\ Own.files = Cardinality(SrcNames(src))
  /\ Sound(Own, src) \/ (Short(Own) /\ OfIrregular(src))

CacheFiles == [files : Nat, faces : Nat, db : Seq(Lines), size : Nat, len : Nat,
               src : Sources, began : Counts, done : BOOLEAN]

\* A cache file that is not torn is one that was written to its end; the counts
\* in it are wrong only if it has no face.
FileOK ==
  file # NoFile =>
    /\ file \in CacheFiles /\ file.began \in Unassigned \cup {Zero}
    /\ Less(file, file.began) \in FontSets
    /\ Sound(Less(file, file.began), file.src)
    /\ Less(file, file.began).files = Cardinality(SrcNames(file.src))
    /\ file.faces # 0 => file.began = Zero
    /\ file.size = 1 + Len(file.db)
    /\ file.len \in 0 .. file.size
    /\ file.done <=> file.len = file.size

\* The walk that compares the cache with the directory.
CheckOK ==
  pc = "check" =>
    /\ visited \subseteq SrcNames(src)
    /\ file # NoFile /\ file.src = src /\ file.began = began
    /\ calm => visited \subseteq Present /\ todo = Present

\* The walk that reads the font files.
WalkOK ==
  pc = "walk" =>
    /\ SrcNames(src) \subseteq visited
    /\ calm => visited = SrcNames(src) /\ visited \subseteq Present /\ todo = Present

FreshOK ==
  pc \in {"reindex", "index", "save", "saving", "ready"} /\ r = "ok" /\ calm
    => SrcNames(src) = Present

\* Lines that lack a face do not get past fs_build_index, nor do counts that did
\* not begin with zero, if there is a face.
PastIndex == ~Short(Own) /\ (set.faces # 0 => began = Zero)
ShortOK == pc \notin {"walk", "index"} => PastIndex

\* The parts that speak of the walk.
WalksOK == CheckOK /\ WalkOK /\ FreshOK /\ ShortOK

CInv == TypeOK /\ SetOK /\ FileOK /\ WalksOK

LEMMA SourceNames ==
  ASSUME NEW from \in Sources
  PROVE  /\ IsFiniteSet(SrcNames(from)) /\ SrcNames(from) \subseteq Names
         /\ Cardinality(SrcNames(from)) \in 0 .. Cardinality(Names)
<1>1. SrcNames(from) \in SUBSET Names /\ IsFiniteSet(Names)
  BY CacheAssumption DEF SrcNames
<1>2. /\ IsFiniteSet(SrcNames(from)) /\ Cardinality(SrcNames(from)) <= Cardinality(Names)
  BY <1>1, FS_Subset
<1>3. Cardinality(SrcNames(from)) \in Nat /\ Cardinality(Names) \in Nat
  BY <1>1, <1>2, FS_CardinalityType
<1>. QED  BY <1>1, <1>2, <1>3

LEMMA SourceAdded ==
  ASSUME NEW from \in Sources, NEW n \in Names, NEW v \in Fonts \cup {NoFile, Lost}
  PROVE  /\ [from EXCEPT ![n] = v] \in Sources
         /\ SrcNames([from EXCEPT ![n] = v]) =
              IF v = NoFile THEN SrcNames(from) \ {n} ELSE SrcNames(from) \cup {n}
BY DEF Sources, SrcNames

LEMMA LessZero ==
  ASSUME NEW s \in FontSets
  PROVE  Less(s, Zero) = s
<1> DEFINE x == s.files
           y == s.faces
<1>1. x \in Nat /\ y \in Nat /\ s = [db |-> s.db, files |-> x, faces |-> y]
  BY DEF FontSets
<1>2. Less(s, Zero) = [db |-> s.db, files |-> x - 0, faces |-> y - 0]
  BY DEF Less, Zero
<1>. HIDE DEF x, y
<1>3. x - 0 = x /\ y - 0 = y
  BY <1>1
<1>. QED  BY <1>1, <1>2, <1>3, Zenon

LEMMA CountsType ==
  /\ Zero \in Counts
  /\ \A b \in Unassigned \cup {Zero} : b \in Counts
BY CacheAssumption DEF Zero, Counts

\* A new set.
Bare == set \in FontSets /\ began \in Counts /\ Own = NoSet /\ src = Nothing

LEMMA NothingSound ==
  /\ NoSet \in FontSets /\ Nothing \in Sources
  /\ Sound(NoSet, Nothing) /\ ~Short(NoSet)
  /\ SrcNames(Nothing) = {} /\ NoSet.files = Cardinality(SrcNames(Nothing))
<1>1. NoSet \in FontSets /\ Nothing \in Sources
  BY DEF NoSet, FontSets, Nothing, Sources
<1>2. SrcNames(Nothing) = {}
  BY DEF SrcNames, Nothing
<1>3. NoSet.db = << >> /\ NoSet.files = 0 /\ NoSet.faces = 0
  BY DEF NoSet
<1>4. Cardinality({}) = 0
  BY FS_EmptySet
<1>5. /\ ReadLines(NoSet.db).named = FALSE /\ ReadLines(NoSet.db).files = 0
      /\ ReadLines(NoSet.db).names = {} /\ Len(ReadLines(NoSet.db).index) = 0
  BY <1>3, NothingIsRead
<1>6. Sound(NoSet, Nothing) /\ ~Short(NoSet)
  BY <1>2, <1>3, <1>5 DEF Sound, Closed, Counted, FileNames, Short
<1>. QED  BY <1>1, <1>2, <1>3, <1>4, <1>6

LEMMA BareSet ==
  /\ Bare => SetOK /\ ~Short(Own) /\ src \in Sources
  /\ Bare' => SetOK' /\ ~Short(Own)' /\ src' \in Sources
BY NothingSound DEF Bare, SetOK, Sound, Closed, Counted, FileNames, Short

\* The counts of a new set are whatever was in its memory.
LEMMA NewSet ==
  ASSUME NEW b \in Counts
  PROVE  LET s == [db |-> << >>, files |-> b.files, faces |-> b.faces]
         IN  s \in FontSets /\ Less(s, b) = NoSet
<1> DEFINE x == b.files
           y == b.faces
           s == [db |-> << >>, files |-> x, faces |-> y]
<1>1. x \in Nat /\ y \in Nat
  BY DEF Counts
<1>2. s \in FontSets
  BY <1>1 DEF FontSets
<1>3. Less(s, b) = [db |-> << >>, files |-> x - x, faces |-> y - y]
  BY DEF Less
<1>4. x - x = 0 /\ y - y = 0
  <2>. HIDE DEF x, y
  <2>. QED  BY <1>1
<1>. QED  BY <1>2, <1>3, <1>4, Zenon DEF NoSet

\* No set.
LEMMA NothingSet ==
  /\ set = NoSet /\ src = Nothing /\ began = Zero
       => Bare /\ PastIndex /\ set.files = 0 /\ set.faces = 0
  /\ set' = NoSet /\ src' = Nothing /\ began' = Zero
       => Bare' /\ PastIndex' /\ set'.files = 0 /\ set'.faces = 0
<1>1. Less(NoSet, Zero) = NoSet /\ NoSet \in FontSets /\ Zero \in Counts /\ ~Short(NoSet)
  BY LessZero, NothingSound, CountsType
<1>2. NoSet.files = 0 /\ NoSet.faces = 0
  BY DEF NoSet
<1>. QED  BY <1>1, <1>2 DEF Bare, Own, PastIndex

\* Lines that have what was counted are not short of a face.
LEMMA CountedNotShort ==
  ASSUME NEW s \in FontSets, Counted(s) \/ s.faces = 0
  PROVE  ~Short(s)
<1>1. ReadLines(s.db) \in Reads /\ s.faces \in Nat
  BY LinesRead DEF FontSets
<1>2. Len(ReadLines(s.db).index) \in Nat
  BY <1>1 DEF Reads
<1>. QED  BY <1>1, <1>2 DEF Counted, Short

LEMMA SetFrame == SetOK /\ UNCHANGED <<set, src, began>> => SetOK'
BY DEF SetOK, Sound, Own

LEMMA PastFrame == PastIndex /\ UNCHANGED <<set, began>> => PastIndex'
BY DEF PastIndex, Own

LEMMA FileFrame == FileOK /\ UNCHANGED file => FileOK'
BY DEF FileOK, Sound

\* How the counts of the set and of its own lines are related.
LEMMA OwnIs ==
  ASSUME NEW s \in FontSets, NEW b \in Counts
  PROVE  /\ Less(s, b).db = s.db
         /\ s.files = Less(s, b).files + b.files /\ s.faces = Less(s, b).faces + b.faces
<1> DEFINE x == s.files
           y == s.faces
           v == b.files
           w == b.faces
<1>1. x \in Nat /\ y \in Nat /\ v \in Nat /\ w \in Nat
  BY DEF FontSets, Counts
<1>2. Less(s, b).db = s.db /\ Less(s, b).files = x - v /\ Less(s, b).faces = y - w
  BY DEF Less
<1>. HIDE DEF x, y, v, w
<1>3. x = (x - v) + v /\ y = (y - w) + w
  BY <1>1
<1>. QED  BY <1>2, <1>3, Zenon DEF x, y, v, w

\* The type of the set, given the rest.
SetTypes ==
  /\ set.files \in began.files .. began.files + Cardinality(Names)
  /\ set.faces \in Nat /\ set.faces >= began.faces

LEMMA SetType ==
  /\ SetOK /\ src \in Sources => SetTypes
  /\ SetOK' /\ src' \in Sources => SetTypes'
<1>1. ASSUME NEW s \in FontSets, NEW b \in Counts, Less(s, b) \in FontSets,
             NEW from \in Sources, Less(s, b).files = Cardinality(SrcNames(from))
      PROVE  /\ s.files \in b.files .. b.files + Cardinality(Names)
             /\ s.faces \in Nat /\ s.faces >= b.faces
  <2> DEFINE o == Less(s, b)
  <2>1. s.files = o.files + b.files /\ s.faces = o.faces + b.faces
    BY OwnIs
  <2>2. /\ o.files \in Nat /\ o.faces \in Nat /\ b.files \in Nat /\ b.faces \in Nat
        /\ s.files \in Nat /\ s.faces \in Nat
    BY <1>1 DEF FontSets, Counts
  <2>3. o.files \in 0 .. Cardinality(Names)
    BY <1>1, SourceNames
  <2>4. Cardinality(Names) \in Nat
    BY CacheAssumption, FS_CardinalityType
  <2>. HIDE DEF o
  <2>. QED  BY <2>1, <2>2, <2>3, <2>4
<1>. QED  BY <1>1 DEF SetOK, Own, SetTypes

\* Lines that fs_build_index takes.
LEMMA BuildsPast == SetOK /\ Builds(set) => PastIndex
<1>. SUFFICES ASSUME SetOK, Builds(set) PROVE PastIndex
  OBVIOUS
<1> DEFINE x == Len(ReadLines(set.db).index)
           m == ReadLines(set.db).files
<1>1. /\ set \in FontSets /\ began \in Counts /\ Own \in FontSets
      /\ Counted(Own) \/ Short(Own)
  BY DEF SetOK, Sound
<1>2. /\ Own.db = set.db
      /\ set.files = Own.files + began.files /\ set.faces = Own.faces + began.faces
  BY <1>1, OwnIs DEF Own
<1>3. /\ Own.files \in Nat /\ Own.faces \in Nat /\ began.files \in Nat /\ began.faces \in Nat
      /\ began = [files |-> began.files, faces |-> began.faces]
  BY <1>1 DEF FontSets, Counts
<1>4. set.faces = 0 \/ (x = set.faces /\ m = set.files)
  BY DEF Builds, Counted
<1>5. (x = Own.faces /\ m = Own.files) \/ x < Own.faces
  BY <1>1, <1>2 DEF Counted, Short
<1>6. Short(Own) => x < Own.faces
  BY <1>2 DEF Short
<1>7. x \in Nat
  <2>1. ReadLines(set.db) \in Reads
    BY <1>1, LinesRead DEF FontSets
  <2>. QED  BY <2>1 DEF Reads
<1>. HIDE DEF x, m
<1>8. ~Short(Own)
  BY <1>2, <1>3, <1>4, <1>6, <1>7
<1>9. ASSUME set.faces # 0
      PROVE  began = Zero
  <2>1. began.files = 0 /\ began.faces = 0
    BY <1>2, <1>3, <1>4, <1>5, <1>7, <1>9
  <2>. QED  BY <1>3, <2>1, Zenon DEF Zero
<1>. QED  BY <1>8, <1>9 DEF PastIndex

-----------------------------------------------------------------------------
(***************************************************************************)
(* One lemma per action, or for actions that do the same to the invariant. *)
(***************************************************************************)
LEMMA InitCInv == Init => CInv
<1>. SUFFICES ASSUME Init PROVE CInv
  OBVIOUS
<1>1. SetOK /\ src \in Sources /\ PastIndex
  BY NothingSet, BareSet DEF Init
<1>2. TypeOK
  BY <1>1, SetType DEF Init, TypeOK, SetTypes
<1>3. FileOK /\ WalksOK
  BY <1>1 DEF Init, FileOK, WalksOK, CheckOK, WalkOK, FreshOK, ShortOK
<1>. QED  BY <1>1, <1>2, <1>3 DEF CInv

\* The set is freed.
LEMMA FreedKeeps ==
  ASSUME CInv, UNCHANGED <<dir, file>>, calm' \in BOOLEAN,
         set' = NoSet, src' = Nothing, began' = Zero, EndWalk,
         r' \in {"none", "unrecognized", "error", "oom", "cancelled"},
         pc' \in {"scan", "ready", "off"}
  PROVE  CInv'
<1>1. TypeOK /\ FileOK /\ todo' = {} /\ visited' = {}
  BY DEF CInv, EndWalk
<1>2. SetOK' /\ src' \in Sources /\ PastIndex'
  BY NothingSet, BareSet
<1>3. TypeOK'
  BY <1>1, <1>2, SetType DEF TypeOK, SetTypes
<1>4. FileOK'
  BY <1>1, FileFrame
<1>5. WalksOK'
  BY <1>1, <1>2 DEF WalksOK, CheckOK, WalkOK, FreshOK, ShortOK
<1>. QED  BY <1>2, <1>3, <1>4, <1>5 DEF CInv

\* fl_scan_fonts gives up.
LEMMA FailKeeps ==
  ASSUME CInv, UNCHANGED <<dir, file>>, calm' \in BOOLEAN,
         NEW why \in {"unrecognized", "error", "oom", "cancelled"},
         NEW next \in {"scan", "ready"}, Fail(why, next)
  PROVE  CInv'
BY FreedKeeps DEF Fail

\* The program ends.
LEMMA StopKeeps ==
  ASSUME CInv, Stop \/ WildPointer
  PROVE  CInv'
<1>1. Ends /\ calm \in BOOLEAN
  BY DEF CInv, TypeOK, Stop, WildPointer
<1>. QED  BY <1>1, FreedKeeps DEF Ends

\* What the user does.
LEMMA UserKeeps ==
  ASSUME CInv, (\E n \in Names : Edit(n)) \/ DeleteCache \/ Start \/ Retry
  PROVE  CInv'
<1>1. /\ TypeOK /\ SetOK /\ FileOK /\ WalksOK
      /\ UNCHANGED <<set, r, src, began, todo, visited>>
      /\ file' = file \/ file' = NoFile
  BY DEF CInv, Edit, DeleteCache, Start, Retry, walk, origin
<1>2. SetOK' /\ FileOK' /\ (PastIndex => PastIndex')
  <2>1. FileOK'
    BY <1>1, FileFrame DEF FileOK
  <2>. QED  BY <1>1, <2>1, SetFrame, PastFrame
<1>3. ASSUME NEW n \in Names, Edit(n)
      PROVE  TypeOK' /\ WalksOK'
  <2>1. /\ pc' = pc /\ calm' = FALSE /\ file' = file
        /\ \E f \in Fonts \cup {NoFile} : dir' = [dir EXCEPT ![n] = f]
    BY <1>3 DEF Edit
  <2>2. dir' \in [Names -> Fonts \cup {NoFile}]
    BY <1>1, <2>1 DEF TypeOK
  <2>3. TypeOK'
    BY <1>1, <2>1, <2>2 DEF TypeOK
  <2>4. WalksOK'
    BY <1>1, <1>2, <2>1 DEF WalksOK, CheckOK, WalkOK, FreshOK, ShortOK
  <2>. QED  BY <2>3, <2>4
<1>4. CASE DeleteCache
  <2>1. pc \in {"off", "ready"} /\ pc' = pc /\ calm' = calm /\ dir' = dir /\ file' = NoFile
    BY <1>4 DEF DeleteCache
  <2>2. TypeOK'
    BY <1>1, <2>1 DEF TypeOK
  <2>3. WalksOK'
    BY <1>1, <1>2, <2>1 DEF WalksOK, CheckOK, WalkOK, FreshOK, ShortOK, Present
  <2>. QED  BY <1>2, <2>2, <2>3 DEF CInv
<1>5. CASE Start \/ Retry
  <2>1. /\ pc \in {"off", "ready"} /\ pc' \in {"load", "scan"}
        /\ calm' = calm /\ dir' = dir /\ file' = file
    BY <1>5 DEF Start, Retry
  <2>2. TypeOK'
    BY <1>1, <2>1 DEF TypeOK
  <2>3. WalksOK'
    BY <1>1, <1>2, <2>1 DEF WalksOK, CheckOK, WalkOK, FreshOK, ShortOK
  <2>. QED  BY <1>2, <2>2, <2>3 DEF CInv
<1>. QED  BY <1>2, <1>3, <1>4, <1>5 DEF CInv

\* The cache file comes back as it was written, or not at all.
LEMMA LoadCacheKeeps ==
  ASSUME CInv, LoadCache
  PROVE  CInv'
<1>1. CASE calm' \in BOOLEAN /\ \E why \in {"unrecognized", "error"} : Fail(why, "scan")
  BY <1>1, FailKeeps DEF LoadCache
<1>2. CASE /\ Whole
           /\ set' = [db |-> SubSeq(file.db, 1, file.len - 1),
                      files |-> file.files, faces |-> file.faces]
           /\ src' = file.src /\ began' = file.began
           /\ r' = "ok"
           /\ BeginWalk
           /\ calm' = TRUE
           /\ pc' = "check"
  <2>1. /\ TypeOK /\ FileOK /\ file # NoFile /\ file.len = file.size
        /\ UNCHANGED <<dir, file>>
    BY <1>2 DEF CInv, Whole, LoadCache
  <2>2. /\ file \in CacheFiles /\ file.began \in Unassigned \cup {Zero}
        /\ Less(file, file.began) \in FontSets
        /\ Sound(Less(file, file.began), file.src)
        /\ Less(file, file.began).files = Cardinality(SrcNames(file.src))
        /\ file.faces # 0 => file.began = Zero
        /\ file.size = 1 + Len(file.db)
    BY <2>1 DEF FileOK
  <2>3. SubSeq(file.db, 1, file.len - 1) = file.db
    <3>1. file.db \in Seq(Lines) /\ Len(file.db) \in Nat /\ file.len - 1 = Len(file.db)
      BY <2>1, <2>2 DEF CacheFiles
    <3>. QED  BY <3>1, SubSeqFull
  <2>4. SetOK' /\ src' \in Sources /\ PastIndex'
    <3> DEFINE t == [db |-> file.db, files |-> file.files, faces |-> file.faces]
               o == Less(file, file.began)
    <3>1. set' = t /\ src' = file.src
      BY <1>2, <2>3
    <3>2. /\ t \in FontSets /\ file.src \in Sources /\ file.began \in Counts
          /\ t.faces = file.faces
      BY <2>2 DEF FontSets, CacheFiles
    <3>3. Own' = o
      <4>1. t.db = file.db /\ t.files = file.files /\ t.faces = file.faces
        OBVIOUS
      <4>. HIDE DEF t
      <4>2. Less(t, file.began) = o
        BY <4>1, Zenon DEF Less
      <4>. QED  BY <1>2, <3>1, <4>2, Zenon DEF Own
    <3>. HIDE DEF t, o
    <3>4. o \in FontSets /\ Sound(o, file.src) /\ o.files = Cardinality(SrcNames(file.src))
      BY <2>2 DEF o
    <3>5. ~Short(o)
      BY <3>4, CountedNotShort DEF Sound
    <3>6. PastIndex'
      BY <1>2, <2>2, <3>1, <3>2, <3>3, <3>5 DEF PastIndex
    <3>7. SetOK'
      BY <1>2, <3>1, <3>2, <3>3, <3>4 DEF SetOK, Sound
    <3>. QED  BY <3>1, <3>2, <3>6, <3>7
  <2>5. todo' = Present /\ visited' = {} /\ Present \subseteq Names /\ Present' = Present
    BY <1>2, <2>1 DEF BeginWalk, Present
  <2>6. TypeOK'
    BY <1>2, <2>1, <2>2, <2>4, <2>5, SetType DEF TypeOK, SetTypes
  <2>7. FileOK'
    BY <2>1, FileFrame
  <2>8. WalksOK'
    BY <1>2, <2>1, <2>4, <2>5 DEF WalksOK, CheckOK, WalkOK, FreshOK, ShortOK
  <2>. QED  BY <2>4, <2>6, <2>7, <2>8 DEF CInv
<1>. QED  BY <1>1, <1>2 DEF LoadCache

\* fl_validate_cache_font_callback
LEMMA CheckFileKeeps ==
  ASSUME CInv, NEW n \in Names, CheckFile(n)
  PROVE  CInv'
<1>1. CASE Fail("unrecognized", "scan")
  BY <1>1, FailKeeps DEF CheckFile, CInv, TypeOK
<1>2. CASE HasFile(set, n) /\ Visit(n) /\ UNCHANGED <<pc, set, r, origin>>
  <2>1. /\ TypeOK /\ SetOK /\ FileOK /\ WalksOK /\ pc = "check"
        /\ UNCHANGED <<dir, file, calm, set, r, src, began, pc>>
    BY <1>2 DEF CInv, CheckFile, origin
  <2>2. /\ n \in Present /\ visited' = visited \cup {n} /\ todo' = todo
        /\ Present' = Present
    BY <1>2, <2>1 DEF Visit, Present
  <2>3. n \in SrcNames(src)
    <3>1. FileNames(set) = FileNames(Own)
      BY DEF FileNames, Own, Less
    <3>2. FileNames(Own) = SrcNames(src)
      BY <2>1 DEF SetOK, Sound, WalksOK, ShortOK, PastIndex
    <3>. QED  BY <1>2, <3>1, <3>2 DEF HasFile
  <2>4. TypeOK'
    BY <2>1, <2>2 DEF TypeOK
  <2>5. SetOK' /\ FileOK' /\ (PastIndex => PastIndex')
    BY <2>1, SetFrame, FileFrame, PastFrame
  <2>6. WalksOK'
    BY <2>1, <2>2, <2>3, <2>5 DEF WalksOK, CheckOK, WalkOK, FreshOK, ShortOK
  <2>. QED  BY <2>4, <2>5, <2>6 DEF CInv
<1>. QED  BY <1>1, <1>2 DEF CheckFile

\* A walk that met every file, and a cache of as many: they are the same files.
LEMMA CheckEndsKeeps ==
  ASSUME CInv, CheckEnds
  PROVE  CInv'
<1>0. /\ TypeOK /\ SetOK /\ FileOK /\ WalksOK /\ pc = "check"
      /\ UNCHANGED <<dir, file>> /\ calm' = (calm /\ WalkOver)
  BY DEF CInv, CheckEnds
<1>1. calm' \in BOOLEAN
  <2>1. WalkOver \in BOOLEAN /\ calm \in BOOLEAN
    BY <1>0 DEF TypeOK, WalkOver
  <2>. QED  BY <1>0, <2>1
<1>2. CASE Fail("unrecognized", "scan")
  BY <1>0, <1>1, <1>2, FailKeeps
<1>3. CASE /\ Cardinality(visited) = set.files
           /\ pc' = "reindex" /\ EndWalk /\ UNCHANGED <<set, r, origin>>
  <2>1. visited \subseteq SrcNames(src) /\ IsFiniteSet(SrcNames(src))
    BY <1>0, SourceNames DEF WalksOK, CheckOK, TypeOK
  <2>2. visited = SrcNames(src)
    <3> DEFINE c == Cardinality(visited)
               k == Cardinality(SrcNames(src))
    <3>1. c <= k /\ (c = k => visited = SrcNames(src)) /\ c \in Nat /\ k \in Nat
      BY <2>1, FS_Subset, FS_CardinalityType
    <3>2. /\ Own.files = k /\ set.files = Own.files + began.files
          /\ began.files \in Nat
      BY <1>0, OwnIs DEF SetOK, Own, Counts
    <3>. HIDE DEF c, k
    <3>. QED  BY <1>3, <3>1, <3>2 DEF c
  <2>3. calm' => SrcNames(src) = Present
    BY <1>0, <2>2 DEF WalksOK, CheckOK, WalkOver
  <2>4. UNCHANGED <<set, r, src, began>> /\ todo' = {} /\ visited' = {} /\ pc' = "reindex"
    BY <1>3 DEF origin, EndWalk
  <2>5. TypeOK'
    BY <1>0, <1>1, <2>4 DEF TypeOK
  <2>6. SetOK' /\ FileOK' /\ PastIndex'
    BY <1>0, <2>4, SetFrame, FileFrame, PastFrame DEF WalksOK, ShortOK
  <2>7. WalksOK'
    BY <1>0, <2>3, <2>4, <2>6 DEF WalksOK, CheckOK, WalkOK, FreshOK, ShortOK, Present
  <2>. QED  BY <2>5, <2>6, <2>7 DEF CInv
<1>. QED  BY <1>2, <1>3 DEF CheckEnds

LEMMA BeginScanKeeps ==
  ASSUME CInv, BeginScan
  PROVE  CInv'
<1>1. CASE calm' = FALSE /\ Fail("error", "ready")
  BY <1>1, FailKeeps DEF BeginScan
<1>2. CASE /\ began' \in Unassigned
           /\ set' = [db |-> << >>, files |-> began'.files, faces |-> began'.faces]
           /\ r' = "ok" /\ src' = Nothing
           /\ BeginWalk
           /\ calm' = TRUE
           /\ pc' = "walk"
  <2>1. /\ TypeOK /\ FileOK /\ UNCHANGED <<dir, file>>
        /\ todo' = Present /\ visited' = {} /\ Present \subseteq Names
        /\ Present' = Present
    BY <1>2 DEF CInv, BeginScan, BeginWalk, Present
  <2>2. SetOK' /\ src' \in Sources
    <3>1. began' \in Counts
      BY <1>2, CountsType
    <3>2. set' \in FontSets /\ Less(set', began') = NoSet
      BY <1>2, <3>1, NewSet
    <3>. QED  BY <1>2, <3>1, <3>2, BareSet DEF Bare, Own
  <2>3. TypeOK'
    BY <1>2, <2>1, <2>2, SetType DEF TypeOK, SetTypes
  <2>4. FileOK'
    BY <2>1, FileFrame
  <2>5. SrcNames(src') = {}
    BY <1>2, NothingSound
  <2>6. WalksOK'
    BY <1>2, <2>1, <2>2, <2>5 DEF WalksOK, CheckOK, WalkOK, FreshOK, ShortOK
  <2>. QED  BY <2>2, <2>3, <2>4, <2>6 DEF CInv
<1>. QED  BY <1>1, <1>2 DEF BeginScan

\* A file the walk meets is new to the set, and its block is whole or absent.
LEMMA ScanFileKeeps ==
  ASSUME CInv, NEW n \in Names, ScanFile(n)
  PROVE  CInv'
<1> DEFINE ff == Content[dir[n]]
           kept(room) == IF set' = set THEN NoFile
                         ELSE IF Roomy(room, set, n, ff) THEN dir[n] ELSE Lost
<1>1. /\ TypeOK /\ SetOK /\ FileOK /\ WalksOK /\ pc = "walk" /\ pc' = "walk"
      /\ UNCHANGED <<dir, file, r, began>>
      /\ n \in Present /\ n \notin visited
      /\ visited' = visited \cup {n} /\ todo' = todo
  BY DEF CInv, ScanFile, Visit
<1>2. dir[n] \in Fonts /\ dir[n] # NoFile /\ Present' = Present
  BY <1>1 DEF Present, TypeOK
<1>3. src \in Sources /\ n \notin SrcNames(src)
  BY <1>1 DEF TypeOK, WalksOK, WalkOK
<1>4. ff \in FontFiles /\ (ff.kind # "ttc" => Len(ff.fonts) = 1)
  BY <1>2, CacheAssumption
<1>5. PICK room \in Nat :
        /\ set' = AddFont(room, set, n, ff)
        /\ src' = [src EXCEPT ![n] = kept(room)]
        /\ calm' = (calm /\ src'[n] = dir[n])
  <2>1. PICK k \in Rooms :
          /\ set' = AddFont(Len(set.db) + k, set, n, ff)
          /\ src' = [src EXCEPT ![n] = kept(Len(set.db) + k)]
          /\ calm' = (calm /\ src'[n] = dir[n])
    BY DEF ScanFile
  <2>2. Len(set.db) + k \in Nat
    <3>1. k \in Nat /\ set.db \in Seq(Lines)
      BY <1>1, CacheAssumption DEF SetOK, FontSets
    <3>. QED  BY <3>1
  <2>. HIDE DEF kept
  <2>. QED  BY <2>1, <2>2
<1> DEFINE entry == kept(room)
<1>6. src' = [src EXCEPT ![n] = entry] /\ src'[n] = entry
  <2>1. src' = [src EXCEPT ![n] = entry]
    BY <1>5
  <2>. HIDE DEF entry
  <2>. QED  BY <1>3, <2>1 DEF Sources
<1>7. /\ entry \in Fonts \cup {NoFile, Lost}
      /\ entry = NoFile <=> set' = set
      /\ set' # set /\ Roomy(room, set, n, ff) => entry = dir[n]
  <2>1. NoFile # Lost
    BY CacheAssumption
  <2>. QED  BY <1>2, <2>1, Zenon
<1>. HIDE DEF entry, ff
<1>8. /\ set \in FontSets /\ began \in Counts /\ Own \in FontSets /\ Closed(Own)
      /\ Counted(Own) \/ Short(Own)
      /\ Own.files = Cardinality(SrcNames(src))
      /\ Sound(Own, src) \/ (Short(Own) /\ OfIrregular(src))
  BY <1>1 DEF SetOK, Sound
<1>9. Made(set, n, room, ff, set')
  BY <1>4, <1>5, <1>8, FontMade
<1>10. /\ Made(Own, n, room, ff, Own')
       /\ Roomy(room, Own, n, ff) <=> Roomy(room, set, n, ff)
       /\ Own' = Own => set' = set
  BY <1>1, <1>4, <1>8, <1>9, MadeLess DEF Own
<1>11. Blocked(Own, n, room, ff, Own')
  <2> DEFINE o == Own
             t == Own'
  <2>1. Made(o, n, room, ff, t) /\ o \in FontSets /\ Closed(o) /\ (Counted(o) \/ Short(o))
    BY <1>8, <1>10
  <2>. HIDE DEF o, t
  <2>2. Blocked(o, n, room, ff, t)
    BY <1>4, <2>1, MadeAdds
  <2>. QED  BY <2>2 DEF o, t
<1>12. set' = set => Own' = Own
  BY <1>1 DEF Own
<1>13. /\ src' \in Sources
       /\ SrcNames(src') = IF set' = set THEN SrcNames(src) ELSE SrcNames(src) \cup {n}
  <2>1. /\ [src EXCEPT ![n] = entry] \in Sources
        /\ SrcNames([src EXCEPT ![n] = entry]) =
             IF entry = NoFile THEN SrcNames(src) \ {n} ELSE SrcNames(src) \cup {n}
    BY <1>3, <1>7, SourceAdded
  <2>2. SrcNames(src) \ {n} = SrcNames(src)
    BY <1>3
  <2>. QED  BY <1>6, <1>7, <2>1, <2>2
<1>14. OfIrregular(src) => OfIrregular(src')
  <2>. SUFFICES ASSUME OfIrregular(src) PROVE OfIrregular(src')
    OBVIOUS
  <2>1. PICK m \in Names : src[m] \in Fonts /\ ~Regular(Content[src[m]])
    BY DEF OfIrregular
  <2>2. m # n
    BY <1>3, <2>1, CacheAssumption DEF SrcNames
  <2>3. src'[m] = src[m]
    BY <1>3, <1>6, <2>2 DEF Sources
  <2>. QED  BY <2>1, <2>3, Zenon DEF OfIrregular
<1>15. SetOK'
  <2>0. began' \in Counts
    BY <1>1, <1>8
  <2>1. CASE set' = set
    <3>1. SrcNames(src') = SrcNames(src) /\ Own' = Own
      BY <1>12, <1>13, <2>1
    <3>. QED  BY <1>8, <1>14, <2>0, <2>1, <3>1 DEF SetOK, Sound
  <2>2. CASE set' # set
    <3>0. /\ Own' \in FontSets /\ Closed(Own)' /\ Own'.files = Own.files + 1
          /\ \/ Counted(Own) /\ Counted(Own)' /\ FileNames(Own)' = FileNames(Own) \cup {n}
             \/ Short(Own)' /\ (Short(Own) \/ (~Regular(ff) /\ Roomy(room, Own, n, ff)))
      <4> DEFINE o == Own
                 t == Own'
      <4>1. Blocked(o, n, room, ff, t) /\ t # o
        BY <1>10, <1>11, <2>2
      <4>2. /\ t \in FontSets /\ Closed(t) /\ t.files = o.files + 1
            /\ \/ Counted(o) /\ Counted(t) /\ FileNames(t) = FileNames(o) \cup {n}
               \/ Short(t) /\ (Short(o) \/ (~Regular(ff) /\ Roomy(room, o, n, ff)))
        <5>. HIDE DEF o, t
        <5>. QED  BY <4>1 DEF Blocked
      <4>. QED  BY <4>2 DEF Closed, Counted, FileNames, Short
    <3>1. IsFiniteSet(SrcNames(src))
      BY <1>3, SourceNames
    <3>2. Cardinality(SrcNames(src) \cup {n}) = Cardinality(SrcNames(src)) + 1
      BY <1>3, <3>1, FS_AddElement
    <3>3. SrcNames(src') = SrcNames(src) \cup {n}
      BY <1>13, <2>2
    <3>4. Own'.files = Cardinality(SrcNames(src'))
      BY <1>8, <3>0, <3>2, <3>3
    <3>5. set' \in FontSets
      <4>1. \A s : s = set' => \/ s = set
                               \/ \E db \in Seq(Lines), c \in Nat : s = Longer(set, db, c)
        <5>1. ASSUME Good(Parsed(room, set, n, ff))
              PROVE  /\ Append(Parsed(room, set, n, ff).db, EndLine) \in Seq(Lines)
                     /\ Parsed(room, set, n, ff).count \in Nat
          <6>1. Parsed(room, set, n, ff) \in InParse
            BY <1>4, <1>8, ParsedType
          <6>2. EndLine \in Lines
            BY DEF EndLine, Line, Lines, Texts
          <6>. QED  BY <6>1, <6>2 DEF InParse
        <5>2. ASSUME NEW format \in Formats
              PROVE  Block(set.db, n, format) \o <<Line("err", Empty), EndLine>> \in Seq(Lines)
          <6>1. Block(set.db, n, format) \in Seq(Lines)
            BY <1>8, BlockType DEF FontSets
          <6>2. Line("err", Empty) \in Lines /\ EndLine \in Lines
            BY DEF Line, Lines, Texts, EndLine
          <6>. QED  BY <6>1, <6>2
        <5>3. 0 \in Nat
          OBVIOUS
        <5>. QED  BY <1>9, <5>1, <5>2, <5>3, Zenon DEF Made
      <4>2. PICK db \in Seq(Lines), c \in Nat : set' = Longer(set, db, c)
        BY <2>2, <4>1
      <4>. QED  BY <1>8, <4>2 DEF Longer, FontSets
    <3>6. CASE /\ Counted(Own) /\ Counted(Own)'
               /\ FileNames(Own)' = FileNames(Own) \cup {n}
      <4>1. Sound(Own, src)
        BY <1>8, <3>6, CountedNotShort
      <4>2. FileNames(Own)' = SrcNames(src')
        BY <3>3, <3>6, <4>1 DEF Sound
      <4>. QED  BY <2>0, <3>0, <3>4, <3>5, <3>6, <4>2 DEF SetOK, Sound
    <3>7. CASE Short(Own)' /\ (Short(Own) \/ (~Regular(ff) /\ Roomy(room, Own, n, ff)))
      <4>1. OfIrregular(src')
        <5>1. CASE Short(Own)
          <6>1. OfIrregular(src)
            BY <1>8, <5>1, CountedNotShort DEF Sound
          <6>. QED  BY <1>14, <6>1
        <5>2. CASE ~Regular(ff) /\ Roomy(room, Own, n, ff)
          <6>1. src'[n] = dir[n] /\ src'[n] \in Fonts
            BY <1>2, <1>6, <1>7, <1>10, <2>2, <5>2
          <6>2. ~Regular(Content[src'[n]])
            BY <5>2, <6>1 DEF ff
          <6>. QED  BY <6>1, <6>2, Zenon DEF OfIrregular
        <5>. QED  BY <3>7, <5>1, <5>2
      <4>. QED  BY <2>0, <3>0, <3>4, <3>5, <3>7, <4>1 DEF SetOK
    <3>. QED  BY <3>0, <3>6, <3>7
  <2>. QED  BY <2>1, <2>2
<1>16. calm' \in BOOLEAN /\ (calm' => calm /\ set' # set)
  BY <1>1, <1>2, <1>5, <1>6, <1>7 DEF TypeOK
<1>17. TypeOK'
  <2>1. SetTypes'
    BY <1>13, <1>15, SetType
  <2>2. visited' \subseteq Names /\ todo' \subseteq Names
    BY <1>1 DEF TypeOK
  <2>. QED  BY <1>1, <1>13, <1>16, <2>1, <2>2 DEF TypeOK, SetTypes
<1>18. FileOK'
  BY <1>1, FileFrame
<1>19. WalksOK'
  <2>1. SrcNames(src') \subseteq visited'
    BY <1>1, <1>13 DEF WalksOK, WalkOK
  <2>2. calm' => visited' = SrcNames(src') /\ visited' \subseteq Present /\ todo' = Present
    BY <1>1, <1>13, <1>16 DEF WalksOK, WalkOK
  <2>. QED  BY <1>1, <1>2, <2>1, <2>2 DEF WalksOK, CheckOK, WalkOK, FreshOK, ShortOK
<1>. QED  BY <1>15, <1>17, <1>18, <1>19 DEF CInv

LEMMA SkipFileKeeps ==
  ASSUME CInv, NEW n \in Names, SkipFile(n)
  PROVE  CInv'
<1>1. /\ TypeOK /\ SetOK /\ FileOK /\ WalksOK /\ pc = "walk" /\ calm' = FALSE
      /\ visited' = visited \cup {n} /\ todo' = todo
      /\ UNCHANGED <<dir, file, pc, set, r, src, began>>
  BY DEF CInv, SkipFile, Visit, origin
<1>2. TypeOK'
  BY <1>1 DEF TypeOK
<1>3. SetOK' /\ FileOK'
  BY <1>1, SetFrame, FileFrame
<1>4. WalksOK'
  BY <1>1 DEF WalksOK, CheckOK, WalkOK, FreshOK, ShortOK
<1>. QED  BY <1>2, <1>3, <1>4 DEF CInv

\* A walk that went through leaves the set with the files that are there.
LEMMA ScanEndsKeeps ==
  ASSUME CInv, ScanEnds
  PROVE  CInv'
<1>1. /\ TypeOK /\ SetOK /\ FileOK /\ WalksOK /\ pc = "walk" /\ pc' = "index"
      /\ calm' = (calm /\ WalkOver) /\ todo' = {} /\ visited' = {}
      /\ UNCHANGED <<dir, file, set, r, src, began>>
  BY DEF CInv, ScanEnds, EndWalk, origin
<1>2. calm' \in BOOLEAN
  <2>1. WalkOver \in BOOLEAN /\ calm \in BOOLEAN
    BY <1>1 DEF TypeOK, WalkOver
  <2>. QED  BY <1>1, <2>1
<1>3. calm' => SrcNames(src) = Present
  BY <1>1 DEF WalksOK, WalkOK, WalkOver
<1>4. TypeOK'
  BY <1>1, <1>2 DEF TypeOK
<1>5. SetOK' /\ FileOK'
  BY <1>1, SetFrame, FileFrame
<1>6. WalksOK'
  BY <1>1, <1>3 DEF WalksOK, CheckOK, WalkOK, FreshOK, ShortOK, Present
<1>. QED  BY <1>4, <1>5, <1>6 DEF CInv

LEMMA WalkFailsKeeps ==
  ASSUME CInv, WalkFails
  PROVE  CInv'
BY FailKeeps DEF WalkFails

\* fs_build_index, and what the caller does next.
LEMMA IndexKeeps ==
  ASSUME CInv, Index
  PROVE  CInv'
<1>1. /\ TypeOK /\ SetOK /\ FileOK /\ WalksOK /\ pc \in {"reindex", "index"}
      /\ UNCHANGED <<dir, file>>
  BY DEF CInv, Index
<1>2. CASE BuildFails /\ calm' \in BOOLEAN
  BY <1>1, <1>2, FailKeeps DEF BuildFails
<1>3. CASE /\ Builds(set)
           /\ pc' = IF pc = "index" THEN "save"
                    ELSE IF set.faces = 0 THEN "scan" ELSE "ready"
           /\ UNCHANGED <<set, r, origin, walk, calm>>
  <2>1. /\ pc' \in {"save", "scan", "ready"}
        /\ UNCHANGED <<set, r, src, began, todo, visited, calm>>
    BY <1>3 DEF origin, walk
  <2>2. TypeOK'
    BY <1>1, <2>1 DEF TypeOK
  <2>3. SetOK' /\ FileOK'
    BY <1>1, <2>1, SetFrame, FileFrame
  <2>4. PastIndex'
    BY <1>1, <1>3, <2>1, BuildsPast, PastFrame
  <2>5. WalksOK'
    BY <1>1, <2>1, <2>4 DEF WalksOK, CheckOK, WalkOK, FreshOK, ShortOK, Present
  <2>. QED  BY <2>2, <2>3, <2>5 DEF CInv
<1>. QED  BY <1>1, <1>2, <1>3 DEF Index, TypeOK

\* fs_cache_dump: whatever part of the file reaches the disk.
LEMMA SaveKeeps ==
  ASSUME CInv, OpenCache \/ WriteCache
  PROVE  CInv'
<1>1. /\ TypeOK /\ SetOK /\ FileOK /\ WalksOK
      /\ UNCHANGED <<dir, set, r, src, began, todo, visited, calm>>
      /\ pc \in {"save", "saving"} /\ pc' \in {"saving", "ready"}
      /\ \/ file' \in {file, NoFile}
         \/ \E len \in {0, Len(set.db), 1 + Len(set.db)} : file' = Dump(len)
  BY DEF CInv, OpenCache, WriteCache, walk, origin
<1>2. SetOK' /\ PastIndex /\ PastIndex'
  BY <1>1, SetFrame, PastFrame DEF WalksOK, ShortOK
<1>3. WalksOK'
  BY <1>1, <1>2 DEF WalksOK, CheckOK, WalkOK, FreshOK, ShortOK, Present
<1>4. CASE file' \in {file, NoFile}
  <2>1. FileOK'
    BY <1>1, <1>4, FileFrame DEF FileOK
  <2>2. TypeOK'
    BY <1>1, <1>4 DEF TypeOK
  <2>. QED  BY <1>2, <1>3, <2>1, <2>2 DEF CInv
<1>5. ASSUME NEW len \in {0, Len(set.db), 1 + Len(set.db)}, file' = Dump(len)
      PROVE  CInv'
  <2> DEFINE size == 1 + Len(set.db)
             done == len = size
             f == Dump(len)
  <2>1. /\ set.files \in Nat /\ set.faces \in Nat /\ set.db \in Seq(Lines)
        /\ Len(set.db) \in Nat /\ src \in Sources
        /\ began \in Counts /\ began \in Unassigned \cup {Zero}
        /\ Own \in FontSets /\ Sound(Own, src) /\ Own.files = Cardinality(SrcNames(src))
        /\ set.faces # 0 => began = Zero
    BY <1>1, <1>2 DEF SetOK, FontSets, TypeOK, PastIndex
  <2>2. /\ size \in Nat /\ len \in 0 .. size /\ len \in Nat
        /\ done \in BOOLEAN /\ (done <=> len = size)
    BY <2>1
  <2>3. f = [files |-> set.files, faces |-> set.faces, db |-> set.db,
             size |-> size, len |-> len, src |-> src, began |-> began, done |-> done]
    BY DEF Dump
  <2>4. size = 1 + Len(set.db)
    OBVIOUS
  <2>. HIDE DEF size, done, f
  <2>5. /\ f \in CacheFiles /\ f.db = set.db /\ f.files = set.files
        /\ f.faces = set.faces /\ f.began = began
        /\ f.src = src /\ f.size = size /\ f.len = len
        /\ f.done <=> len = size
    BY <2>1, <2>2, <2>3 DEF CacheFiles
  <2>6. file' = f
    BY <1>5 DEF f
  <2>7. Less(f, f.began) = Own
    BY <2>5, Zenon DEF Less, Own
  <2>8. FileOK'
    <3>1. /\ f \in CacheFiles /\ f.began \in Unassigned \cup {Zero}
          /\ Less(f, f.began) \in FontSets
          /\ Sound(Less(f, f.began), f.src)
          /\ Less(f, f.began).files = Cardinality(SrcNames(f.src))
          /\ f.faces # 0 => f.began = Zero
          /\ f.size = 1 + Len(f.db)
          /\ f.len \in 0 .. f.size
          /\ f.done <=> f.len = f.size
      BY <2>1, <2>2, <2>4, <2>5, <2>7
    <3>. QED  BY <2>6, <3>1 DEF FileOK, Sound
  <2>9. file'.len \in 0 .. 1 + Len(file'.db) /\ file'.src \in Sources
    BY <2>1, <2>2, <2>4, <2>5, <2>6
  <2>10. TypeOK'
    BY <1>1, <2>9 DEF TypeOK
  <2>. QED  BY <1>2, <1>3, <2>8, <2>10 DEF CInv
<1>. QED  BY <1>1, <1>4, <1>5

LEMMA NextCInv == CInv /\ [Next]_vars => CInv'
<1>. SUFFICES ASSUME CInv, [Next]_vars PROVE CInv'
  OBVIOUS
<1>1. CASE UNCHANGED vars
  <2>1. /\ TypeOK /\ SetOK /\ FileOK /\ WalksOK
        /\ UNCHANGED <<dir, file, pc, set, r, src, began, todo, visited, calm>>
    BY <1>1 DEF CInv, vars, walk, origin
  <2>2. SetOK' /\ FileOK' /\ (PastIndex => PastIndex')
    BY <2>1, SetFrame, FileFrame, PastFrame
  <2>3. TypeOK'
    BY <2>1 DEF TypeOK
  <2>4. WalksOK'
    BY <2>1, <2>2 DEF WalksOK, CheckOK, WalkOK, FreshOK, ShortOK, Present
  <2>. QED  BY <2>2, <2>3, <2>4 DEF CInv
<1>2. CASE Program
  BY <1>2, LoadCacheKeeps, CheckFileKeeps, CheckEndsKeeps, BeginScanKeeps, ScanFileKeeps,
     SkipFileKeeps, ScanEndsKeeps, WalkFailsKeeps, IndexKeeps, SaveKeeps
  DEF Program
<1>3. CASE WildPointer \/ Start \/ Retry \/ Stop \/ DeleteCache \/ \E n \in Names : Edit(n)
  BY <1>3, UserKeeps, StopKeeps
<1>. QED  BY <1>1, <1>2, <1>3 DEF Next

\* The invariant holds whatever the user, the disk and the memory do to the program.
THEOREM CacheInvariance == Spec => []CInv
<1>. QED  BY InitCInv, NextCInv, PTL DEF Spec

-----------------------------------------------------------------------------
\* The variables of FontCache have their types in every reachable state: the
\* counts of the set stay above what fs_create left in its memory and the files
\* it adds are at most as many as there are names, and the length of the cache
\* file stays in its range.
THEOREM CacheTypeCorrect == Spec => []TypeOK
<1>1. CInv => TypeOK
  BY DEF CInv
<1>. QED  BY <1>1, CacheInvariance, PTL

\* A cache that fl_cache_matches_font_dir accepts, or a scan that nothing
\* disturbs, leaves the program with exactly the files of the font directory,
\* for any directory, any contents and any history of edits, crashes, torn
\* cache files and full memory before it.
THEOREM NamesAreFresh == Spec => []NamesFresh
<1>1. ASSUME CInv PROVE NamesFresh
  <2>. SUFFICES ASSUME pc = "ready", r = "ok", calm PROVE FileNames(set) = Present
    BY DEF NamesFresh
  <2>1. Sound(Own, src) /\ SrcNames(src) = Present
    BY <1>1 DEF CInv, SetOK, WalksOK, FreshOK, ShortOK, PastIndex
  <2>2. FileNames(Own) = FileNames(set)
    BY DEF FileNames, Own, Less
  <2>. QED  BY <2>1, <2>2 DEF Sound
<1>2. CInv => NamesFresh
  BY <1>1
<1>. QED  BY <1>2, CacheInvariance, PTL

\* Whatever a font file holds, whatever is taken back or does not fit while it is
\* parsed and whatever became of the cache file, fs_build_index finds in the lines
\* of a cache with faces the counts it expects; it finds those of a scan if they
\* began with zero and no file it recorded has an empty name or gives a version
\* in a second name table.
THEOREM CountsOfLines == Spec => []LinesCounted
<1>1. ASSUME CInv PROVE LinesCounted
  <2>1. /\ set \in FontSets
        /\ Sound(Own, src) \/ (Short(Own) /\ OfIrregular(src))
        /\ ShortOK
    BY <1>1 DEF CInv, SetOK, WalksOK
  <2>2. began = Zero => Own = set
    BY <2>1, LessZero DEF Own
  <2>3. pc = "reindex" /\ set.faces # 0 => Counted(set)
    BY <2>1, <2>2 DEF ShortOK, PastIndex, Sound
  <2>4. ASSUME began = Zero,
               \A n \in Names : src[n] \in Fonts => Regular(Content[src[n]])
        PROVE  Counted(set)
    <3>1. ~OfIrregular(src)
      BY <2>4, Zenon DEF OfIrregular
    <3>. QED  BY <2>1, <2>2, <2>4, <3>1 DEF Sound
  <2>. QED  BY <2>3, <2>4, Zenon DEF LinesCounted
<1>. QED  BY <1>1, CacheInvariance, PTL

\* A start that meets no change and no fault gives the cache file up only when
\* there is none, it is torn, it has no face, or the directory holds other files
\* than it names.
THEOREM ScansWhenNeeded == Spec => NoNeedlessScan
<1> DEFINE Step == pc' = "scan" /\ pc \in {"load", "check"} /\ calm'
                     => \/ file = NoFile \/ ~file.done \/ file.faces = 0
                        \/ SrcNames(file.src) # Present
<1>1. ASSUME CInv, [Next]_vars PROVE [Step]_vars
  <2>. SUFFICES ASSUME Next, pc' = "scan", pc \in {"load", "check"}, calm', file # NoFile,
                       file.faces # 0
                PROVE  ~file.done \/ SrcNames(file.src) # Present
    BY <1>1
  <2>0. TypeOK /\ SetOK /\ FileOK /\ WalksOK
    BY <1>1 DEF CInv
  <2>1. \/ LoadCache \/ CheckEnds \/ \E n \in Names : CheckFile(n)
    BY DEF Next, Program, BeginScan, ScanEnds, WalkFails, Index, OpenCache, WriteCache,
           ScanFile, SkipFile, Start, Retry, Stop, WildPointer, Ends, DeleteCache, Edit
  <2>2. CASE LoadCache
    BY <2>0, <2>2 DEF LoadCache, Whole, FileOK
  <2>3. CASE pc = "check"
    <3>1. file.src = src /\ file.began = began /\ began = Zero /\ set \in FontSets
      BY <2>0, <2>3 DEF WalksOK, CheckOK, FileOK, SetOK
    <3>2. Own = set
      BY <3>1, LessZero DEF Own
    <3>3. Sound(set, src) /\ set.files = Cardinality(SrcNames(src))
      BY <2>0, <2>3, <3>2 DEF SetOK, WalksOK, ShortOK, PastIndex
    <3>4. CASE CheckEnds
      <4>1. /\ pc = "check" /\ calm /\ WalkOver
            /\ Cardinality(visited) # set.files
        BY <3>4 DEF CheckEnds
      <4>2. visited = Present
        BY <2>0, <4>1 DEF WalksOK, CheckOK, WalkOver
      <4>. QED  BY <3>1, <3>3, <4>1, <4>2
    <3>5. ASSUME NEW n \in Names, CheckFile(n)
          PROVE  SrcNames(file.src) # Present
      <4>1. ~HasFile(set, n) /\ n \in Present
        BY <3>5 DEF CheckFile
      <4>. QED  BY <3>1, <3>3, <4>1 DEF HasFile, Sound
    <3>. QED  BY <2>1, <2>3, <3>4, <3>5 DEF LoadCache
  <2>. QED  BY <2>1, <2>2, <2>3 DEF CheckEnds, CheckFile
<1>2. NoNeedlessScan <=> [][Step]_vars
  BY DEF NoNeedlessScan
<1>. QED  BY <1>1, <1>2, CacheInvariance, PTL DEF Spec

-----------------------------------------------------------------------------
(***************************************************************************)
(* What the index is: which line adds an entry, and which one changes what *)
(* the entries after it say.                                               *)
(***************************************************************************)
\* A face is an entry with the file, format and version read last.
LEMMA FaceRead ==
  ASSUME NEW d \in Seq(Lines), ReadLines(d).named = TRUE,
         NEW text \in Texts, text # Empty
  PROVE  LET a == ReadLines(d)
             b == ReadLines(Append(d, Line(Empty, text)))
         IN  /\ Append(d, Line(Empty, text)) \in Seq(Lines)
             /\ b.named = TRUE /\ b.last = a.last
             /\ b.index = Append(a.index, <<text, a.last>>)
<1> DEFINE l == Line(Empty, text)
           a == ReadLines(d)
           b == ReadLines(Append(d, l))
           index == Append(a.index, <<text, a.last>>)
<1>1. l \in Lines /\ l.tag = Empty /\ l # EndLine /\ l.text = text
  BY DEF Line, Lines, EndLine
<1>2. a \in Reads /\ b = ReadLine(a, l) /\ a.named = TRUE
  BY <1>1, LinesRead
<1>3. Append(d, l) \in Seq(Lines)
  BY <1>1
<1>. HIDE DEF a, b, l
<1>4. b = [a EXCEPT !.index = index]
  BY <1>1, <1>2, TagsDiffer DEF ReadLine
<1>. HIDE DEF index
<1>5. b.named = TRUE /\ b.last = a.last /\ b.index = index
  BY <1>2, <1>4 DEF Reads
<1>. QED  BY <1>3, <1>5 DEF a, b, l, index

\* A version is what the faces after it have.
LEMMA VersionRead ==
  ASSUME NEW d \in Seq(Lines), NEW text \in Texts
  PROVE  LET a == ReadLines(d)
             b == ReadLines(Append(d, Line("ver", text)))
         IN  /\ Append(d, Line("ver", text)) \in Seq(Lines)
             /\ b.named = a.named /\ b.index = a.index
             /\ b.last.ver = text
             /\ b.last.file = a.last.file /\ b.last.format = a.last.format
<1> DEFINE l == Line("ver", text)
           a == ReadLines(d)
           b == ReadLines(Append(d, l))
<1>1. l \in Lines /\ l.tag = "ver" /\ l # EndLine /\ l.text = text
  BY TagsDiffer DEF Line, Lines, EndLine
<1>2. a \in Reads /\ b = ReadLine(a, l)
  BY <1>1, LinesRead
<1>3. Append(d, l) \in Seq(Lines)
  BY <1>1
<1>. HIDE DEF a, b, l
<1>4. b = [a EXCEPT !.last.ver = text]
  BY <1>1, <1>2, TagsDiffer DEF ReadLine
<1>5. /\ b.named = a.named /\ b.index = a.index /\ b.last.ver = text
      /\ b.last.file = a.last.file /\ b.last.format = a.last.format
  BY <1>2, <1>4 DEF Reads, Lasts
<1>. QED  BY <1>3, <1>5 DEF a, b, l

\* So is a format.
LEMMA FormatRead ==
  ASSUME NEW d \in Seq(Lines), NEW text \in Texts
  PROVE  LET a == ReadLines(d)
             b == ReadLines(Append(d, Line("fmt", text)))
         IN  /\ Append(d, Line("fmt", text)) \in Seq(Lines)
             /\ b.named = a.named /\ b.index = a.index
             /\ b.last.format = text /\ b.last.file = a.last.file
<1> DEFINE l == Line("fmt", text)
           a == ReadLines(d)
           b == ReadLines(Append(d, l))
<1>1. l \in Lines /\ l.tag = "fmt" /\ l # EndLine /\ l.text = text
  BY TagsDiffer DEF Line, Lines, EndLine
<1>2. a \in Reads /\ b = ReadLine(a, l)
  BY <1>1, LinesRead
<1>3. Append(d, l) \in Seq(Lines)
  BY <1>1
<1>. HIDE DEF a, b, l
<1>4. b = [a EXCEPT !.last.format = text]
  BY <1>1, <1>2, TagsDiffer DEF ReadLine
<1>5. /\ b.named = a.named /\ b.index = a.index /\ b.last.format = text
      /\ b.last.file = a.last.file
  BY <1>2, <1>4 DEF Reads, Lasts
<1>. QED  BY <1>3, <1>5 DEF a, b, l

\* An error line and the end of the block add no entry.
LEMMA ErrorRead ==
  ASSUME NEW d \in Seq(Lines)
  PROVE  /\ Append(d, Line("err", Empty)) \in Seq(Lines)
         /\ ReadLines(Append(d, Line("err", Empty))).index = ReadLines(d).index
<1> DEFINE l == Line("err", Empty)
           a == ReadLines(d)
<1>1. l \in Lines /\ l.tag = "err" /\ l # EndLine
  BY TagsDiffer DEF Line, Lines, EndLine, Texts
<1>2. a \in Reads /\ ReadLines(Append(d, l)) = ReadLine(a, l)
  BY <1>1, LinesRead
<1>3. Append(d, l) \in Seq(Lines)
  BY <1>1
<1>. HIDE DEF a, l
<1>4. ReadLine(a, l) = a
  BY <1>1, TagsDiffer DEF ReadLine
<1>. QED  BY <1>2, <1>3, <1>4 DEF a, l

LEMMA EndIndex ==
  ASSUME NEW d \in Seq(Lines)
  PROVE  /\ Append(d, EndLine) \in Seq(Lines)
         /\ ReadLines(Append(d, EndLine)).index = ReadLines(d).index
<1> DEFINE a == ReadLines(d)
<1>1. EndLine \in Lines
  BY DEF Line, Lines, EndLine, Texts
<1>2. a \in Reads /\ ReadLines(Append(d, EndLine)) = ReadLine(a, EndLine)
  BY <1>1, LinesRead
<1>3. Append(d, EndLine) \in Seq(Lines)
  BY <1>1
<1>. HIDE DEF a
<1>4. ReadLine(a, EndLine) = [a EXCEPT !.last = NoIdx, !.named = FALSE]
  <2>1. EndLine.tag = Empty
    BY DEF EndLine, Line
  <2>. QED  BY <2>1, TagsDiffer DEF ReadLine
<1>5. ReadLine(a, EndLine).index = a.index
  BY <1>2, <1>4 DEF Reads
<1>. QED  BY <1>2, <1>3, <1>5 DEF a

\* The lines before the faces give the file and the format.
Opens(d, n, format, e) ==
  /\ e \in Seq(Lines)
  /\ ReadLines(e).named = TRUE /\ ReadLines(e).index = ReadLines(d).index
  /\ ReadLines(e).last.file = n /\ ReadLines(e).last.format = format

LEMMA BlockRead ==
  ASSUME NEW d \in Seq(Lines), ReadLines(d).named = FALSE,
         NEW n \in Names, NEW format \in Formats
  PROVE  Opens(d, n, format, Block(d, n, format))
<1> DEFINE l == Line(Empty, n)
           a == ReadLines(d)
           c == ReadLines(Append(d, l))
           files == a.files + 1
           names == a.names \cup {n}
<1>1. l \in Lines /\ l.tag = Empty /\ l # EndLine /\ l.text = n
  BY CacheAssumption DEF Line, Lines, EndLine, Texts
<1>2. a \in Reads /\ c = ReadLine(a, l) /\ a.named = FALSE
  BY <1>1, LinesRead
<1>3. Append(d, l) \in Seq(Lines)
  BY <1>1
<1>4. n \in Texts /\ format \in Texts
  BY DEF Texts
<1>5. c.named = TRUE /\ c.index = a.index /\ c.last.file = n
  <2>. HIDE DEF a, c, l, files, names
  <2>1. c = [a EXCEPT !.last.file = n, !.named = TRUE, !.files = a.files + 1,
                      !.names = a.names \cup {n}]
    BY <1>1, <1>2, TagsDiffer DEF ReadLine
  <2>2. c = [a EXCEPT !.last.file = n, !.named = TRUE, !.files = files, !.names = names]
    BY <2>1 DEF files, names
  <2>. QED  BY <1>2, <2>2 DEF Reads, Lasts
<1>6. Block(d, n, format) = Append(Append(d, l), Line("fmt", format))
  <2>1. Line("fmt", format) \in Lines
    BY <1>4 DEF Line, Lines
  <2>2. Block(d, n, format) = d \o <<l, Line("fmt", format)>>
    BY DEF Block
  <2>. HIDE DEF l
  <2>. QED  BY <1>1, <2>1, <2>2
<1> DEFINE e == Append(d, l)
<1>7. /\ e \in Seq(Lines) /\ c = ReadLines(e)
      /\ Block(d, n, format) = Append(e, Line("fmt", format))
  BY <1>3, <1>6
<1>. HIDE DEF a, c, l, e
<1>8. LET b == ReadLines(Append(e, Line("fmt", format)))
      IN  /\ Append(e, Line("fmt", format)) \in Seq(Lines)
          /\ b.named = ReadLines(e).named /\ b.index = ReadLines(e).index
          /\ b.last.format = format /\ b.last.file = ReadLines(e).last.file
  BY <1>4, <1>7, FormatRead
<1>. QED  BY <1>5, <1>7, <1>8 DEF a, Opens

-----------------------------------------------------------------------------
(***************************************************************************)
(* Which version a font is given, and which faces.                         *)
(***************************************************************************)
\* Of the first k records, w is the one whose version stands in the lines.
Speaks(names, k, w) ==
  /\ w \in 1 .. k /\ IsVersion(names[w])
  /\ LET vers == {j \in 1 .. k : IsVersion(names[j])}
         lang == names[w].lang
     IN  \/ lang = English /\ \A j \in vers : j > w => names[j].lang # English
         \/ /\ lang # 0 /\ lang # English
            /\ \A j \in vers : names[j].lang # English /\ (j < w => names[j].lang = 0)
         \/ lang = 0 /\ \A j \in vers : names[j].lang = 0 /\ j <= w

\* The next record is the one, or leaves it.
LEMMA SpeaksNext ==
  ASSUME NEW names \in Seq(NameRecords), NEW k \in Nat, k < Len(names)
  PROVE  LET rec == names[k + 1] IN
         /\ ~IsVersion(rec) => \A w : Speaks(names, k, w) => Speaks(names, k + 1, w)
         /\ IsVersion(rec) /\ (\A j \in 1 .. k : ~IsVersion(names[j]))
              => Speaks(names, k + 1, k + 1)
         /\ IsVersion(rec) => \A w : Speaks(names, k, w) =>
              IF names[w].lang = 0 \/ rec.lang = English
                THEN Speaks(names, k + 1, k + 1) ELSE Speaks(names, k + 1, w)
<1>1. \A j \in 1 .. k + 1 : j \in 1 .. k \/ j = k + 1
  OBVIOUS
<1>2. \A j \in 1 .. k : j \in 1 .. k + 1 /\ j < k + 1 /\ j # k + 1 /\ j \in Nat
  OBVIOUS
<1>3. k + 1 \in 1 .. k + 1 /\ ~(k + 1 < k + 1) /\ k + 1 <= k + 1 /\ ~(k + 1 > k + 1)
  OBVIOUS
<1>4. English # 0
  BY DEF English
<1> DEFINE old == {j \in 1 .. k : IsVersion(names[j])}
           new == {j \in 1 .. k + 1 : IsVersion(names[j])}
<1>5. /\ ~IsVersion(names[k + 1]) => new = old
      /\ IsVersion(names[k + 1]) => new = old \cup {k + 1}
  BY <1>1, <1>2, <1>3
<1>6. \A w : Speaks(names, k, w) <=>
        /\ w \in 1 .. k /\ IsVersion(names[w])
        /\ \/ names[w].lang = English /\ \A j \in old : j > w => names[j].lang # English
           \/ /\ names[w].lang # 0 /\ names[w].lang # English
              /\ \A j \in old : names[j].lang # English /\ (j < w => names[j].lang = 0)
           \/ names[w].lang = 0 /\ \A j \in old : names[j].lang = 0 /\ j <= w
  BY Zenon DEF Speaks
<1>7. \A w : Speaks(names, k + 1, w) <=>
        /\ w \in 1 .. k + 1 /\ IsVersion(names[w])
        /\ \/ names[w].lang = English /\ \A j \in new : j > w => names[j].lang # English
           \/ /\ names[w].lang # 0 /\ names[w].lang # English
              /\ \A j \in new : names[j].lang # English /\ (j < w => names[j].lang = 0)
           \/ names[w].lang = 0 /\ \A j \in new : names[j].lang = 0 /\ j <= w
  BY Zenon DEF Speaks
<1>8. \A j \in old : j \in 1 .. k /\ j < k + 1
  BY <1>2
<1>. HIDE DEF old, new
<1>9. ASSUME ~IsVersion(names[k + 1]), NEW w, Speaks(names, k, w)
      PROVE  Speaks(names, k + 1, w)
  BY <1>2, <1>5, <1>6, <1>7, <1>9
<1>10. ASSUME IsVersion(names[k + 1]), \A j \in 1 .. k : ~IsVersion(names[j])
       PROVE  Speaks(names, k + 1, k + 1)
  <2>1. old = {}
    BY <1>10 DEF old
  <2>2. new = {k + 1}
    BY <1>5, <1>10, <2>1
  <2>. QED  BY <1>3, <1>4, <1>7, <1>10, <2>2
<1>11. ASSUME IsVersion(names[k + 1]), NEW w, Speaks(names, k, w),
              names[w].lang = 0 \/ names[k + 1].lang = English
       PROVE  Speaks(names, k + 1, k + 1)
  BY <1>3, <1>4, <1>5, <1>6, <1>7, <1>8, <1>11
<1>12. ASSUME IsVersion(names[k + 1]), NEW w, Speaks(names, k, w),
              names[w].lang # 0, names[k + 1].lang # English
       PROVE  Speaks(names, k + 1, w)
  <2>1. w \in 1 .. k /\ w < k + 1 /\ ~(k + 1 < w) /\ new = old \cup {k + 1}
    BY <1>2, <1>5, <1>6, <1>12
  <2>. QED  BY <1>2, <1>6, <1>7, <1>12, <2>1
<1>. QED  BY <1>9, <1>10, <1>11, <1>12

\* After all of them it is the font's own.
LEMMA SpeaksOwn ==
  ASSUME NEW names \in Seq(NameRecords)
  PROVE  /\ \A w : Speaks(names, Len(names), w) => OwnVersion(names) = names[w].text
         /\ (\A j \in 1 .. Len(names) : ~IsVersion(names[j])) => OwnVersion(names) = Empty
<1> DEFINE vers == {i \in DOMAIN names : IsVersion(names[i])}
           english == {i \in vers : names[i].lang = English}
           foreign == {i \in vers : names[i].lang # 0}
<1>1. DOMAIN names = 1 .. Len(names) /\ Len(names) \in Nat
  OBVIOUS
<1>2. OwnVersion(names) = IF english # {} THEN names[Max(english)].text
      ELSE IF foreign # {} THEN names[Min(foreign)].text
      ELSE IF vers # {} THEN names[Max(vers)].text ELSE Empty
  BY Zenon DEF OwnVersion
<1>3. \A S \in SUBSET Nat : \A m \in S :
        /\ (\A j \in S : j <= m) => Max(S) = m
        /\ (\A j \in S : m <= j) => Min(S) = m
  <2>. SUFFICES ASSUME NEW S \in SUBSET Nat, NEW m \in S
                PROVE  /\ (\A j \in S : j <= m) => Max(S) = m
                       /\ (\A j \in S : m <= j) => Min(S) = m
    OBVIOUS
  <2>1. ASSUME \A j \in S : j <= m PROVE Max(S) = m
    <3>1. \A j \in S : m >= j
      BY <2>1
    <3>2. Max(S) \in S /\ \A j \in S : Max(S) >= j
      BY <3>1, Zenon DEF Max
    <3>3. Max(S) \in Nat /\ m \in Nat /\ Max(S) <= m /\ Max(S) >= m
      BY <2>1, <3>2
    <3>. QED  BY <3>3
  <2>2. ASSUME \A j \in S : m <= j PROVE Min(S) = m
    <3>1. Min(S) \in S /\ \A j \in S : Min(S) =< j
      BY <2>2, Zenon DEF Min
    <3>2. Min(S) \in Nat /\ m \in Nat /\ m <= Min(S) /\ Min(S) =< m
      BY <2>2, <3>1
    <3>. QED  BY <3>2
  <2>. QED  BY <2>1, <2>2
<1>4. vers \in SUBSET Nat /\ english \in SUBSET Nat /\ foreign \in SUBSET Nat
  BY <1>1
<1>5. ASSUME NEW w, Speaks(names, Len(names), w)
      PROVE  OwnVersion(names) = names[w].text
  <2> DEFINE lang == names[w].lang
  <2>1. /\ w \in vers
        /\ \/ lang = English /\ \A j \in vers : j > w => names[j].lang # English
           \/ /\ lang # 0 /\ lang # English
              /\ \A j \in vers : names[j].lang # English /\ (j < w => names[j].lang = 0)
           \/ lang = 0 /\ \A j \in vers : names[j].lang = 0 /\ j <= w
    BY <1>1, <1>5, Zenon DEF Speaks
  <2>2. English # 0
    BY DEF English
  <2>3. w \in Nat /\ \A j \in vers : j \in Nat
    BY <1>4, <2>1
  <2>4. CASE lang = English /\ \A j \in vers : j > w => names[j].lang # English
    <3>1. w \in english /\ \A j \in english : j <= w
      BY <2>1, <2>3, <2>4
    <3>. HIDE DEF english, vers, foreign
    <3>2. Max(english) = w
      BY <1>3, <1>4, <3>1
    <3>. QED  BY <1>2, <3>1, <3>2
  <2>5. CASE /\ lang # 0 /\ lang # English
             /\ \A j \in vers : names[j].lang # English /\ (j < w => names[j].lang = 0)
    <3>1. english = {}
      BY <2>5
    <3>2. w \in foreign /\ \A j \in foreign : w <= j
      BY <2>1, <2>3, <2>5
    <3>. HIDE DEF english, vers, foreign
    <3>3. Min(foreign) = w
      BY <1>3, <1>4, <3>2
    <3>. QED  BY <1>2, <3>1, <3>2, <3>3
  <2>6. CASE lang = 0 /\ \A j \in vers : names[j].lang = 0 /\ j <= w
    <3>1. english = {} /\ foreign = {}
      BY <2>2, <2>6
    <3>. HIDE DEF english, foreign
    <3>2. Max(vers) = w
      <4>. HIDE DEF vers
      <4>. QED  BY <1>3, <1>4, <2>1, <2>6
    <3>. QED  BY <1>2, <2>1, <3>1, <3>2
  <2>. QED  BY <2>1, <2>4, <2>5, <2>6
<1>6. ASSUME \A j \in 1 .. Len(names) : ~IsVersion(names[j])
      PROVE  OwnVersion(names) = Empty
  <2>1. vers = {} /\ english = {} /\ foreign = {}
    BY <1>1, <1>6
  <2>. HIDE DEF vers, english, foreign
  <2>. QED  BY <1>2, <2>1
<1>. QED  BY <1>5, <1>6

-----------------------------------------------------------------------------
(***************************************************************************)
(* The entries a file leaves.  A parse is of the file g.name, which is     *)
(* written from g.to; the set had g.faces faces before.                    *)
(***************************************************************************)
\* The index has an entry for each pair of W, and no other.
Tells(d, W, to) ==
  LET index == ReadLines(d).index
  IN  /\ IsFiniteSet(W) /\ Len(index) = Cardinality(W)
      /\ \A w \in W : \E i \in DOMAIN index : IsEntry(index[i], w, to)

AddedFiles == {g \in [name : Names, to : Sources, faces : Nat] : g.to[g.name] \in Fonts}
File(g) == Content[g.to[g.name]]

AtFile(g, d) ==
  /\ ReadLines(d).named = TRUE
  /\ ReadLines(d).last.file = g.name /\ ReadLines(d).last.format = File(g).kind

\* A parse with an empty face has fewer entries than it counts.
Behind(g, p) == p.count > 0 /\ Len(ReadLines(p.db).index) < g.faces + p.count

Exactly(g, p, W) ==
  AtFile(g, p.db) /\ Tells(p.db, W, g.to) /\ Cardinality(W) = g.faces + p.count

Follows(g, p, W) == Behind(g, p) \/ Exactly(g, p, W)

\* The version read last is that of the font i.
VersionSaid(g, d, i) ==
  LET own == OwnVersion(Records(File(g).fonts[i]))
  IN  own # Empty => ReadLines(d).last.ver = own

\* A face the font has not given yet is one more entry.
LEMMA FaceExact ==
  ASSUME NEW g \in AddedFiles, NEW p \in InParse, NEW W, Exactly(g, p, W),
         NEW text \in Texts, text # Empty, NEW i \in Nat, <<g.name, <<i, text>>>> \notin W,
         VersionSaid(g, p.db, i),
         NEW q \in InParse, q.db = Append(p.db, Line(Empty, text)), q.count = p.count + 1
  PROVE  Exactly(g, q, W \cup {<<g.name, <<i, text>>>>}) /\ VersionSaid(g, q.db, i)
<1> DEFINE d == p.db
           e == q.db
           V == W \cup {<<g.name, <<i, text>>>>}
           w == <<g.name, <<i, text>>>>
           a == ReadLines(d)
           b == ReadLines(e)
           entry == <<text, a.last>>
<1>0. /\ AtFile(g, d) /\ Tells(d, W, g.to) /\ Cardinality(W) = g.faces + p.count
      /\ d \in Seq(Lines)
  BY DEF Exactly, InParse
<1>1. /\ e \in Seq(Lines) /\ b.named = TRUE /\ b.last = a.last
      /\ b.index = Append(a.index, entry)
  BY <1>0, FaceRead DEF AtFile
<1>2. a \in Reads
  BY <1>0, LinesRead
<1>3. AtFile(g, e)
  BY <1>0, <1>1 DEF AtFile
<1>4. /\ IsFiniteSet(W) /\ Len(a.index) = Cardinality(W)
      /\ \A v \in W : \E j \in DOMAIN a.index : IsEntry(a.index[j], v, g.to)
  BY <1>0 DEF Tells
<1>5. /\ IsFiniteSet(W \cup {w}) /\ Cardinality(W \cup {w}) = Cardinality(W) + 1
  BY <1>4, FS_AddElement
<1>6. IsEntry(entry, w, g.to)
  <2>1. a.last.file = g.name /\ a.last.format = File(g).kind
    BY <1>0 DEF AtFile
  <2>2. w[1] = g.name /\ w[2][1] = i /\ w[2][2] = text /\ entry[1] = text /\ entry[2] = a.last
    OBVIOUS
  <2>. HIDE DEF w, entry, a
  <2>. QED  BY <2>1, <2>2, Zenon DEF IsEntry, File, VersionSaid, a
<1>7. /\ Len(b.index) = Len(a.index) + 1
      /\ b.index[Len(a.index) + 1] = entry
      /\ \A j \in DOMAIN a.index : j \in DOMAIN b.index /\ b.index[j] = a.index[j]
      /\ Len(a.index) + 1 \in DOMAIN b.index
  <2>1. a.index \in Seq(Texts \X Lasts) /\ entry \in Texts \X Lasts
    BY <1>2 DEF Reads
  <2>. HIDE DEF entry, a, b
  <2>. QED  BY <1>1, <2>1
<1>8. Tells(e, W \cup {w}, g.to)
  <2>1. ASSUME NEW v \in W PROVE \E j \in DOMAIN b.index : IsEntry(b.index[j], v, g.to)
    <3>1. PICK j \in DOMAIN a.index : IsEntry(a.index[j], v, g.to)
      BY <1>4
    <3>. HIDE DEF a, b
    <3>. QED  BY <1>7, <3>1
  <2>2. \E j \in DOMAIN b.index : IsEntry(b.index[j], w, g.to)
    <3>. HIDE DEF a, b, entry, w
    <3>. QED  BY <1>6, <1>7
  <2>3. \A v \in W \cup {w} : \E j \in DOMAIN b.index : IsEntry(b.index[j], v, g.to)
    BY <2>1, <2>2
  <2>4. Len(b.index) = Cardinality(W \cup {w})
    BY <1>4, <1>5, <1>7
  <2>. HIDE DEF w
  <2>. QED  BY <1>5, <2>3, <2>4 DEF Tells
<1>9. Cardinality(V) = g.faces + q.count
  <2> DEFINE x == Cardinality(W)
             y == Cardinality(V)
             c == p.count
             f == g.faces
  <2>1. /\ x = f + c /\ y = x + 1 /\ q.count = c + 1 /\ c \in Nat /\ f \in Nat
    BY <1>0, <1>5 DEF InParse, AddedFiles
  <2>. HIDE DEF x, y, c, f
  <2>2. y = f + (c + 1)
    BY <2>1
  <2>. QED  BY <2>1, <2>2, Zenon DEF y, f
<1>10. VersionSaid(g, e, i)
  BY <1>1, Zenon DEF VersionSaid
<1>. QED  BY <1>3, <1>8, <1>9, <1>10, Zenon DEF Exactly

\* What the first k records of a font give it.
FacesTo(names, k) ==
  {names[i].text : i \in {j \in 1 .. k : IsFace(names[j])}} \ {Empty}

\* The pairs of the font i among those of the file.
PairsOf(g, i, S) == {g.name} \X ({i} \X S)

\* The faces after the next record.
LEMMA FacesNext ==
  ASSUME NEW names \in Seq(NameRecords), NEW k \in Nat, k < Len(names)
  PROVE  FacesTo(names, k + 1) =
           IF IsFace(names[k + 1]) THEN (FacesTo(names, k) \cup {names[k + 1].text}) \ {Empty}
           ELSE FacesTo(names, k)
<1>1. 1 .. k + 1 = (1 .. k) \cup {k + 1}
  OBVIOUS
<1>2. {j \in 1 .. k + 1 : IsFace(names[j])} =
        IF IsFace(names[k + 1]) THEN {j \in 1 .. k : IsFace(names[j])} \cup {k + 1}
        ELSE {j \in 1 .. k : IsFace(names[j])}
  BY <1>1
<1>. QED  BY <1>2, Zenon DEF FacesTo

-----------------------------------------------------------------------------
(***************************************************************************)
(* What one font of the file gives.  Its name tables are read one after    *)
(* the other, each in two loops: k records were asked for a version, and   *)
(* S are the faces so far.  The parse was p0 before the font.              *)
(***************************************************************************)
\* A face that is counted is missing for good, in the lines before the font too.
Fallen(g, p0, p) ==
  /\ p.count > 0
  /\ Len(ReadLines(p.db).index) < g.faces + p.count
  /\ Len(ReadLines(p0.db).index) < g.faces + p.count

\* The version in the lines is the one of the first k records that stands.
VersionTo(names, k, p) ==
  \/ (\A j \in 1 .. k : ~IsVersion(names[j])) /\ p.lang = 0
  \/ \E w : /\ Speaks(names, k, w) /\ p.lang = names[w].lang
            /\ ReadLines(p.db).last.ver = names[w].text

\* No face is missing; the faces have the version that is in the lines.
OnPar(g, p0, W, i, S, p) ==
  /\ Exactly(g, p0, W)
  /\ AtFile(g, p.db) /\ Len(ReadLines(p.db).index) = g.faces + p.count
  /\ (S = {} \/ VersionSaid(g, p.db, i)) => Exactly(g, p, W \cup PairsOf(g, i, S))
  /\ IF S = {} THEN p.count = p0.count ELSE p.count > p0.count
  /\ p.face <= Len(p.db)
  /\ {p.db[j] : j \in p.face + 1 .. Len(p.db)} = {Line(Empty, f) : f \in S}

Entries(g, p0, W, i, S, p) == Fallen(g, p0, p) \/ OnPar(g, p0, W, i, S, p)

Heard(g, p0, W, i, names, k, S, p) ==
  /\ p \in InParse /\ p.r \in {"ok", "oom"}
  /\ p.r = "ok" =>
       /\ p.ver = Len(p0.db) /\ p.ver <= Len(p.db) /\ SubSeq(p.db, 1, p.ver) = p0.db
       /\ \/ Fallen(g, p0, p)
          \/ VersionTo(names, k, p) /\ OnPar(g, p0, W, i, S, p)

\* The indexes of the lines have lengths.
LEMMA IndexType ==
  ASSUME NEW d \in Seq(Lines)
  PROVE  Len(ReadLines(d).index) \in Nat
<1>1. ReadLines(d) \in Reads
  BY LinesRead
<1>. QED  BY <1>1 DEF Reads

\* The number of entries a face adds at most.
LEMMA FaceAdds ==
  ASSUME NEW d \in Seq(Lines), NEW text \in Texts
  PROVE  LET x == Len(ReadLines(d).index)
             y == Len(ReadLines(Append(d, Line(Empty, text))).index)
         IN  /\ Append(d, Line(Empty, text)) \in Seq(Lines)
             /\ x \in Nat /\ y \in Nat /\ y <= x + 1 /\ (text = Empty => y = x)
<1> DEFINE l == Line(Empty, text)
           a == ReadLines(d)
           b == ReadLines(Append(d, l))
<1>1. l \in Lines /\ l.tag = Empty /\ (l = EndLine <=> text = Empty)
  BY DEF Line, Lines, EndLine
<1>2. a \in Reads /\ b = ReadLine(a, l) /\ Append(d, l) \in Seq(Lines)
  BY <1>1, LinesRead
<1>3. Len(a.index) \in Nat /\ a.named \in BOOLEAN
  BY <1>2 DEF Reads
<1>. HIDE DEF a, b, l
<1>4. LET c == ReadLine(a, l)
      IN  /\ c \in Reads
          /\ l = EndLine => Len(c.index) = Len(a.index)
          /\ l.tag = Empty /\ l # EndLine /\ a.named = TRUE => Len(c.index) = Len(a.index) + 1
          /\ l.tag = Empty /\ l # EndLine /\ a.named = FALSE => Len(c.index) = Len(a.index)
  BY <1>1, <1>2, LineRead
<1>5. Len(b.index) \in Nat
  BY <1>2, <1>4 DEF Reads
<1>6. /\ Len(b.index) <= Len(a.index) + 1
      /\ text = Empty => Len(b.index) = Len(a.index)
  BY <1>1, <1>2, <1>3, <1>4, <1>5
<1>. QED  BY <1>2, <1>3, <1>5, <1>6 DEF a, b, l

\* A version changes no entry: the lines before it are those of p0.
LEMMA VersionPut ==
  ASSUME NEW g \in AddedFiles, NEW W, NEW i, NEW p0 \in InParse, NEW S, NEW p \in InParse,
         Entries(g, p0, W, i, S, p),
         NEW text \in Texts, NEW q \in InParse,
         q.db = Append(p0.db, Line("ver", text)), q.face = Len(p0.db) + 1, q.count = p.count
  PROVE  Entries(g, p0, W, i, S, q)
<1> DEFINE a == ReadLines(p0.db)
           b == ReadLines(q.db)
           x == Len(a.index)
           f == g.faces
           c == p.count
           c0 == p0.count
<1>1. p0.db \in Seq(Lines) /\ c \in Nat /\ c0 \in Nat /\ f \in Nat
  BY DEF InParse, AddedFiles
<1>2. /\ b.named = a.named /\ b.index = a.index /\ b.last.ver = text
      /\ b.last.file = a.last.file /\ b.last.format = a.last.format
  BY <1>1, VersionRead
<1>3. x \in Nat
  BY <1>1, IndexType
<1>4. CASE Fallen(g, p0, p)
  BY <1>2, <1>4, Zenon DEF Fallen, Entries
<1>5. CASE OnPar(g, p0, W, i, S, p) /\ S # {}
  <2>1. c > c0 /\ x = f + c0
    <3>1. x = Cardinality(W) /\ Cardinality(W) = f + c0
      BY <1>5, Zenon DEF OnPar, Exactly, Tells
    <3>. QED  BY <1>5, <3>1 DEF OnPar
  <2>. HIDE DEF x, f, c, c0
  <2>2. c > 0 /\ x < f + c
    BY <1>1, <1>3, <2>1
  <2>. QED  BY <1>2, <2>2, Zenon DEF Fallen, Entries, x, f, c, a, b
<1>6. CASE OnPar(g, p0, W, i, S, p) /\ S = {}
  <2>1. Exactly(g, p0, W) /\ c = c0
    BY <1>6 DEF OnPar
  <2>2. AtFile(g, q.db) /\ Tells(q.db, W, g.to) /\ Cardinality(W) = f + c
    <3>1. AtFile(g, p0.db) /\ Tells(p0.db, W, g.to) /\ Cardinality(W) = f + c0
      BY <2>1, Zenon DEF Exactly
    <3>2. AtFile(g, q.db)
      BY <1>2, <3>1, Zenon DEF AtFile
    <3>3. Tells(q.db, W, g.to)
      BY <1>2, <3>1, Zenon DEF Tells
    <3>. QED  BY <2>1, <3>1, <3>2, <3>3
  <2>3. Exactly(g, q, W)
    BY <2>2, Zenon DEF Exactly
  <2>4. Exactly(g, q, W \cup PairsOf(g, i, S))
    <3>1. PairsOf(g, i, {}) = {} /\ W \cup {} = W
      BY DEF PairsOf
    <3>. QED  BY <1>6, <2>3, <3>1, Zenon
  <2>5. Len(b.index) = f + c
    BY <2>2, Zenon DEF Tells
  <2>6. /\ q.face <= Len(q.db)
        /\ {q.db[j] : j \in q.face + 1 .. Len(q.db)} = {Line(Empty, t) : t \in S}
    <3> DEFINE d == p0.db
               l == Line("ver", text)
               m == Len(d) + 1
    <3>1. l \in Lines /\ d \in Seq(Lines)
      BY <1>1, TagsDiffer DEF Line, Lines
    <3>2. q.db = Append(d, l) /\ q.face = m /\ m = Len(d) + 1
      OBVIOUS
    <3>3. {Line(Empty, t) : t \in S} = {}
      BY <1>6
    <3>. HIDE DEF d, l, m
    <3>4. Len(q.db) = m /\ m \in Nat
      BY <3>1, <3>2
    <3>5. m + 1 .. m = {} /\ m <= m
      BY <3>4
    <3>. QED  BY <3>2, <3>3, <3>4, <3>5
  <2>. QED  BY <1>2, <1>6, <2>1, <2>2, <2>4, <2>5, <2>6, Zenon DEF OnPar, Entries
<1>. QED  BY <1>4, <1>5, <1>6, Zenon DEF Entries

\* The first loop: a version replaces what the font has written, or is passed over.
LEMMA HeardVersion ==
  ASSUME NEW g \in AddedFiles, NEW W, NEW i, NEW p0 \in InParse,
         NEW names \in Seq(NameRecords), NEW k \in Nat, k < Len(names), NEW S,
         NEW p, Heard(g, p0, W, i, names, k, S, p),
         NEW q, q = VersionRecord(p, names[k + 1])
  PROVE  Heard(g, p0, W, i, names, k + 1, S, q)
<1> DEFINE rec == names[k + 1]
           line == Line("ver", rec.text)
           d == Append(p0.db, line)
           e == Len(p0.db) + 1
<1>1. /\ p \in InParse /\ p.r \in {"ok", "oom"} /\ p0.db \in Seq(Lines)
      /\ rec \in NameRecords
  BY DEF Heard, InParse
<1>2. /\ line \in Lines /\ rec.lang \in Nat /\ rec.text \in Texts
  BY <1>1, TagsDiffer DEF Line, Lines, Texts, NameRecords
<1>3. d \in Seq(Lines) /\ Len(d) = e /\ e \in Nat /\ Len(p0.db) \in Nat
  BY <1>1, <1>2
<1>4. ASSUME p.r # "ok" PROVE Heard(g, p0, W, i, names, k + 1, S, q)
  <2>1. q = p
    BY <1>4 DEF VersionRecord, NameRecord
  <2>. QED  BY <1>1, <1>4, <2>1, Zenon DEF Heard
<1>5. ASSUME q = p, VersionTo(names, k, p) => VersionTo(names, k + 1, p)
      PROVE  Heard(g, p0, W, i, names, k + 1, S, q)
  BY <1>5, Zenon DEF Heard
<1>6. ASSUME p.r = "ok", ~IsVersion(rec) PROVE Heard(g, p0, W, i, names, k + 1, S, q)
  <2>1. q = p
    BY <1>6, Zenon DEF VersionRecord, NameRecord, IsVersion
  <2>2. \A w : Speaks(names, k, w) => Speaks(names, k + 1, w)
    BY <1>6, SpeaksNext
  <2>3. (\A j \in 1 .. k : ~IsVersion(names[j])) => \A j \in 1 .. k + 1 : ~IsVersion(names[j])
    BY <1>6
  <2>4. VersionTo(names, k, p) => VersionTo(names, k + 1, p)
    BY <2>2, <2>3, Zenon DEF VersionTo
  <2>. QED  BY <1>5, <2>1, <2>4
<1>7. ASSUME p.r = "ok", IsVersion(rec)
      PROVE  Heard(g, p0, W, i, names, k + 1, S, q)
  <2>1. rec.platform = 3 /\ rec.id = 5 /\ rec.cch # 0
    BY <1>7 DEF IsVersion
  <2>2. /\ p.ver = Len(p0.db) /\ SubSeq(p.db, 1, p.ver) = p0.db
        /\ \/ Fallen(g, p0, p)
           \/ VersionTo(names, k, p) /\ OnPar(g, p0, W, i, S, p)
    BY <1>7, Zenon DEF Heard
  <2>3. ASSUME p.lang = 0 \/ rec.lang = English
        PROVE  Heard(g, p0, W, i, names, k + 1, S, q)
    <3>1. q = PutVersion(p, rec.text, rec.lang)
      BY <1>7, <2>1, <2>3, Zenon DEF VersionRecord, NameRecord
    <3>2. \/ q = [p EXCEPT !.db = p0.db, !.r = "oom"]
          \/ q = [p EXCEPT !.db = d, !.lang = rec.lang, !.face = e]
      <4>1. \/ PutVersion(p, rec.text, rec.lang) =
                 [p EXCEPT !.db = SubSeq(p.db, 1, p.ver), !.r = "oom"]
            \/ PutVersion(p, rec.text, rec.lang) =
                 [p EXCEPT !.db = Append(SubSeq(p.db, 1, p.ver), line), !.lang = rec.lang,
                           !.face = Len(SubSeq(p.db, 1, p.ver)) + 1]
        BY Zenon DEF PutVersion
      <4>. QED  BY <2>2, <3>1, <4>1, Zenon DEF d, e
    <3>3. ASSUME VersionTo(names, k, p) PROVE Speaks(names, k + 1, k + 1)
      <4>1. \/ \A j \in 1 .. k : ~IsVersion(names[j])
            \/ \E w : Speaks(names, k, w) /\ p.lang = names[w].lang
        BY <3>3, Zenon DEF VersionTo
      <4>. QED  BY <1>7, <2>3, <4>1, SpeaksNext
    <3>4. CASE q = [p EXCEPT !.db = p0.db, !.r = "oom"]
      <4>1. q \in InParse /\ q.r = "oom"
        BY <1>1, <3>4 DEF InParse
      <4>. QED  BY <4>1 DEF Heard
    <3>5. CASE q = [p EXCEPT !.db = d, !.lang = rec.lang, !.face = e]
      <4> DEFINE text == rec.text
                 lang == rec.lang
      <4>0. /\ text \in Texts /\ lang \in Nat
            /\ names[k + 1].text = text /\ names[k + 1].lang = lang
            /\ d = Append(p0.db, Line("ver", text)) /\ e = Len(p0.db) + 1
            /\ Line("ver", text) \in Lines
        BY <1>2
      <4>00. q = [p EXCEPT !.db = d, !.lang = lang, !.face = e]
        BY <3>5
      <4>. HIDE DEF d, e, text, lang, rec, line
      <4>1. /\ q \in InParse /\ q.r = "ok" /\ q.ver = p.ver /\ q.count = p.count
            /\ q.db = d /\ q.lang = lang /\ q.face = e
        BY <1>1, <1>3, <1>7, <4>0, <4>00 DEF InParse
      <4>2. /\ q.ver = Len(p0.db) /\ q.ver <= Len(q.db) /\ SubSeq(q.db, 1, q.ver) = p0.db
        <5> DEFINE b == p0.db
                   l == Line("ver", text)
        <5>1. b \in Seq(Lines) /\ l \in Lines /\ q.db = Append(b, l) /\ q.ver = Len(b)
          BY <1>1, <2>2, <4>0, <4>1
        <5>. HIDE DEF b, l
        <5>2. SubSeq(Append(b, l), 1, Len(b)) = b /\ Len(b) <= Len(Append(b, l))
          BY <5>1
        <5>. QED  BY <5>1, <5>2 DEF b
      <4>3. ReadLines(q.db).last.ver = text /\ Entries(g, p0, W, i, S, q)
        <5>1. Entries(g, p0, W, i, S, p)
          BY <2>2, Zenon DEF Entries
        <5>2. p \in InParse /\ q \in InParse /\ q.count = p.count /\ text \in Texts
          BY <1>1, <4>0, <4>1
        <5>3. q.db = Append(p0.db, Line("ver", text)) /\ q.face = Len(p0.db) + 1
          BY <4>0, <4>1
        <5>4. ReadLines(q.db).last.ver = text
          BY <1>1, <4>0, <5>3, VersionRead
        <5>5. Entries(g, p0, W, i, S, q)
          BY <5>1, <5>2, <5>3, VersionPut
        <5>. QED  BY <5>4, <5>5
      <4>4. VersionTo(names, k, p) => VersionTo(names, k + 1, q)
        BY <3>3, <4>0, <4>1, <4>3, Zenon DEF VersionTo
      <4>5. ~Fallen(g, p0, q) => VersionTo(names, k, p)
        <5>1. Fallen(g, p0, p) => Fallen(g, p0, q)
          <6>1. ReadLines(q.db).index = ReadLines(p0.db).index
            BY <1>1, <4>0, <4>1, VersionRead
          <6>. QED  BY <4>1, <6>1, Zenon DEF Fallen
        <5>. QED  BY <2>2, <5>1
      <4>. QED  BY <4>1, <4>2, <4>3, <4>4, <4>5, Zenon DEF Heard, Entries
    <3>. QED  BY <3>2, <3>4, <3>5
  <2>4. ASSUME p.lang # 0, rec.lang # English
        PROVE  Heard(g, p0, W, i, names, k + 1, S, q)
    <3>1. q = p
      BY <1>7, <2>1, <2>4, Zenon DEF VersionRecord, NameRecord
    <3>2. ASSUME VersionTo(names, k, p) PROVE VersionTo(names, k + 1, p)
      <4>1. PICK w : /\ Speaks(names, k, w) /\ p.lang = names[w].lang
                     /\ ReadLines(p.db).last.ver = names[w].text
        BY <2>4, <3>2, Zenon DEF VersionTo
      <4>2. Speaks(names, k + 1, w)
        BY <1>7, <2>4, <4>1, SpeaksNext
      <4>. QED  BY <4>1, <4>2, Zenon DEF VersionTo
    <3>. QED  BY <1>5, <3>1, <3>2
  <2>. QED  BY <2>3, <2>4
<1>. QED  BY <1>4, <1>6, <1>7


\* A face too many leaves the lines short of an entry.
LEMMA FaceFallen ==
  ASSUME NEW g \in AddedFiles, NEW W, NEW i, NEW p0 \in InParse, NEW S, NEW p \in InParse,
         NEW text \in Texts,
         Fallen(g, p0, p) \/ (OnPar(g, p0, W, i, S, p) /\ text = Empty),
         NEW q \in InParse, q.db = Append(p.db, Line(Empty, text)), q.count = p.count + 1
  PROVE  Fallen(g, p0, q)
<1> DEFINE x0 == Len(ReadLines(p0.db).index)
           x == Len(ReadLines(p.db).index)
           y == Len(ReadLines(q.db).index)
           f == g.faces
           c == p.count
           c0 == p0.count
           e == q.count
<1>1. /\ p.db \in Seq(Lines) /\ p0.db \in Seq(Lines)
      /\ c \in Nat /\ c0 \in Nat /\ f \in Nat /\ e = c + 1
  BY DEF InParse, AddedFiles
<1>2. x0 \in Nat /\ x \in Nat
  BY <1>1, IndexType
<1>3. y \in Nat /\ y <= x + 1 /\ (text = Empty => y = x)
  BY <1>1, FaceAdds
<1>4. CASE Fallen(g, p0, p)
  <2>1. c > 0 /\ x < f + c /\ x0 < f + c
    BY <1>4, Zenon DEF Fallen
  <2>. HIDE DEF x0, x, y, f, c, c0, e
  <2>2. e > 0 /\ y < f + e /\ x0 < f + e
    BY <1>1, <1>2, <1>3, <2>1
  <2>. QED  BY <2>2, Zenon DEF Fallen, y, x0, f, e
<1>5. CASE OnPar(g, p0, W, i, S, p) /\ text = Empty
  <2>1. x = f + c /\ y = x
    BY <1>3, <1>5, Zenon DEF OnPar
  <2>2. c = c0 \/ c > c0
    BY <1>5, Zenon DEF OnPar
  <2>3. x0 = f + c0
    BY <1>5, Zenon DEF OnPar, Exactly, Tells
  <2>. HIDE DEF x0, x, y, f, c, c0, e
  <2>4. e > 0 /\ y < f + e /\ x0 < f + e
    BY <1>1, <1>2, <2>1, <2>2, <2>3
  <2>. QED  BY <2>4, Zenon DEF Fallen, y, x0, f, e
<1>. QED  BY <1>4, <1>5

\* A face that is new to the font is one more entry for it.
LEMMA FaceOnPar ==
  ASSUME NEW g \in AddedFiles, NEW W, NEW i \in Nat, \A t : <<g.name, <<i, t>>>> \notin W,
         NEW p0 \in InParse, NEW S, NEW p \in InParse, OnPar(g, p0, W, i, S, p),
         NEW text \in Texts, text # Empty, text \notin S,
         NEW q \in InParse, q.db = Append(p.db, Line(Empty, text)), q.count = p.count + 1,
         q.face = p.face, NEW new, new = S \cup {text}
  PROVE  OnPar(g, p0, W, i, new, q)
<1> DEFINE a == ReadLines(p.db)
           b == ReadLines(q.db)
           V == W \cup PairsOf(g, i, S)
           line == Line(Empty, text)
           d == p.db
<1>1. /\ Exactly(g, p0, W) /\ AtFile(g, p.db) /\ Len(a.index) = g.faces + p.count
      /\ (S = {} \/ VersionSaid(g, p.db, i)) => Exactly(g, p, V)
      /\ IF S = {} THEN p.count = p0.count ELSE p.count > p0.count
      /\ p.face <= Len(d)
      /\ {d[j] : j \in p.face + 1 .. Len(d)} = {Line(Empty, f) : f \in S}
  BY Zenon DEF OnPar
<1>2. /\ d \in Seq(Lines) /\ p.count \in Nat /\ p0.count \in Nat /\ p.face \in Nat
      /\ g.faces \in Nat /\ line \in Lines
  BY DEF InParse, AddedFiles, Line, Lines
<1>3. /\ b.named = TRUE /\ b.last = a.last /\ q.db \in Seq(Lines)
      /\ b.index = Append(a.index, <<text, a.last>>)
  BY <1>1, <1>2, FaceRead DEF AtFile
<1>4. Len(b.index) = g.faces + q.count
  <2> DEFINE x == a.index
             entry == <<text, a.last>>
             f == g.faces
             c == p.count
  <2>1. x \in Seq(Texts \X Lasts) /\ entry \in Texts \X Lasts
    <3>1. a \in Reads
      BY <1>2, LinesRead
    <3>. HIDE DEF a
    <3>. QED  BY <3>1 DEF Reads
  <2>2. Len(x) = f + c /\ f \in Nat /\ c \in Nat /\ b.index = Append(x, entry)
    BY <1>1, <1>2, <1>3, Zenon
  <2>. HIDE DEF x, entry, f, c, b
  <2>3. Len(b.index) = f + (c + 1)
    BY <2>1, <2>2
  <2>. QED  BY <2>3 DEF f, c
<1>5. AtFile(g, q.db)
  BY <1>1, <1>3, Zenon DEF AtFile
<1>6. new # {} /\ q.count > p0.count
  <2> DEFINE c == p.count
             c0 == p0.count
  <2>1. c \in Nat /\ c0 \in Nat /\ q.count = c + 1 /\ (c = c0 \/ c > c0)
    BY <1>1, <1>2
  <2>. HIDE DEF c, c0
  <2>2. q.count > c0
    BY <2>1
  <2>. QED  BY <2>2 DEF c0
<1>7. ASSUME VersionSaid(g, q.db, i) PROVE Exactly(g, q, W \cup PairsOf(g, i, new))
  <2>1. VersionSaid(g, p.db, i)
    BY <1>3, <1>7, Zenon DEF VersionSaid
  <2>2. Exactly(g, p, V)
    BY <1>1, <2>1
  <2>3. <<g.name, <<i, text>>>> \notin V
    BY DEF PairsOf
  <2>4. V \cup {<<g.name, <<i, text>>>>} = W \cup PairsOf(g, i, new)
    BY DEF PairsOf
  <2>. HIDE DEF V
  <2>5. Exactly(g, q, V \cup {<<g.name, <<i, text>>>>})
    BY <2>1, <2>2, <2>3, FaceExact
  <2>. QED  BY <2>4, <2>5, Zenon
<1>8. /\ q.face <= Len(q.db)
      /\ {q.db[j] : j \in q.face + 1 .. Len(q.db)} = {Line(Empty, f) : f \in new}
  <2> DEFINE k == p.face
  <2>1. /\ line \in Lines /\ d \in Seq(Lines) /\ k \in Nat /\ k <= Len(d)
        /\ q.db = Append(d, line) /\ q.face = k
    BY <1>1, <1>2
  <2>2. {Line(Empty, f) : f \in new} = {Line(Empty, f) : f \in S} \cup {line}
    OBVIOUS
  <2>3. {d[j] : j \in k + 1 .. Len(d)} = {Line(Empty, f) : f \in S}
    BY <1>1, Zenon
  <2>. HIDE DEF d, k, line
  <2>4. {Append(d, line)[j] : j \in k + 1 .. Len(Append(d, line))} =
          {d[j] : j \in k + 1 .. Len(d)} \cup {line}
    BY <2>1
  <2>5. k <= Len(Append(d, line))
    BY <2>1
  <2>6. {q.db[j] : j \in q.face + 1 .. Len(q.db)} =
          {Append(d, line)[j] : j \in k + 1 .. Len(Append(d, line))}
    BY <2>1, Zenon
  <2>. QED  BY <2>1, <2>2, <2>3, <2>4, <2>5, <2>6
<1>9. (new = {} \/ VersionSaid(g, q.db, i)) => Exactly(g, q, W \cup PairsOf(g, i, new))
  BY <1>6, <1>7
<1>10. IF new = {} THEN q.count = p0.count ELSE q.count > p0.count
  BY <1>6
<1>. QED  BY <1>1, <1>4, <1>5, <1>8, <1>9, <1>10, Zenon DEF OnPar

\* The second loop: a face is put behind the others, unless it is one of them.
LEMMA HeardFace ==
  ASSUME NEW g \in AddedFiles, NEW W, NEW i \in Nat, \A t : <<g.name, <<i, t>>>> \notin W,
         NEW p0 \in InParse, NEW names, NEW k,
         NEW old, Empty \notin old, NEW p, Heard(g, p0, W, i, names, k, old, p),
         NEW rec \in NameRecords,
         NEW new, new = IF IsFace(rec) THEN (old \cup {rec.text}) \ {Empty} ELSE old,
         NEW q, q = FaceRecord(p, rec)
  PROVE  Heard(g, p0, W, i, names, k, new, q)
<1> DEFINE text == rec.text
           line == Line(Empty, text)
           b == p.db
           d == Append(b, line)
           c == p.count + 1
<1>1. p \in InParse /\ p.r \in {"ok", "oom"}
  BY Zenon DEF Heard
<1>2. /\ text \in Texts /\ b \in Seq(Lines) /\ p.count \in Nat /\ p.face \in Nat
      /\ line \in Lines
  BY <1>1 DEF NameRecords, Texts, InParse, Line, Lines
<1>3. d \in Seq(Lines) /\ c \in Nat
  <2>1. c \in Nat
    BY <1>2
  <2>. HIDE DEF b, line
  <2>. QED  BY <1>2, <2>1
<1>4. CASE p.r # "ok" \/ ~IsFace(rec)
  <2>1. q = p
    BY <1>4, Zenon DEF FaceRecord, NameRecord, IsFace
  <2>2. CASE p.r = "ok"
    <3>1. new = old
      BY <1>4, <2>2, Zenon
    <3>. QED  BY <2>1, <3>1
  <2>3. CASE p.r # "ok"
    BY <1>1, <2>1, <2>3, Zenon DEF Heard
  <2>. QED  BY <2>2, <2>3
<1>5. CASE p.r = "ok" /\ IsFace(rec)
  <2> DEFINE there == \E j \in p.face + 1 .. Len(p.db) : p.db[j] = Line(Empty, text)
  <2>1. q = IF Len(p.db) >= p.room THEN [p EXCEPT !.r = "oom"]
            ELSE IF there THEN p ELSE [p EXCEPT !.db = d, !.count = c]
    <3>1. rec.platform = 3 /\ rec.id \in {1, 4, 6} /\ rec.cch # 0 /\ rec.id # 5
      BY <1>5 DEF IsFace
    <3>2. q = PutFace(p, text)
      BY <1>5, <3>1, Zenon DEF FaceRecord, NameRecord
    <3>. QED  BY <3>2, Zenon DEF PutFace
  <2>2. /\ p.ver = Len(p0.db) /\ p.ver <= Len(p.db) /\ SubSeq(p.db, 1, p.ver) = p0.db
        /\ \/ Fallen(g, p0, p)
           \/ VersionTo(names, k, p) /\ OnPar(g, p0, W, i, old, p)
    BY <1>5, Zenon DEF Heard
  <2>3. CASE Len(p.db) >= p.room
    <3>1. q = [p EXCEPT !.r = "oom"]
      BY <2>1, <2>3, Zenon
    <3>2. q \in InParse /\ q.r = "oom"
      BY <1>1, <3>1 DEF InParse
    <3>3. q.r \in {"ok", "oom"} /\ q.r # "ok"
      BY <3>2
    <3>. QED  BY <3>2, <3>3, Zenon DEF Heard
  <2>4. CASE ~(Len(p.db) >= p.room) /\ there
    <3>1. q = p
      BY <2>1, <2>4, Zenon
    <3>2. ASSUME ~Fallen(g, p0, p) PROVE new = old
      <4>0. {p.db[j] : j \in p.face + 1 .. Len(p.db)} = {Line(Empty, f) : f \in old}
        BY <2>2, <3>2, Zenon DEF OnPar
      <4>1. line \in {Line(Empty, f) : f \in old}
        <5>1. line \in {p.db[j] : j \in p.face + 1 .. Len(p.db)}
          BY <2>4
        <5>. QED  BY <4>0, <5>1, Zenon
      <4>2. text \in old
        BY <4>1 DEF Line
      <4>. HIDE DEF text
      <4>3. new = (old \cup {text}) \ {Empty}
        BY <1>5, Zenon DEF text
      <4>. QED  BY <4>2, <4>3
    <3>3. CASE Fallen(g, p0, p)
      BY <1>1, <2>2, <3>1, <3>3, Zenon DEF Heard
    <3>. QED  BY <3>1, <3>2, <3>3
  <2>5. CASE ~(Len(p.db) >= p.room) /\ ~there
    <3>1. q = [p EXCEPT !.db = d, !.count = c]
      BY <2>1, <2>5, Zenon
    <3>0. d = Append(p.db, Line(Empty, text)) /\ c = p.count + 1
      OBVIOUS
    <3>. HIDE DEF d, c
    <3>2. /\ q \in InParse /\ q.db = d /\ q.count = c /\ q.r = "ok" /\ q.face = p.face
          /\ q.ver = p.ver /\ q.lang = p.lang
      BY <1>1, <1>3, <1>5, <3>1 DEF InParse
    <3>3. /\ q \in InParse /\ q.r = "ok" /\ q.r \in {"ok", "oom"} /\ q.face = p.face
          /\ q.db = Append(p.db, Line(Empty, text)) /\ q.count = p.count + 1
      BY <3>0, <3>2, Zenon
    <3>4. q.ver = Len(p0.db) /\ q.ver <= Len(q.db) /\ SubSeq(q.db, 1, q.ver) = p0.db
      <4> DEFINE v == p.ver
      <4>1. /\ b \in Seq(Lines) /\ line \in Lines /\ v \in Nat /\ v <= Len(b)
            /\ q.db = Append(b, line) /\ q.ver = v /\ SubSeq(b, 1, v) = p0.db
            /\ v = Len(p0.db)
        BY <1>1, <1>2, <2>2, <3>2, <3>3 DEF InParse
      <4>. HIDE DEF v, b, line
      <4>2. v <= Len(Append(b, line)) /\ SubSeq(Append(b, line), 1, v) = SubSeq(b, 1, v)
        BY <4>1
      <4>. QED  BY <4>1, <4>2
    <3>5. CASE Fallen(g, p0, p) \/ text = Empty
      <4>. HIDE DEF text
      <4>1. Fallen(g, p0, p) \/ (OnPar(g, p0, W, i, old, p) /\ text = Empty)
        BY <2>2, <3>5, Zenon
      <4>2. Fallen(g, p0, q)
        BY <1>1, <1>2, <3>3, <4>1, FaceFallen
      <4>. QED  BY <3>3, <3>4, <4>2, Zenon DEF Heard
    <3>6. CASE ~Fallen(g, p0, p) /\ text # Empty
      <4>0. /\ VersionTo(names, k, p) /\ OnPar(g, p0, W, i, old, p)
            /\ {b[j] : j \in p.face + 1 .. Len(b)} = {Line(Empty, f) : f \in old}
        BY <2>2, <3>6, Zenon DEF OnPar
      <4>1. text \notin old
        <5>. SUFFICES ASSUME text \in old PROVE FALSE
          OBVIOUS
        <5>1. line \in {b[j] : j \in p.face + 1 .. Len(b)}
          BY <4>0, Zenon
        <5>2. there
          BY <5>1
        <5>. QED  BY <2>5, <5>2
      <4>2. new = old \cup {text}
        <5>1. new = (old \cup {text}) \ {Empty}
          BY <1>5, Zenon
        <5>. HIDE DEF text
        <5>. QED  BY <3>6, <5>1
      <4>. HIDE DEF text
      <4>3. ReadLines(q.db).last = ReadLines(p.db).last
        <5>1. ReadLines(p.db).named = TRUE
          BY <4>0, Zenon DEF OnPar, AtFile
        <5>. QED  BY <1>2, <3>3, <3>6, <5>1, FaceRead
      <4>4. VersionTo(names, k, q)
        BY <3>2, <4>0, <4>3, Zenon DEF VersionTo
      <4>5. OnPar(g, p0, W, i, new, q)
        BY <1>1, <1>2, <3>3, <3>6, <4>0, <4>1, <4>2, FaceOnPar
      <4>. QED  BY <3>3, <3>4, <4>4, <4>5, Zenon DEF Heard
    <3>. QED  BY <3>5, <3>6
  <2>. QED  BY <2>3, <2>4, <2>5
<1>. QED  BY <1>1, <1>4, <1>5

\* A name table after the records C, read in both loops.
LEMMA HeardTable ==
  ASSUME NEW g \in AddedFiles, NEW W, NEW i \in Nat, \A t : <<g.name, <<i, t>>>> \notin W,
         NEW p0 \in InParse, NEW C \in Seq(NameRecords), NEW T \in Seq(NameRecords),
         NEW names, names = C \o T,
         NEW p, Heard(g, p0, W, i, names, Len(C), FacesTo(names, Len(C)), p),
         NEW q, q = NameTable(p, T)
  PROVE  Heard(g, p0, W, i, names, Len(names), FacesTo(names, Len(names)), q)
<1> DEFINE m == Len(C)
           n == Len(T)
           S == FacesTo(names, m)
           v == FoldLeft(VersionRecord, p, T)
           I == {x \in Nat \X InParse : Heard(g, p0, W, i, names, m + x[1], S, x[2])}
           J == {x \in Nat \X InParse :
                   Heard(g, p0, W, i, names, n + m, FacesTo(names, m + x[1]), x[2])}
<1>1. /\ m \in Nat /\ n \in Nat /\ names \in Seq(NameRecords) /\ Len(names) = m + n
      /\ \A k \in Nat : k < n => names[m + k + 1] = T[k + 1] /\ m + k < Len(names)
  OBVIOUS
<1>. HIDE DEF m, n
<1>2. ASSUME NEW k \in Nat, NEW acc, k < Len(T), <<k, acc>> \in I
      PROVE  <<k + 1, VersionRecord(acc, T[k + 1])>> \in I
  <2> DEFINE next == VersionRecord(acc, T[k + 1])
             h == m + k
  <2>1. /\ h \in Nat /\ h < Len(names) /\ names[h + 1] = T[k + 1]
        /\ m + (k + 1) = h + 1 /\ Heard(g, p0, W, i, names, h, S, acc)
    BY <1>1, <1>2 DEF n
  <2>2. next = VersionRecord(acc, names[h + 1])
    BY <2>1
  <2>. HIDE DEF next, h, S
  <2>3. Heard(g, p0, W, i, names, h + 1, S, next)
    BY <1>1, <2>1, <2>2, HeardVersion
  <2>4. next \in InParse
    BY <2>3, Zenon DEF Heard
  <2>5. Heard(g, p0, W, i, names, m + (k + 1), S, next)
    BY <2>1, <2>3, Zenon
  <2>. QED  BY <2>4, <2>5 DEF next
<1>3. <<0, p>> \in I
  <2>1. p \in InParse
    BY Zenon DEF Heard
  <2>. QED  BY <1>1, <2>1 DEF m
<1>4. v = Versions!Fold(p, T)
  BY DEF Versions!Fold, FoldLeft, Versions!FoldLeft, MapThenFoldSet,
         Versions!MapThenFoldSet, Max, Versions!Max
<1>5. <<n, v>> \in I
  <2>. HIDE DEF I, v
  <2>. QED  BY <1>2, <1>3, <1>4, Versions!FoldSteps DEF n
<1>6. <<0, v>> \in J
  <2>1. m + n = n + m /\ m + 0 = m
    BY <1>1
  <2>. HIDE DEF v
  <2>. QED  BY <1>5, <2>1
<1>7. ASSUME NEW k \in Nat, NEW acc, k < Len(T), <<k, acc>> \in J
      PROVE  <<k + 1, FaceRecord(acc, T[k + 1])>> \in J
  <2> DEFINE h == m + k
             rec == names[h + 1]
             next == FaceRecord(acc, T[k + 1])
             old == FacesTo(names, h)
             new == FacesTo(names, h + 1)
  <2>1. /\ h \in Nat /\ h < Len(names) /\ rec = T[k + 1] /\ rec \in NameRecords
        /\ m + (k + 1) = h + 1 /\ Heard(g, p0, W, i, names, n + m, old, acc)
    BY <1>1, <1>7 DEF n
  <2>2. Empty \notin old
    BY DEF FacesTo
  <2>3. new = IF IsFace(rec) THEN (old \cup {rec.text}) \ {Empty} ELSE old
    BY <1>1, <2>1, FacesNext
  <2>4. next = FaceRecord(acc, rec)
    BY <2>1
  <2>. HIDE DEF rec, old, new, next, h
  <2>5. Heard(g, p0, W, i, names, n + m, new, next)
    BY <2>1, <2>2, <2>3, <2>4, HeardFace
  <2>6. next \in InParse
    BY <2>5, Zenon DEF Heard
  <2>7. Heard(g, p0, W, i, names, n + m, FacesTo(names, m + (k + 1)), next)
    BY <2>1, <2>5, Zenon DEF new
  <2>. QED  BY <2>6, <2>7 DEF next
<1>8. FoldLeft(FaceRecord, v, T) = FaceNames!Fold(v, T)
  BY DEF FaceNames!Fold, FoldLeft, FaceNames!FoldLeft, MapThenFoldSet,
         FaceNames!MapThenFoldSet, Max, FaceNames!Max
<1>9. q = FoldLeft(FaceRecord, v, T)
  BY Zenon DEF NameTable
<1>10. <<n, q>> \in J
  <2>. HIDE DEF J, v
  <2>. QED  BY <1>6, <1>7, <1>8, <1>9, FaceNames!FoldSteps DEF n
<1>11. n + m = Len(names) /\ m + n = Len(names)
  BY <1>1
<1>. QED  BY <1>10, <1>11

-----------------------------------------------------------------------------
\* The records of the first k name tables.
RecordsTo(tables, k) == FoldLeft(Join, << >>, SubSeq(tables, 1, k))

LEMMA JoinTables ==
  ASSUME NEW tables \in Seq(Seq(NameRecords))
  PROVE  /\ RecordsTo(tables, 0) = << >>
         /\ \A k \in 0 .. Len(tables) : RecordsTo(tables, k) \in Seq(NameRecords)
         /\ \A k \in Nat : k < Len(tables) =>
              RecordsTo(tables, k + 1) = RecordsTo(tables, k) \o tables[k + 1]
<1> DEFINE Data == Seq(NameRecords)
<1>1. \A s : FoldLeft(Join, << >>, s) = Joining!Fold(<< >>, s)
  BY DEF Joining!Fold, FoldLeft, Joining!FoldLeft, MapThenFoldSet,
         Joining!MapThenFoldSet, Max, Joining!Max
<1>2. SubSeq(tables, 1, 0) = << >>
  OBVIOUS
<1>3. RecordsTo(tables, 0) = << >>
  BY <1>1, <1>2, Joining!FoldEmpty DEF RecordsTo
<1>4. << >> \in Data /\ \A acc \in Data, x \in Data : Join(acc, x) \in Data
  BY DEF Join
<1>. HIDE DEF Data
<1>5. \A s \in Seq(Data) : Joining!Fold(<< >>, s) \in Data
  BY <1>4, Joining!FoldKeeps
<1>6. tables \in Seq(Data)
  BY DEF Data
<1>7. ASSUME NEW k \in 0 .. Len(tables) PROVE RecordsTo(tables, k) \in Data
  <2>1. SubSeq(tables, 1, k) \in Seq(Data)
    BY <1>6
  <2>. QED  BY <1>1, <1>5, <2>1 DEF RecordsTo
<1>8. ASSUME NEW k \in Nat, k < Len(tables)
      PROVE  RecordsTo(tables, k + 1) = RecordsTo(tables, k) \o tables[k + 1]
  <2> DEFINE s == SubSeq(tables, 1, k)
             x == tables[k + 1]
  <2>1. s \in Seq(Data) /\ x \in Data /\ SubSeq(tables, 1, k + 1) = Append(s, x)
    BY <1>6, <1>8
  <2>. HIDE DEF s, x
  <2>2. Joining!Fold(<< >>, Append(s, x)) = Join(Joining!Fold(<< >>, s), x)
    BY <2>1, Joining!FoldAppend
  <2>3. RecordsTo(tables, k + 1) = Join(RecordsTo(tables, k), x)
    BY <1>1, <2>1, <2>2, Zenon DEF RecordsTo, s
  <2>. QED  BY <2>3, Zenon DEF Join, x
<1>. QED  BY <1>3, <1>7, <1>8 DEF Data

\* What is said of the records so far does not look at those to come.
LEMMA HeardSoFar ==
  ASSUME NEW g, NEW W, NEW i, NEW p0, NEW C \in Seq(NameRecords), NEW T \in Seq(NameRecords),
         NEW p, Heard(g, p0, W, i, C, Len(C), FacesTo(C, Len(C)), p),
         NEW names, names = C \o T
  PROVE  Heard(g, p0, W, i, names, Len(C), FacesTo(names, Len(C)), p)
<1> DEFINE m == Len(C)
<1>1. m \in Nat /\ \A j \in 1 .. m : names[j] = C[j]
  OBVIOUS
<1>. HIDE DEF m
<1>2. FacesTo(names, m) = FacesTo(C, m)
  BY <1>1 DEF FacesTo
<1>3. {j \in 1 .. m : IsVersion(names[j])} = {j \in 1 .. m : IsVersion(C[j])}
  BY <1>1
<1>4. ASSUME NEW w, Speaks(C, m, w) PROVE Speaks(names, m, w) /\ names[w] = C[w]
  <2> DEFINE vers == {j \in 1 .. m : IsVersion(C[j])}
             lang == C[w].lang
  <2>1. /\ w \in 1 .. m /\ IsVersion(C[w])
        /\ \/ lang = English /\ \A j \in vers : j > w => C[j].lang # English
           \/ /\ lang # 0 /\ lang # English
              /\ \A j \in vers : C[j].lang # English /\ (j < w => C[j].lang = 0)
           \/ lang = 0 /\ \A j \in vers : C[j].lang = 0 /\ j <= w
    BY <1>4, Zenon DEF Speaks
  <2>2. \A j \in vers : names[j] = C[j]
    BY <1>1
  <2>3. names[w] = C[w]
    BY <1>1, <2>1
  <2>. HIDE DEF vers
  <2>4. \/ lang = English /\ \A j \in vers : j > w => names[j].lang # English
        \/ /\ lang # 0 /\ lang # English
           /\ \A j \in vers : names[j].lang # English /\ (j < w => names[j].lang = 0)
        \/ lang = 0 /\ \A j \in vers : names[j].lang = 0 /\ j <= w
    BY <2>1, <2>2, Zenon
  <2>. QED  BY <1>3, <2>1, <2>3, <2>4, Zenon DEF Speaks, vers
<1>5. VersionTo(C, m, p) => VersionTo(names, m, p)
  <2>1. (\A j \in 1 .. m : ~IsVersion(C[j])) => \A j \in 1 .. m : ~IsVersion(names[j])
    BY <1>1
  <2>. QED  BY <1>4, <2>1, Zenon DEF VersionTo
<1>. QED  BY <1>2, <1>5, Zenon DEF Heard, m

-----------------------------------------------------------------------------
\* What a font of the file gives, or why it gives nothing.
Given(g, W, i, font, q) ==
  /\ q \in InParse
  /\ \/ q.r = "oom"
     \/ q.r \in {"unrecognized", "corrupted"} /\ font.form # "ok"
     \/ /\ q.r = "ok" /\ font.form = "ok"
        /\ Follows(g, q, W \cup PairsOf(g, i, OwnFaces(Records(font))))

\* Before its first table the font has given nothing.
LEMMA FontBegins ==
  ASSUME NEW g \in AddedFiles, NEW W, NEW i,
         NEW p \in InParse, p.r = "ok", Follows(g, p, W), NEW p0, p0 = NewFont(p)
  PROVE  p0 \in InParse /\ Heard(g, p0, W, i, << >>, 0, FacesTo(<< >>, 0), p0)
<1> DEFINE d == p.db
           m == Len(d)
<1>1. p0 = [p EXCEPT !.ver = m, !.face = m, !.lang = 0]
  BY DEF NewFont
<1>2. d \in Seq(Lines) /\ m \in Nat
  BY DEF InParse
<1>3. /\ p0 \in InParse /\ p0.db = d /\ p0.ver = m /\ p0.face = m /\ p0.lang = 0
      /\ p0.r = "ok" /\ p0.count = p.count
  <2> DEFINE zero == 0
  <2>1. p0 = [p EXCEPT !.ver = m, !.face = m, !.lang = zero] /\ zero \in Nat /\ zero = 0
    BY <1>1
  <2>. HIDE DEF m, zero
  <2>2. p0 \in InParse
    BY <1>2, <2>1 DEF InParse
  <2>3. /\ p0.db = d /\ p0.ver = m /\ p0.face = m /\ p0.lang = zero
        /\ p0.r = "ok" /\ p0.count = p.count
    BY <2>1 DEF InParse
  <2>. QED  BY <2>1, <2>2, <2>3
<1>4. /\ p0.ver = Len(p0.db) /\ p0.ver <= Len(p0.db) /\ SubSeq(p0.db, 1, p0.ver) = p0.db
  <2>1. SubSeq(d, 1, m) = d /\ m <= m
    BY <1>2
  <2>. QED  BY <1>3, <2>1
<1>5. FacesTo(<< >>, 0) = {} /\ 1 .. 0 = {}
  <2>1. 1 .. 0 = {}
    OBVIOUS
  <2>. QED  BY <2>1 DEF FacesTo
<1>6. VersionTo(<< >>, 0, p0)
  BY <1>3, <1>5 DEF VersionTo
<1>7. CASE Behind(g, p)
  <2>1. Fallen(g, p0, p0)
    BY <1>3, <1>7, Zenon DEF Fallen, Behind
  <2>. QED  BY <1>3, <1>4, <2>1, Zenon DEF Heard
<1>8. CASE Exactly(g, p, W)
  <2>1. Exactly(g, p0, W)
    BY <1>3, <1>8, Zenon DEF Exactly
  <2>2. AtFile(g, p0.db) /\ Len(ReadLines(p0.db).index) = g.faces + p0.count
    BY <2>1, Zenon DEF Exactly, Tells
  <2>3. PairsOf(g, i, {}) = {} /\ W \cup {} = W
    BY DEF PairsOf
  <2>4. p0.face <= Len(p0.db)
        /\ {p0.db[j] : j \in p0.face + 1 .. Len(p0.db)} = {Line(Empty, f) : f \in {}}
    <3>1. m + 1 .. m = {} /\ m <= m
      BY <1>2
    <3>. QED  BY <1>3, <3>1
  <2>5. OnPar(g, p0, W, i, {}, p0)
    BY <2>1, <2>2, <2>3, <2>4, Zenon DEF OnPar
  <2>. QED  BY <1>3, <1>4, <1>5, <1>6, <2>5, Zenon DEF Heard
<1>. QED  BY <1>7, <1>8 DEF Follows

\* After its last one it has given its faces, with its own version.
LEMMA FontEnds ==
  ASSUME NEW g \in AddedFiles, NEW W, NEW i \in Nat,
         NEW font, font = File(g).fonts[i],
         NEW names \in Seq(NameRecords), names = Records(font), NEW p0,
         NEW q, Heard(g, p0, W, i, names, Len(names), FacesTo(names, Len(names)), q),
         q.r = "ok"
  PROVE  Follows(g, q, W \cup PairsOf(g, i, OwnFaces(names)))
<1> DEFINE n == Len(names)
           S == FacesTo(names, n)
<1>1. \/ Fallen(g, p0, q)
      \/ VersionTo(names, n, q) /\ OnPar(g, p0, W, i, S, q)
  BY Zenon DEF Heard
<1>2. S = OwnFaces(names)
  <2>1. DOMAIN names = 1 .. n
    OBVIOUS
  <2>. QED  BY <2>1, Zenon DEF FacesTo, OwnFaces
<1>3. CASE Fallen(g, p0, q)
  BY <1>3, Zenon DEF Fallen, Behind, Follows
<1>4. CASE VersionTo(names, n, q) /\ OnPar(g, p0, W, i, S, q)
  <2>1. OwnVersion(names) # Empty => ReadLines(q.db).last.ver = OwnVersion(names)
    BY <1>4, SpeaksOwn, Zenon DEF VersionTo
  <2>2. VersionSaid(g, q.db, i)
    BY <2>1, Zenon DEF VersionSaid
  <2>3. Exactly(g, q, W \cup PairsOf(g, i, S))
    BY <1>4, <2>2, Zenon DEF OnPar
  <2>. QED  BY <1>2, <2>3, Zenon DEF Follows
<1>. QED  BY <1>1, <1>3, <1>4

LEMMA OtfHeard ==
  ASSUME NEW g \in AddedFiles, NEW W, NEW i \in Nat, \A t : <<g.name, <<i, t>>>> \notin W,
         NEW font, font = File(g).fonts[i], font \in FontTables,
         NEW p \in InParse, p.r = "ok", Follows(g, p, W),
         NEW q, q = OtfParse(p, font)
  PROVE  Given(g, W, i, font, q)
<1> DEFINE tables == font.tables
           p0 == NewFont(p)
           n == Len(tables)
           So(k, acc) == LET C == RecordsTo(tables, k)
                         IN  Heard(g, p0, W, i, C, Len(C), FacesTo(C, Len(C)), acc)
           I == {x \in (0 .. n) \X InParse : So(x[1], x[2])}
<1>1. /\ tables \in Seq(Seq(NameRecords)) /\ n \in Nat
      /\ font.form \in {"ok", "unrecognized", "corrupted"}
  BY DEF FontTables
<1>2. CASE font.form # "ok"
  <2>1. q = [p EXCEPT !.r = font.form]
    BY <1>2, Zenon DEF OtfParse
  <2>2. q \in InParse /\ q.r = font.form
    BY <1>1, <2>1 DEF InParse
  <2>. QED  BY <1>1, <1>2, <2>2 DEF Given
<1>3. CASE font.form = "ok"
  <2>1. q = FoldLeft(NameTable, p0, tables)
    BY <1>3, Zenon DEF OtfParse
  <2>2. p0 \in InParse /\ Heard(g, p0, W, i, << >>, 0, FacesTo(<< >>, 0), p0)
    BY FontBegins
  <2>. HIDE DEF p0, tables
  <2>3. <<0, p0>> \in I
    <3>1. RecordsTo(tables, 0) = << >> /\ Len(<< >>) = 0
      BY <1>1, JoinTables
    <3>2. So(0, p0)
      BY <2>2, <3>1
    <3>. HIDE DEF So
    <3>. QED  BY <1>1, <2>2, <3>2
  <2>4. ASSUME NEW k \in Nat, NEW acc, k < Len(tables), <<k, acc>> \in I
        PROVE  <<k + 1, NameTable(acc, tables[k + 1])>> \in I
    <3> DEFINE C == RecordsTo(tables, k)
               T == tables[k + 1]
               names == RecordsTo(tables, k + 1)
               next == NameTable(acc, T)
    <3>0. k \in 0 .. Len(tables) /\ k + 1 \in 0 .. Len(tables)
      BY <1>1, <2>4
    <3>1. /\ C \in Seq(NameRecords) /\ T \in Seq(NameRecords) /\ names = C \o T
          /\ k + 1 \in 0 .. n
      <4>1. C \in Seq(NameRecords) /\ names = C \o T
        BY <1>1, <2>4, <3>0, JoinTables
      <4>2. T \in Seq(NameRecords)
        BY <1>1, <2>4
      <4>. QED  BY <3>0, <4>1, <4>2
    <3>2. Heard(g, p0, W, i, C, Len(C), FacesTo(C, Len(C)), acc)
      BY <2>4
    <3>3. next = NameTable(acc, T)
      OBVIOUS
    <3>. HIDE DEF C, T, names, next
    <3>4. Heard(g, p0, W, i, names, Len(C), FacesTo(names, Len(C)), acc)
      BY <3>1, <3>2, HeardSoFar
    <3>5. Heard(g, p0, W, i, names, Len(names), FacesTo(names, Len(names)), next)
      BY <2>2, <3>1, <3>3, <3>4, HeardTable
    <3>6. next \in InParse
      BY <3>5, Zenon DEF Heard
    <3>7. So(k + 1, next)
      BY <3>5, Zenon DEF names
    <3>. HIDE DEF So
    <3>8. <<k + 1, next>> \in I
      BY <3>1, <3>6, <3>7
    <3>. QED  BY <3>8 DEF next, T
  <2>5. q = NameTables!Fold(p0, tables)
    BY <2>1 DEF NameTables!Fold, FoldLeft, NameTables!FoldLeft, MapThenFoldSet,
           NameTables!MapThenFoldSet, Max, NameTables!Max
  <2>6. <<n, q>> \in I
    <3>. HIDE DEF I
    <3>1. <<Len(tables), NameTables!Fold(p0, tables)>> \in I
      BY <1>1, <2>3, <2>4, NameTables!FoldSteps
    <3>. QED  BY <2>5, <3>1
  <2> DEFINE names == Records(font)
  <2>7. names = RecordsTo(tables, n) /\ names \in Seq(NameRecords)
    <3>1. SubSeq(tables, 1, n) = tables /\ n \in 0 .. Len(tables)
      BY <1>1
    <3>2. names = RecordsTo(tables, n)
      BY <3>1, Zenon DEF Records, RecordsTo, tables
    <3>. QED  BY <1>1, <3>1, <3>2, JoinTables
  <2>8. /\ q \in InParse
        /\ Heard(g, p0, W, i, names, Len(names), FacesTo(names, Len(names)), q)
    <3>1. q \in InParse /\ So(n, q)
      <4>. HIDE DEF So
      <4>. QED  BY <2>6
    <3>. QED  BY <2>7, <3>1, Zenon
  <2>9. q.r \in {"ok", "oom"}
    BY <2>8, Zenon DEF Heard
  <2>10. CASE q.r = "ok"
    <3>1. names = Records(font)
      OBVIOUS
    <3>. HIDE DEF names
    <3>2. Follows(g, q, W \cup PairsOf(g, i, OwnFaces(names)))
      BY <2>7, <2>8, <2>10, <3>1, FontEnds
    <3>. QED  BY <1>3, <2>8, <2>10, <3>1, <3>2, Zenon DEF Given
  <2>11. CASE q.r # "ok"
    BY <2>8, <2>9, <2>11 DEF Given
  <2>. QED  BY <2>10, <2>11
<1>. QED  BY <1>2, <1>3

-----------------------------------------------------------------------------
\* What the first k fonts give the file.
FontsTo(g, k) ==
  UNION {PairsOf(g, j, OwnFaces(Records(File(g).fonts[j]))) : j \in 1 .. k}

\* The parse after k fonts.
Collected(g, W, k, p) ==
  /\ p \in InParse
  /\ \/ p.r = "oom"
     \/ p.r \in {"unrecognized", "corrupted"} /\ \E j \in 1 .. k : File(g).fonts[j].form # "ok"
     \/ /\ p.r = "ok" /\ \A j \in 1 .. k : File(g).fonts[j].form = "ok"
        /\ Follows(g, p, W \cup FontsTo(g, k))

\* The next font gives its faces, or ends the parse.
LEMMA FontStep ==
  ASSUME NEW g \in AddedFiles, NEW W, \A t : <<g.name, t>> \notin W,
         NEW k \in Nat, k < Len(File(g).fonts), NEW p, Collected(g, W, k, p),
         NEW q, q = NextFont(p, File(g).fonts[k + 1])
  PROVE  Collected(g, W, k + 1, q)
<1> DEFINE fonts == File(g).fonts
           font == fonts[k + 1]
           V == W \cup FontsTo(g, k)
           new == PairsOf(g, k + 1, OwnFaces(Records(font)))
<1>1. fonts \in Seq(FontTables) /\ font \in FontTables /\ p \in InParse
  <2>1. File(g) \in FontFiles
    BY CacheAssumption DEF File, AddedFiles
  <2>2. fonts \in Seq(FontTables)
    BY <2>1 DEF FontFiles
  <2>3. p \in InParse
    BY Zenon DEF Collected
  <2>. HIDE DEF fonts
  <2>. QED  BY <2>2, <2>3 DEF fonts
<1>2. 1 .. k + 1 = (1 .. k) \cup {k + 1} /\ k + 1 \in Nat
  OBVIOUS
<1>3. V \cup new = W \cup FontsTo(g, k + 1)
  <2>1. FontsTo(g, k + 1) = FontsTo(g, k) \cup new
    <3> DEFINE give(j) == PairsOf(g, j, OwnFaces(Records(File(g).fonts[j])))
    <3>1. FontsTo(g, k + 1) = UNION {give(j) : j \in 1 .. k + 1}
          /\ FontsTo(g, k) = UNION {give(j) : j \in 1 .. k} /\ new = give(k + 1)
      BY Zenon DEF FontsTo
    <3>. HIDE DEF give, new
    <3>. QED  BY <1>2, <3>1
  <2>. HIDE DEF new
  <2>. QED  BY <2>1
<1>4. \A t : <<g.name, <<k + 1, t>>>> \notin V
  <2>. SUFFICES ASSUME NEW t, NEW j \in 1 .. k,
                       <<g.name, <<k + 1, t>>>> \in
                         PairsOf(g, j, OwnFaces(Records(File(g).fonts[j])))
                PROVE  FALSE
    BY Zenon DEF FontsTo
  <2>1. k + 1 = j
    BY DEF PairsOf
  <2>. QED  BY <2>1
<1>5. CASE p.r # "ok"
  <2>1. q = p
    BY <1>5, Zenon DEF NextFont
  <2>2. ASSUME \E j \in 1 .. k : File(g).fonts[j].form # "ok"
        PROVE  \E j \in 1 .. k + 1 : File(g).fonts[j].form # "ok"
    BY <1>2, <2>2
  <2>. QED  BY <1>5, <2>1, <2>2, Zenon DEF Collected
<1>6. CASE p.r = "ok"
  <2>1. q = OtfParse(p, font)
    BY <1>6, Zenon DEF NextFont
  <2>2. Follows(g, p, V) /\ \A j \in 1 .. k : File(g).fonts[j].form = "ok"
    BY <1>6 DEF Collected
  <2>3. font = File(g).fonts[k + 1]
    OBVIOUS
  <2> DEFINE i == k + 1
  <2>. HIDE DEF font, V, fonts
  <2>4. /\ q \in InParse
        /\ \/ q.r = "oom"
           \/ q.r \in {"unrecognized", "corrupted"} /\ font.form # "ok"
           \/ /\ q.r = "ok" /\ font.form = "ok"
              /\ Follows(g, q, V \cup PairsOf(g, k + 1, OwnFaces(Records(font))))
    <3>1. /\ i \in Nat /\ \A t : <<g.name, <<i, t>>>> \notin V
          /\ font = File(g).fonts[i] /\ font \in FontTables /\ p \in InParse
      BY <1>1, <1>2, <1>4, <2>3
    <3>. HIDE DEF i
    <3>2. Given(g, V, i, font, q)
      BY <1>6, <2>1, <2>2, <3>1, OtfHeard
    <3>. QED  BY <3>2, Zenon DEF i, Given
  <2>5. k + 1 \in 1 .. k + 1
    OBVIOUS
  <2>6. font.form # "ok" => \E j \in 1 .. k + 1 : File(g).fonts[j].form # "ok"
    BY <2>3, <2>5, Zenon
  <2>7. font.form = "ok" => \A j \in 1 .. k + 1 : File(g).fonts[j].form = "ok"
    BY <1>2, <2>2, <2>3
  <2>. HIDE DEF new
  <2>8. \/ q.r = "oom"
        \/ q.r \in {"unrecognized", "corrupted"} /\ font.form # "ok"
        \/ /\ q.r = "ok" /\ font.form = "ok"
           /\ Follows(g, q, W \cup FontsTo(g, k + 1))
    BY <1>3, <2>4, Zenon DEF new
  <2>. QED  BY <2>4, <2>6, <2>7, <2>8, Zenon DEF Collected
<1>. QED  BY <1>5, <1>6

\* The parse of all of them.
LEMMA FileHeard ==
  ASSUME NEW g \in AddedFiles, NEW W, \A t : <<g.name, t>> \notin W,
         NEW p0 \in InParse, p0.r = "ok", Follows(g, p0, W),
         NEW p, p = IF File(g).kind = "ttc" THEN TtcParse(p0, File(g)) ELSE OtfFile(p0, File(g))
  PROVE  Collected(g, W, Len(File(g).fonts), p)
<1> DEFINE fonts == File(g).fonts
           n == Len(fonts)
           I == {x \in Nat \X InParse : Collected(g, W, x[1], x[2])}
<1>1. fonts \in Seq(FontTables) /\ (File(g).kind # "ttc" => n = 1)
  BY CacheAssumption DEF File, AddedFiles, FontFiles
<1>2. Collected(g, W, 0, p0)
  <2>1. 1 .. 0 = {}
    OBVIOUS
  <2>2. FontsTo(g, 0) = {}
    BY <2>1, Zenon DEF FontsTo
  <2>3. W \cup {} = W
    OBVIOUS
  <2>. QED  BY <2>1, <2>2, <2>3, Zenon DEF Collected
<1>3. CASE File(g).kind = "ttc"
  <2>1. p = FoldLeft(NextFont, p0, fonts)
    BY <1>3, Zenon DEF TtcParse
  <2>2. p = Collections!Fold(p0, fonts)
    BY <2>1 DEF Collections!Fold, FoldLeft, Collections!FoldLeft, MapThenFoldSet,
         Collections!MapThenFoldSet, Max, Collections!Max
  <2>3. <<0, p0>> \in I
    BY <1>2
  <2>4. ASSUME NEW k \in Nat, NEW acc, k < n, <<k, acc>> \in I
        PROVE  <<k + 1, NextFont(acc, fonts[k + 1])>> \in I
    <3> DEFINE next == NextFont(acc, File(g).fonts[k + 1])
    <3>1. Collected(g, W, k, acc)
      BY <2>4
    <3>2. next = NextFont(acc, File(g).fonts[k + 1])
      OBVIOUS
    <3>. HIDE DEF next
    <3>3. Collected(g, W, k + 1, next)
      BY <2>4, <3>1, <3>2, FontStep
    <3>4. next \in InParse
      BY <3>3, Zenon DEF Collected
    <3>. QED  BY <3>3, <3>4 DEF next
  <2>. HIDE DEF I, fonts
  <2>5. <<n, Collections!Fold(p0, fonts)>> \in I
    BY <1>1, <2>3, <2>4, Collections!FoldSteps
  <2>. QED  BY <2>2, <2>5 DEF I, fonts
<1>4. CASE File(g).kind # "ttc"
  <2>1. p = NextFont(p0, fonts[1])
    BY <1>4, Zenon DEF OtfFile, NextFont
  <2>2. n = 1
    BY <1>1, <1>4
  <2>3. 0 < n /\ 0 + 1 = 1 /\ 0 \in Nat
    BY <2>2
  <2>4. p = NextFont(p0, File(g).fonts[0 + 1])
    BY <2>1, <2>3
  <2>. HIDE DEF n
  <2>5. Collected(g, W, 0 + 1, p)
    <3>1. 0 < Len(File(g).fonts)
      BY <2>3 DEF n
    <3>. QED  BY <1>2, <2>3, <2>4, <3>1, FontStep
  <2>. QED  BY <2>2, <2>3, <2>5 DEF n
<1>. QED  BY <1>3, <1>4

-----------------------------------------------------------------------------
(***************************************************************************)
(* What a file adds to the index.                                          *)
(***************************************************************************)
\* If all fonts can be read, their faces are what is due for the file.
LEMMA FontsDue ==
  ASSUME NEW g \in AddedFiles
  PROVE  LET n == Len(File(g).fonts)
         IN  /\ (\A j \in 1 .. n : File(g).fonts[j].form = "ok")
                  => {g.name} \X Due(File(g)) = FontsTo(g, n)
             /\ (\E j \in 1 .. n : File(g).fonts[j].form # "ok") => Due(File(g)) = {}
<1> DEFINE fonts == File(g).fonts
           n == Len(fonts)
           own(j) == OwnFaces(Records(fonts[j]))
<1>1. DOMAIN fonts = 1 .. n
  <2>1. fonts \in Seq(FontTables)
    BY CacheAssumption DEF File, AddedFiles, FontFiles
  <2>. HIDE DEF fonts
  <2>. QED  BY <2>1
<1>2. Readable(File(g)) <=> /\ \A j \in 1 .. n : fonts[j].form = "ok"
                            /\ \E j \in 1 .. n : own(j) # {}
  BY <1>1, Zenon DEF Readable
<1>3. Due(File(g)) = IF ~Readable(File(g)) THEN {}
                     ELSE UNION {{<<j, f>> : f \in own(j)} : j \in 1 .. n}
  BY <1>1, Zenon DEF Due
<1>4. FontsTo(g, n) = UNION {{g.name} \X ({j} \X own(j)) : j \in 1 .. n}
  BY Zenon DEF FontsTo, PairsOf
<1>. HIDE DEF own, n, fonts
<1>5. ASSUME \A j \in 1 .. n : fonts[j].form = "ok"
      PROVE  {g.name} \X Due(File(g)) = FontsTo(g, n)
  <2>1. CASE Readable(File(g))
    <3>1. Due(File(g)) = UNION {{<<j, f>> : f \in own(j)} : j \in 1 .. n}
      BY <1>3, <2>1
    <3>. QED  BY <1>4, <3>1
  <2>2. CASE ~Readable(File(g))
    <3>1. Due(File(g)) = {} /\ \A j \in 1 .. n : own(j) = {}
      BY <1>2, <1>3, <1>5, <2>2
    <3>. QED  BY <1>4, <3>1
  <2>. QED  BY <2>1, <2>2
<1>6. ASSUME \E j \in 1 .. n : fonts[j].form # "ok"
      PROVE  Due(File(g)) = {}
  BY <1>2, <1>3, <1>6
<1>. QED  BY <1>5, <1>6 DEF n, fonts

\* What is due, and what the entries say, when the file n was written from too.
Gains(from, to, n, more) ==
  /\ DueOf(to) = DueOf(from) \cup more
  /\ \A t : <<n, t>> \notin DueOf(from)
  /\ \A w \in DueOf(from) : \A e : IsEntry(e, w, from) => IsEntry(e, w, to)

LEMMA DueAdded ==
  ASSUME NEW from \in Sources, NEW n \in Names, from[n] = NoFile,
         NEW v \in Fonts \cup {Lost}
  PROVE  Gains(from, [from EXCEPT ![n] = v], n,
               IF v = Lost THEN {} ELSE {n} \X Due(Content[v]))
<1> DEFINE to == [from EXCEPT ![n] = v]
<1>1. /\ n \notin {m \in Names : from[m] \in Fonts} /\ to[n] = v
      /\ \A m \in Names \ {n} : to[m] = from[m]
  BY CacheAssumption DEF Sources
<1> DEFINE due(s, m) == {m} \X Due(Content[s[m]])
           there(s) == {m \in Names : s[m] \in Fonts}
<1>2. \A s, w : w \in DueOf(s) <=> \E m \in there(s) : w \in due(s, m)
  BY DEF DueOf
<1>3. \A m \in there(from) : m # n /\ due(to, m) = due(from, m)
  BY <1>1
<1>4. /\ v \in Fonts => there(to) = there(from) \cup {n}
      /\ v = Lost => there(to) = there(from)
  BY <1>1, CacheAssumption
<1>5. ASSUME v \in Fonts
      PROVE  DueOf(to) = DueOf(from) \cup ({n} \X Due(Content[v]))
  <2>1. due(to, n) = {n} \X Due(Content[v])
    BY <1>1
  <2>. HIDE DEF due, there
  <2>2. \A w : w \in DueOf(to) <=> w \in DueOf(from) \/ w \in due(to, n)
    BY <1>2, <1>3, <1>4, <1>5
  <2>3. DueOf(to) = DueOf(from) \cup due(to, n)
    BY <2>2
  <2>. QED  BY <2>1, <2>3
<1>6. ASSUME v = Lost
      PROVE  DueOf(to) = DueOf(from)
  <2>. HIDE DEF due, there
  <2>1. \A w : w \in DueOf(to) <=> w \in DueOf(from)
    BY <1>2, <1>3, <1>4, <1>6
  <2>. QED  BY <2>1
<1>7. \A w \in DueOf(from) : w[1] \in there(from)
  BY <1>2
<1>8. \A t : <<n, t>> \notin DueOf(from)
  <2>. SUFFICES ASSUME NEW t, <<n, t>> \in DueOf(from) PROVE FALSE
    OBVIOUS
  <2>1. <<n, t>>[1] \in there(from)
    BY <1>7
  <2>. QED  BY <1>1, <2>1
<1>9. ASSUME NEW w \in DueOf(from), NEW e, IsEntry(e, w, from)
      PROVE  IsEntry(e, w, to)
  <2>1. from[w[1]] = to[w[1]]
    BY <1>1, <1>7
  <2>. QED  BY <1>9, <2>1, Zenon DEF IsEntry
<1>. HIDE DEF to
<1>10. DueOf(to) = DueOf(from) \cup IF v = Lost THEN {} ELSE {n} \X Due(Content[v])
  BY <1>5, <1>6
<1>11. Gains(from, to, n, IF v = Lost THEN {} ELSE {n} \X Due(Content[v]))
  BY <1>8, <1>9, <1>10, Zenon DEF Gains
<1>. QED  BY <1>11, Zenon DEF to

\* The lines of a file without a face, or of one that did not fit, add no entry.
LEMMA ErrorBlock ==
  ASSUME NEW d \in Seq(Lines), ReadLines(d).named = FALSE,
         NEW n \in Names, NEW format \in Formats,
         NEW e, e = Block(d, n, format) \o <<Line("err", Empty), EndLine>>
  PROVE  e \in Seq(Lines) /\ ReadLines(e).index = ReadLines(d).index
<1> DEFINE b == Block(d, n, format)
           l == Line("err", Empty)
           m == Append(b, l)
<1>1. b \in Seq(Lines) /\ ReadLines(b).index = ReadLines(d).index
  <2>1. Opens(d, n, format, Block(d, n, format))
    BY BlockRead
  <2>. QED  BY <2>1, Zenon DEF Opens
<1>2. m \in Seq(Lines) /\ ReadLines(m).index = ReadLines(b).index
  <2>. HIDE DEF b
  <2>. QED  BY <1>1, ErrorRead
<1>3. /\ Append(m, EndLine) \in Seq(Lines)
      /\ ReadLines(Append(m, EndLine)).index = ReadLines(m).index
  <2>. HIDE DEF m
  <2>. QED  BY <1>2, EndIndex
<1>4. e = Append(m, EndLine)
  <2>1. l \in Lines /\ EndLine \in Lines /\ e = b \o <<l, EndLine>>
    BY DEF Line, Lines, EndLine, Texts
  <2>. HIDE DEF b, l
  <2>2. b \o <<l, EndLine>> = Append(Append(b, l), EndLine)
    BY <1>1, <2>1
  <2>. QED  BY <2>1, <2>2, Zenon
<1>. QED  BY <1>1, <1>2, <1>3, <1>4, Zenon

\* A file that is added leaves the index with what is due for it and no other
\* entry, if the index has as many as were counted.
LEMMA FileIndexed ==
  ASSUME NEW s \in FontSets, Closed(s), Counted(s),
         NEW from \in Sources, Tells(s.db, DueOf(from), from),
         NEW n \in Names, from[n] = NoFile, NEW v \in Fonts, NEW room \in Nat,
         NEW t, Made(s, n, room, Content[v], t), t # s, Counted(t),
         NEW to, to = [from EXCEPT ![n] = IF Roomy(room, s, n, Content[v]) THEN v ELSE Lost]
  PROVE  Tells(t.db, DueOf(to), to)
<1> DEFINE ff == Content[v]
           whole == [from EXCEPT ![n] = v]
           g == [name |-> n, to |-> whole, faces |-> s.faces]
           W == DueOf(from)
           p0 == Parse(room, Block(s.db, n, ff.kind))
           p == IF ff.kind = "ttc" THEN TtcParse(p0, ff) ELSE OtfFile(p0, ff)
           m == Len(ff.fonts)
           V == W \cup FontsTo(g, m)
           index == ReadLines(s.db).index
           roomy == Roomy(room, s, n, ff)
<1>1. /\ g \in AddedFiles /\ g.name = n /\ g.to = whole /\ g.faces = s.faces
      /\ File(g) = ff
  <2>1. whole \in Sources /\ whole[n] = v
    BY DEF Sources
  <2>2. s.faces \in Nat
    BY DEF FontSets
  <2>. HIDE DEF whole
  <2>3. g \in AddedFiles /\ g.name = n /\ g.to = whole /\ g.faces = s.faces
    BY <2>1, <2>2 DEF AddedFiles
  <2>. HIDE DEF g
  <2>4. File(g) = Content[v]
    BY <2>1, <2>3 DEF File
  <2>. QED  BY <2>3, <2>4
<1>2. ff \in FontFiles /\ ff.kind \in Formats
  BY CacheAssumption DEF FontFiles, Formats
<1>3. /\ s.db \in Seq(Lines) /\ s.faces \in Nat /\ ReadLines(s.db).named = FALSE
      /\ Len(index) = s.faces
  BY DEF FontSets, Closed, Counted
<1>4. /\ whole = [from EXCEPT ![n] = v] /\ (roomy => to = whole)
      /\ (~roomy => to = [from EXCEPT ![n] = Lost])
  BY Zenon
<1>5. /\ DueOf(whole) = W \cup ({n} \X Due(ff))
      /\ \A x : <<n, x>> \notin W
      /\ \A w \in W : \A e : IsEntry(e, w, from) => IsEntry(e, w, whole)
  <2>1. v \in Fonts \cup {Lost} /\ v # Lost
    BY CacheAssumption
  <2>. HIDE DEF W, ff
  <2>2. Gains(from, whole, n, IF v = Lost THEN {} ELSE {n} \X Due(Content[v]))
    BY <2>1, DueAdded
  <2>3. Gains(from, whole, n, {n} \X Due(Content[v]))
    BY <2>1, <2>2, Zenon
  <2>. QED  BY <2>3, Zenon DEF Gains, W, ff
<1>6. ASSUME ~roomy
      PROVE  /\ DueOf(to) = W
             /\ \A w \in W : \A e : IsEntry(e, w, from) => IsEntry(e, w, to)
  <2>1. Lost \in Fonts \cup {Lost} /\ to = [from EXCEPT ![n] = Lost]
    BY <1>4, <1>6
  <2>2. Gains(from, [from EXCEPT ![n] = Lost], n,
              IF Lost = Lost THEN {} ELSE {n} \X Due(Content[Lost]))
    BY <2>1, DueAdded
  <2>3. Gains(from, to, n, {})
    BY <2>1, <2>2, Zenon
  <2>4. W \cup {} = W
    OBVIOUS
  <2>. QED  BY <2>3, <2>4, Zenon DEF Gains
<1>7. /\ IsFiniteSet(W) /\ Len(index) = Cardinality(W)
      /\ \A w \in W : \E i \in DOMAIN index : IsEntry(index[i], w, from)
  BY Zenon DEF Tells
<1>8. Opens(s.db, n, ff.kind, Block(s.db, n, ff.kind))
  <2>. HIDE DEF ff
  <2>. QED  BY <1>2, <1>3, BlockRead
<1>9. p0 \in InParse /\ p0.r = "ok" /\ p0.count = 0 /\ p0.db = Block(s.db, n, ff.kind)
  <2> DEFINE d == Block(s.db, n, ff.kind)
             k == Len(d)
             q == [db |-> d, room |-> room, ver |-> k, face |-> k, lang |-> 0,
                   count |-> 0, r |-> "ok"]
  <2>1. d \in Seq(Lines)
    BY <1>8, Zenon DEF Opens
  <2>2. p0 = q
    BY DEF Parse
  <2>3. k \in Nat
    <3>. HIDE DEF d
    <3>. QED  BY <2>1
  <2>. HIDE DEF d, k, p0
  <2>4. p0 \in InParse /\ p0.r = "ok" /\ p0.count = 0 /\ p0.db = d
    BY <2>1, <2>2, <2>3 DEF InParse
  <2>. QED  BY <2>4 DEF d
<1>. HIDE DEF ff, whole, g, W, p0, p, roomy
<1>10. Exactly(g, p0, W)
  <2>1. AtFile(g, p0.db)
    BY <1>1, <1>8, <1>9, Zenon DEF AtFile, Opens
  <2>2. ReadLines(p0.db).index = index
    BY <1>8, <1>9, Zenon DEF Opens
  <2>3. \A w \in W : \E i \in DOMAIN index : IsEntry(index[i], w, g.to)
    BY <1>1, <1>5, <1>7
  <2>4. Tells(p0.db, W, g.to)
    BY <1>7, <2>2, <2>3, Zenon DEF Tells
  <2>5. Cardinality(W) = g.faces + p0.count
    BY <1>1, <1>3, <1>7, <1>9
  <2>. QED  BY <2>1, <2>4, <2>5, Zenon DEF Exactly
<1>11. Collected(g, W, m, p)
  <2>1. \A x : <<g.name, x>> \notin W
    BY <1>1, <1>5
  <2>2. p = IF File(g).kind = "ttc" THEN TtcParse(p0, File(g)) ELSE OtfFile(p0, File(g))
    BY <1>1, Zenon DEF p
  <2>3. Follows(g, p0, W)
    BY <1>10, Zenon DEF Follows
  <2>4. Collected(g, W, Len(File(g).fonts), p)
    BY <1>1, <1>9, <2>1, <2>2, <2>3, FileHeard
  <2>. QED  BY <1>1, <2>4, Zenon
<1>12. /\ roomy <=> p.r # "oom" /\ (Good(p) => Len(p.db) < room)
       /\ \/ /\ Good(p) /\ Len(p.db) < room
             /\ t.db = Append(p.db, EndLine) /\ t.faces = s.faces + p.count
          \/ /\ ~(Good(p) /\ Len(p.db) < room)
             /\ \E format \in Formats :
                  t.db = Block(s.db, n, format) \o <<Line("err", Empty), EndLine>>
  <2>1. Parsed(room, s, n, ff) = p
    BY Zenon DEF Parsed, p, p0
  <2>2. roomy <=> p.r # "oom" /\ (Good(p) => Len(p.db) < room)
    BY <2>1, RoomyIs, Zenon DEF roomy
  <2>3. \A db, k : Longer(s, db, k).db = db /\ Longer(s, db, k).faces = s.faces + k
    BY DEF Longer
  <2>4. \/ Good(p) /\ Len(p.db) < room /\ t = Longer(s, Append(p.db, EndLine), p.count)
        \/ /\ ~(Good(p) /\ Len(p.db) < room)
           /\ \E format \in Formats :
                t = Longer(s, Block(s.db, n, format) \o <<Line("err", Empty), EndLine>>, 0)
    BY <2>1, Zenon DEF Made, ff
  <2>. QED  BY <2>2, <2>3, <2>4, Zenon
<1>13. /\ (\A j \in 1 .. m : ff.fonts[j].form = "ok") => {n} \X Due(ff) = FontsTo(g, m)
       /\ (\E j \in 1 .. m : ff.fonts[j].form # "ok") => Due(ff) = {}
  <2>1. LET k == Len(File(g).fonts)
        IN  /\ (\A j \in 1 .. k : File(g).fonts[j].form = "ok")
                 => {g.name} \X Due(File(g)) = FontsTo(g, k)
            /\ (\E j \in 1 .. k : File(g).fonts[j].form # "ok") => Due(File(g)) = {}
    BY <1>1, FontsDue
  <2>. QED  BY <1>1, <2>1, Zenon
<1>. HIDE DEF m
<1>14. CASE /\ Good(p) /\ Len(p.db) < room
            /\ t.db = Append(p.db, EndLine) /\ t.faces = s.faces + p.count
  <2>1. p.r = "ok" /\ p.count > 0 /\ p \in InParse
    BY <1>11, <1>14 DEF Good, Collected
  <2>2. Follows(g, p, V) /\ \A j \in 1 .. m : ff.fonts[j].form = "ok"
    BY <1>1, <1>11, <2>1 DEF Collected
  <2>3. ReadLines(t.db).index = ReadLines(p.db).index
    <3>1. p.db \in Seq(Lines)
      BY <2>1 DEF InParse
    <3>. QED  BY <1>14, <3>1, EndIndex
  <2>4. ~Behind(g, p)
    <3>1. Len(ReadLines(t.db).index) = t.faces
      BY DEF Counted
    <3>2. p.count \in Nat
      BY <2>1 DEF InParse
    <3> DEFINE x == Len(ReadLines(p.db).index)
    <3>3. x = g.faces + p.count /\ g.faces \in Nat
      BY <1>1, <1>3, <1>14, <2>3, <3>1
    <3>. HIDE DEF x
    <3>4. ~(x < g.faces + p.count)
      BY <3>2, <3>3
    <3>. QED  BY <3>4, Zenon DEF Behind, x
  <2>5. Tells(p.db, V, g.to)
    BY <2>2, <2>4, Zenon DEF Follows, Exactly
  <2>6. roomy /\ to = g.to
    BY <1>1, <1>4, <1>12, <1>14, <2>1
  <2>7. DueOf(to) = V
    BY <1>1, <1>5, <1>13, <2>2, <2>6
  <2>. QED  BY <2>3, <2>5, <2>6, <2>7, Zenon DEF Tells
<1>15. CASE /\ ~(Good(p) /\ Len(p.db) < room)
            /\ \E format \in Formats :
                 t.db = Block(s.db, n, format) \o <<Line("err", Empty), EndLine>>
  <2>1. ReadLines(t.db).index = index
    BY <1>3, <1>15, ErrorBlock
  <2>2. ASSUME DueOf(to) = W, \A w \in W : \A e : IsEntry(e, w, from) => IsEntry(e, w, to)
        PROVE  Tells(t.db, DueOf(to), to)
    <3>1. \A w \in W : \E i \in DOMAIN index : IsEntry(index[i], w, to)
      BY <1>7, <2>2
    <3>. QED  BY <1>7, <2>1, <2>2, <3>1, Zenon DEF Tells
  <2>3. CASE ~roomy
    BY <1>6, <2>2, <2>3
  <2>4. CASE roomy
    <3>1. p.r # "oom" /\ ~Good(p) /\ to = whole
      BY <1>4, <1>12, <1>15, <2>4
    <3>2. CASE /\ p.r \in {"unrecognized", "corrupted"}
               /\ \E j \in 1 .. m : ff.fonts[j].form # "ok"
      <4>1. Due(ff) = {}
        BY <1>13, <3>2
      <4>2. DueOf(to) = W
        BY <1>5, <3>1, <4>1
      <4>3. \A w \in W : \A e : IsEntry(e, w, from) => IsEntry(e, w, to)
        BY <1>5, <3>1, Zenon
      <4>. QED  BY <2>2, <4>2, <4>3
    <3>3. CASE /\ p.r = "ok" /\ \A j \in 1 .. m : ff.fonts[j].form = "ok"
               /\ Follows(g, p, V)
      <4>1. p.count = 0
        <5>1. p.count \in Nat
          BY <1>11 DEF Collected, InParse
        <5>. QED  BY <3>1, <3>3, <5>1 DEF Good
      <4>2. Exactly(g, p, V)
        <5>1. ~(p.count > 0)
          BY <4>1
        <5>. QED  BY <3>3, <5>1, Zenon DEF Follows, Behind
      <4>3. IsFiniteSet(V) /\ Cardinality(V) = g.faces + p.count
        BY <4>2, Zenon DEF Exactly, Tells
      <4>4. Cardinality(V) = Cardinality(W)
        BY <1>1, <1>3, <1>7, <4>1, <4>3
      <4>5. W \subseteq V
        OBVIOUS
      <4>6. DueOf(to) = V
        BY <1>5, <1>13, <3>1, <3>3
      <4>. HIDE DEF V
      <4>7. W = V
        BY <4>3, <4>4, <4>5, FS_Subset
      <4>8. \A w \in W : \A e : IsEntry(e, w, from) => IsEntry(e, w, to)
        BY <1>5, <3>1, Zenon
      <4>. QED  BY <2>2, <4>6, <4>7, <4>8
    <3>. QED  BY <1>1, <1>11, <3>1, <3>2, <3>3 DEF Collected
  <2>. QED  BY <2>3, <2>4
<1>. QED  BY <1>12, <1>14, <1>15, Zenon

-----------------------------------------------------------------------------
(***************************************************************************)
(* The invariant for IndexExact, beside CInv: the lines of the set, if     *)
(* they have the faces that were counted, and those of the cache file,     *)
(* torn or not, give what is due for the files they were written from.     *)
(***************************************************************************)
SetExact == Counted(Own) => Tells(set.db, DueOf(src), src)
FileExact == file # NoFile => Tells(file.db, DueOf(file.src), file.src)

ExactInv == CInv /\ SetExact /\ FileExact

\* Nothing was written from nothing.
LEMMA NothingTold == Tells(<< >>, DueOf(Nothing), Nothing)
<1>1. DueOf(Nothing) = {}
  BY CacheAssumption DEF DueOf, Nothing
<1>2. Len(ReadLines(<< >>).index) = 0
  BY NothingIsRead
<1>3. IsFiniteSet({}) /\ Cardinality({}) = 0
  BY FS_EmptySet
<1>. QED  BY <1>1, <1>2, <1>3 DEF Tells

LEMMA NothingExact ==
  /\ set.db = << >> /\ src = Nothing => SetExact
  /\ set'.db = << >> /\ src' = Nothing => SetExact'
BY NothingTold DEF SetExact

LEMMA FailExact ==
  ASSUME NEW why, NEW next, Fail(why, next)
  PROVE  SetExact'
BY NothingExact DEF Fail, NoSet

LEMMA SetExactFrame == SetExact /\ UNCHANGED <<set, src, began>> => SetExact'
BY DEF SetExact, Counted, Own

\* Lines that may be indexed or saved have the faces that were counted.
LEMMA SetCounted == CInv /\ pc \notin {"walk", "index"} => Counted(Own)
BY DEF CInv, SetOK, Sound, WalksOK, ShortOK, PastIndex

\* The lines come back from the file as they were.
LEMMA LoadCacheExact ==
  ASSUME ExactInv, LoadCache
  PROVE  SetExact'
<1>1. CASE \E why \in {"unrecognized", "error"} : Fail(why, "scan")
  BY <1>1, FailExact
<1>2. CASE /\ Whole
           /\ set' = [db |-> SubSeq(file.db, 1, file.len - 1),
                      files |-> file.files, faces |-> file.faces]
           /\ src' = file.src
  <2>1. /\ file # NoFile /\ file.len = file.size /\ FileOK
        /\ Tells(file.db, DueOf(file.src), file.src)
    BY <1>2 DEF ExactInv, CInv, Whole, FileExact
  <2>2. file \in CacheFiles /\ file.size = 1 + Len(file.db)
    BY <2>1 DEF FileOK
  <2>3. SubSeq(file.db, 1, file.len - 1) = file.db
    <3>1. file.db \in Seq(Lines) /\ Len(file.db) \in Nat /\ file.len - 1 = Len(file.db)
      BY <2>1, <2>2 DEF CacheFiles
    <3>. QED  BY <3>1, SubSeqFull
  <2>4. set'.db = file.db /\ src' = file.src
    BY <1>2, <2>3
  <2>5. Tells(set'.db, DueOf(src'), src')
    BY <2>1, <2>4
  <2>. QED  BY <2>5 DEF SetExact, Tells, DueOf
<1>. QED  BY <1>1, <1>2 DEF LoadCache

\* A file the walk meets adds what is due for it.
LEMMA ScanFileExact ==
  ASSUME ExactInv, NEW n \in Names, ScanFile(n)
  PROVE  SetExact'
<1> DEFINE v == dir[n]
           ff == Content[v]
           kept(room) == IF set' = set THEN NoFile
                         ELSE IF Roomy(room, set, n, ff) THEN v ELSE Lost
<1>1. /\ TypeOK /\ SetOK /\ WalksOK /\ SetExact /\ pc = "walk" /\ began' = began
      /\ n \in Present /\ n \notin visited
  BY DEF ExactInv, CInv, ScanFile, Visit
<1>2. v \in Fonts /\ src \in Sources /\ src[n] = NoFile
  <2>1. v \in Fonts /\ src \in Sources
    BY <1>1 DEF Present, TypeOK
  <2>2. n \notin SrcNames(src)
    BY <1>1 DEF WalksOK, WalkOK
  <2>. QED  BY <2>1, <2>2 DEF SrcNames
<1>3. ff \in FontFiles /\ (ff.kind # "ttc" => Len(ff.fonts) = 1)
  BY <1>2, CacheAssumption
<1>4. PICK room \in Nat :
        set' = AddFont(room, set, n, ff) /\ src' = [src EXCEPT ![n] = kept(room)]
  <2>1. PICK k \in Rooms :
          /\ set' = AddFont(Len(set.db) + k, set, n, ff)
          /\ src' = [src EXCEPT ![n] = kept(Len(set.db) + k)]
    BY DEF ScanFile
  <2>2. Len(set.db) + k \in Nat
    <3>1. k \in Nat /\ set.db \in Seq(Lines)
      BY <1>1, CacheAssumption DEF SetOK, FontSets
    <3>. QED  BY <3>1
  <2>. HIDE DEF kept
  <2>. QED  BY <2>1, <2>2
<1>5. /\ set \in FontSets /\ began \in Counts /\ Own \in FontSets /\ Closed(Own)
      /\ Counted(Own) \/ Short(Own)
  BY <1>1 DEF SetOK, Sound
<1>6. Made(set, n, room, ff, set')
  <2>. HIDE DEF ff
  <2>. QED  BY <1>3, <1>4, <1>5, FontMade
<1>7. /\ Made(Own, n, room, ff, Own')
      /\ Roomy(room, Own, n, ff) <=> Roomy(room, set, n, ff)
      /\ Own' = Own => set' = set
  <2>. HIDE DEF ff
  <2>. QED  BY <1>1, <1>3, <1>5, <1>6, MadeLess DEF Own
<1>8. CASE set' = set
  <2>1. src' = [src EXCEPT ![n] = NoFile]
    BY <1>4, <1>8, Zenon
  <2>2. src' = src
    BY <1>2, <2>1 DEF Sources
  <2>. QED  BY <1>1, <1>8, <2>2, SetExactFrame
<1>9. CASE set' # set
  <2> DEFINE o == Own
             t == Own'
             to == [src EXCEPT ![n] = IF Roomy(room, o, n, Content[v]) THEN v ELSE Lost]
  <2>1. src' = to
    BY <1>4, <1>7, <1>9, Zenon
  <2>2. o.db = set.db /\ t.db = set'.db
    BY DEF Own, Less
  <2>3. /\ Made(o, n, room, Content[v], t) /\ o \in FontSets /\ Closed(o)
        /\ Counted(o) \/ Short(o)
        /\ t # o
    BY <1>5, <1>7, <1>9
  <2>4. Counted(o) => Tells(o.db, DueOf(src), src)
    BY <1>1, <2>2 DEF SetExact
  <2>5. SUFFICES ASSUME Counted(t) PROVE Tells(t.db, DueOf(to), to)
    <3>. HIDE DEF to
    <3>. QED  BY <2>1, <2>2 DEF SetExact, Counted, Tells, DueOf
  <2>. HIDE DEF o, t
  <2>6. Blocked(o, n, room, Content[v], t)
    <3>. HIDE DEF v
    <3>. QED  BY <1>3, <2>3, MadeAdds DEF ff
  <2>7. t \in FontSets /\ (Counted(o) \/ Short(t))
    BY <2>3, <2>6 DEF Blocked
  <2>8. Counted(o)
    BY <2>5, <2>7, CountedNotShort
  <2>. HIDE DEF to, v
  <2>9. to = [src EXCEPT ![n] = IF Roomy(room, o, n, Content[v]) THEN v ELSE Lost]
    BY DEF to
  <2>. QED  BY <1>2, <2>3, <2>4, <2>5, <2>8, <2>9, FileIndexed
<1>. QED  BY <1>8, <1>9

\* The file is written from the lines of the set.
LEMMA SaveExact ==
  ASSUME ExactInv, OpenCache \/ WriteCache
  PROVE  FileExact'
<1>1. /\ pc \in {"save", "saving"} /\ set' = set /\ src' = src
      /\ \/ file' \in {file, NoFile}
         \/ \E len : file' = Dump(len)
  BY DEF OpenCache, WriteCache, origin
<1>2. CASE file' \in {file, NoFile}
  BY <1>2 DEF ExactInv, FileExact
<1>3. ASSUME NEW len, file' = Dump(len)
      PROVE  FileExact'
  <2>1. file'.db = set.db /\ file'.src = src
    BY <1>3 DEF Dump
  <2>2. Tells(set.db, DueOf(src), src)
    BY <1>1, SetCounted DEF ExactInv, SetExact
  <2>3. Tells(file'.db, DueOf(file'.src), file'.src)
    BY <2>1, <2>2
  <2>. QED  BY <2>3 DEF FileExact, Tells, DueOf
<1>. QED  BY <1>1, <1>2, <1>3

LEMMA InitExact == Init => ExactInv
BY InitCInv, NothingExact DEF Init, ExactInv, FileExact, NoSet

LEMMA NextExact == ExactInv /\ [Next]_vars => ExactInv'
<1>. SUFFICES ASSUME ExactInv, [Next]_vars PROVE ExactInv'
  OBVIOUS
<1>1. CInv /\ SetExact /\ FileExact /\ CInv'
  BY NextCInv DEF ExactInv
<1>2. SetExact'
  <2>1. ASSUME UNCHANGED <<set, src, began>> PROVE SetExact'
    BY <1>1, <2>1, SetExactFrame
  <2>2. ASSUME NEW why, NEW next, Fail(why, next) PROVE SetExact'
    BY <2>2, FailExact
  <2>3. CASE UNCHANGED vars
    BY <2>1, <2>3 DEF vars, origin
  <2>4. CASE Program
    <3>1. CASE LoadCache
      BY <3>1, LoadCacheExact
    <3>2. CASE \E n \in Names : ScanFile(n)
      BY <3>2, ScanFileExact
    <3>3. CASE CheckEnds \/ ScanEnds \/ WalkFails \/ Index \/ OpenCache \/ WriteCache
      BY <2>1, <2>2, <3>3
      DEF CheckEnds, ScanEnds, WalkFails, Index, BuildFails, OpenCache, WriteCache, origin
    <3>4. CASE BeginScan
      BY <2>2, <3>4, NothingExact DEF BeginScan
    <3>5. CASE \E n \in Names : CheckFile(n) \/ SkipFile(n)
      BY <2>1, <2>2, <3>5 DEF CheckFile, SkipFile, origin
    <3>. QED  BY <2>4, <3>1, <3>2, <3>3, <3>4, <3>5 DEF Program
  <2>5. CASE Start \/ Retry \/ DeleteCache \/ \E n \in Names : Edit(n)
    BY <2>1, <2>5 DEF Start, Retry, DeleteCache, Edit, origin
  <2>6. CASE WildPointer \/ Stop
    BY <2>6, NothingExact DEF WildPointer, Stop, Ends, NoSet
  <2>. QED  BY <2>3, <2>4, <2>5, <2>6 DEF Next
<1>3. FileExact'
  <2>1. CASE OpenCache \/ WriteCache
    BY <2>1, SaveExact
  <2>2. CASE file' \in {file, NoFile}
    BY <1>1, <2>2 DEF FileExact
  <2>3. file' \in {file, NoFile} \/ OpenCache \/ WriteCache
    BY DEF Next, Program, LoadCache, CheckFile, CheckEnds, BeginScan, ScanFile, SkipFile,
           ScanEnds, WalkFails, Index, Start, Retry, Stop, WildPointer, Ends, DeleteCache,
           Edit, vars
  <2>. QED  BY <2>1, <2>2, <2>3
<1>. QED  BY <1>1, <1>2, <1>3 DEF ExactInv

\* Whatever the font files hold, however little memory there is, whatever was
\* torn, replaced or read back: once a scan has succeeded, the index has an
\* entry for each face of each font of the files the lines were written from,
\* with its file, its format and the version the font itself says, and no other.
THEOREM IndexIsExact == Spec => []IndexExact
<1>1. ExactInv => IndexExact
  BY SetCounted DEF ExactInv, SetExact, Tells, IndexExact, Exact
<1>. QED  BY <1>1, InitExact, NextExact, PTL DEF Spec
=============================================================================
