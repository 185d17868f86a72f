----------------------------- MODULE TextAndOrder -----------------------------
(***************************************************************************)
(* The algorithms without a state of their own, each on every small input: *)
(* a subtitle read line by line (AssFonts), a path made into UTF-8 and     *)
(* back and a file decoded (TextCodec), two versions compared              *)
(* (VersionOrder) and an array sorted (TimSort).  What each one gives is   *)
(* held against a definition that does not go through its loops.           *)
(***************************************************************************)
EXTENDS AssFonts, TextCodec, VersionOrder, TimSort, FiniteSets

CONSTANTS
  Rooms,        \* names of fonts there may be memory for
  MaxLines,     \* lines of a subtitle
  MaxPieces,    \* pieces of a dialogue's text
  MaxUnits,     \* units of a path or a file
  MaxChars,     \* characters of a version
  MaxKeys       \* entries of an array

ASSUME TextAndOrderAssumption ==
  Rooms \cup {MaxLines, MaxPieces, MaxUnits, MaxChars, MaxKeys} \subseteq Nat

VARIABLES
  job,          \* what is asked
  out           \* what the code has made of it so far

vars == <<job, out>>

-----------------------------------------------------------------------------
(***************************************************************************)
(* Inputs                                                                  *)
(***************************************************************************)
L(head, rest) == [head |-> head, rest |-> rest]

Headers == {L("[v4+ styles]", << >>), L("[events]", << >>), L("[other]", << >>)}
Formats == {L("Format:", f) : f \in {
  << >>, <<" ", "x", ",", " ", "fontname">>, <<"text">>, <<"x", ",", "text">>,
  <<"fontname", ",", "x", ",", " ", "fontname">>}}
Styles == {L("Style:", s) : s \in {
  <<" ", "A">>, <<"x", ",", " ", "A", " ", "B", " ">>, <<"x", ",">>,
  <<"A", ",", "@", "B", ",", "A">>, <<"x", ",", "@">>}}
Block == <<"{", "\\", "fn", "A", "}">>
Dialogues == {L("Dialogue:", d) : d \in {
  Block, <<" ", "x", ",", "{", "\\", "fn", "A", ",", "B", "}">>,
  <<",", ",", ",", ",", ",", ",", ",", ",", ",">> \o Block,
  <<"x", ",", "x">> \o Block}}
Lines == Headers \cup Formats \cup Styles \cup Dialogues

Pieces == {
  <<"\\", "fn", "A">>, <<"\\", "fn", "(", "A", ",", " ", "B", ")">>,
  <<"\\", "t", "(", "\\", "fn", "A", ")">>, <<"\\", "fn", "0">>,
  <<"\\", "fn", "@", "B">>, <<"{">>, <<"}">>, <<"\\">>, <<" ">>, <<"(">>, <<")">>}
Texts == {L("Dialogue:", FlattenSeq(ps)) : ps \in SeqOf(Pieces, MaxPieces)}
TextOnly == <<L("[events]", << >>), L("Format:", <<"text">>)>>

\* The ends of the ranges that UTF-8 and UTF-16 tell apart, and the mark.
Boundary == {65, 127, 128, 2047, 2048, 55295, 55296, 56319, 56320, 57343, 57344,
             65279, 65535}
Encodings == {"utf8", "utf8 mark", "utf16 little", "utf16 big"}

Versions == SeqOf({48, 49, 50, 46}, MaxChars)        \* 0, 1, 2 and the dot

Init ==
  \/ \E room \in Rooms :
       \/ job = [kind |-> "subtitle", lines |-> << >>] /\ out = Track(room)
       \/ /\ job = [kind |-> "dialogue", lines |-> TextOnly]
          /\ out = FoldLeft(ProcessLine, Track(room), TextOnly)
  \/ /\ out = << >>
     /\ \/ job \in [kind : {"path"}, text : SeqOf(Boundary, MaxUnits), room : 0 .. 13]
        \/ job \in [kind : {"file"}, text : SeqOf(Boundary, MaxUnits), saved : Encodings]
        \/ job \in [kind : {"versions"}, a : Versions, b : Versions]
        \/ job \in [kind : {"sort"}, keys : SeqOf(1 .. 3, MaxKeys), room : BOOLEAN]

-----------------------------------------------------------------------------
(***************************************************************************)
(* Steps                                                                   *)
(***************************************************************************)
ReadText(l) ==
  /\ job' = [job EXCEPT !.lines = Append(@, l)]
  /\ out' = ProcessLine(out, l)

ReadSubtitle ==
  job.kind = "subtitle" /\ Len(job.lines) < MaxLines /\ \E l \in Lines : ReadText(l)

ReadDialogue ==
  job.kind = "dialogue" /\ job.lines = TextOnly /\ \E l \in Texts : ReadText(l)

Answer(kind, result) ==
  /\ job.kind = kind /\ out = << >>
  /\ out' = <<result>>
  /\ UNCHANGED job

Answered(kind) == job.kind = kind /\ out # << >>

\* Every character takes at most four bytes: a path that is not cut.
Fits(w) == 4 * Len(w) + 1

\* A path goes through the buffer and is read back up to the terminator.
ConvertPath ==
  LET buf == Terminated(job.text, job.room)
  IN  Answer("path", [buf |-> buf, text |-> Utf8ToStrDb(Front(buf))])

Bytes(w, big) ==
  FlattenSeq([i \in DOMAIN w |-> IF big THEN <<w[i] \div 256, w[i] % 256>>
                                        ELSE <<w[i] % 256, w[i] \div 256>>])
Saved(w, as) ==
  CASE as = "utf8" -> WcharToUtf8(w, Fits(w))
    [] as = "utf8 mark" -> Utf8Bom \o WcharToUtf8(w, Fits(w))
    [] as = "utf16 little" -> LittleBom \o Bytes(w, FALSE)
    [] as = "utf16 big" -> BigBom \o Bytes(w, TRUE)

DecodeFile == Answer("file", TextDecode(Saved(job.text, job.saved)))

CompareVersions == Answer("versions", [posix |-> FlVersionCmp(job.a, job.b),
                                       windows |-> WinVersionCmp(job.a, job.b)])

SortArray == Answer("sort", Sort([i \in DOMAIN job.keys |-> <<job.keys[i], i>>], job.room))

Next ==
  \/ ReadSubtitle \/ ReadDialogue
  \/ ConvertPath \/ DecodeFile
  \/ CompareVersions
  \/ SortArray

Spec == Init /\ [][Next]_vars

-----------------------------------------------------------------------------
(***************************************************************************)
(* What a subtitle asks for, said of its lines as a whole                  *)
(***************************************************************************)
Fields(s) ==
  LET ends == {0, Len(s) + 1} \cup {i \in DOMAIN s : s[i] = ","}
      end == [k \in 0 .. Cardinality(ends) - 1 |->
                CHOOSE i \in ends : Cardinality({j \in ends : j < i}) = k]
  IN  [k \in 1 .. Cardinality(ends) - 1 |-> Trim(SubSeq(s, end[k - 1] + 1, end[k] - 1))]

FromField(s, k) ==
  SubSeq(s, Len(s) + 1 - Cardinality({i \in DOMAIN s :
              Cardinality({j \in 1 .. i - 1 : s[j] = ","}) >= k - 1}), Len(s))

\* The section line i is in, and the last format line of it before i.
Section(ls, i) == Max({0} \cup {j \in 1 .. i - 1 : ls[j] \in Headers})
FormatOf(ls, i) == Max({0} \cup {j \in Section(ls, i) + 1 .. i - 1 : ls[j].head = "Format:"})
Within(ls, i, head) == Section(ls, i) # 0 /\ ls[Section(ls, i)].head = head

\* The line's columns of that name; without a format, the usual one.
ColumnsOf(ls, i, word, usual) ==
  LET f == FormatOf(ls, i)
      names == IF f = 0 THEN << >> ELSE Fields(ls[f].rest)
  IN  IF names \in {<< >>, << << >> >>} THEN {usual} \cap DOMAIN Fields(ls[i].rest)
      ELSE {k \in DOMAIN names \cap DOMAIN Fields(ls[i].rest) : names[k] = <<word>>}

\* A text is read token by token.  A tag goes up to the next backslash; its
\* last argument in parentheses, if any, stands for its name.  The fonts of a
\* block count when it is closed.
Outside == [at |-> "text", name |-> << >>, arg |-> << >>, args |-> FALSE,
            open |-> {}, fonts |-> {}]

Tagged(m) ==
  IF m.name # << >> /\ m.name[1] = "fn" /\ m.name # <<"fn", "0">>
    THEN m.open \cup {SkipSpaces(IF m.args THEN m.arg ELSE Tail(m.name))} ELSE m.open

TagEnds(m, at) == [Outside EXCEPT !.at = at, !.open = Tagged(m), !.fonts = m.fonts]

ReadToken(m, tok) ==
  CASE m.at = "text" -> IF tok = "{" THEN [m EXCEPT !.at = "block"] ELSE m
    [] m.at # "text" /\ tok = "}" -> [Outside EXCEPT !.fonts = m.fonts \cup Tagged(m)]
    [] m.at = "block" /\ tok # "}" -> IF tok = "\\" THEN [m EXCEPT !.at = "name"] ELSE m
    [] m.at = "name" /\ tok # "}" ->
         (CASE tok = "\\" -> TagEnds(m, "name")
            [] tok = "(" /\ m.name = << >> -> TagEnds(m, "block")
            [] tok = "(" /\ m.name # << >> -> [m EXCEPT !.at = "args", !.args = TRUE]
            [] tok = " " /\ m.name = << >> -> m
            [] OTHER -> [m EXCEPT !.name = Append(@, tok)])
    [] m.at \in {"args", "last"} /\ tok # "}" ->
         (CASE tok = ")" -> TagEnds(m, "block")
            [] tok = "," /\ m.at = "args" -> [m EXCEPT !.arg = << >>]
            [] OTHER -> [m EXCEPT !.arg = Append(@, tok),
                                  !.at = IF tok = "\\" THEN "last" ELSE @])

\* Fonts of the i-th line.
Named(ls, i) ==
  CASE ls[i].head = "Style:" /\ Within(ls, i, "[v4+ styles]") ->
         {Fields(ls[i].rest)[k] : k \in ColumnsOf(ls, i, "fontname", 2)}
    [] ls[i].head = "Dialogue:" /\ Within(ls, i, "[events]") ->
         UNION {FoldLeft(ReadToken, Outside, FromField(ls[i].rest, k)).fonts :
                  k \in {c \in ColumnsOf(ls, i, "text", 10) :
                           \A d \in ColumnsOf(ls, i, "text", 10) : c <= d}}
    [] OTHER -> {}

Plain(font) == IF font # << >> /\ font[1] = "@" THEN Tail(font) ELSE font

\* However its sections, formats, blocks and tags follow each other, a subtitle
\* gets exactly the fonts named in it, as far as there is memory for them: by the
\* columns the last format of the line's own section calls so and by the tags of
\* closed blocks, without the mark of a vertical font, and each name once.
FontsNamed ==
  job.kind \in {"subtitle", "dialogue"} =>
    LET named == UNION {Named(job.lines, i) : i \in DOMAIN job.lines}
        asked == {Plain(f) : f \in named} \ {<< >>}
        got == ToSet(out.fonts)
    IN  /\ got \subseteq asked /\ Len(out.fonts) = Cardinality(got)
        /\ got # asked => Len(out.fonts) = out.room

(***************************************************************************)
(* Texts, versions, arrays                                                 *)
(***************************************************************************)
\* A buffer of room + 1 bytes holds the terminator of what was written to it.
HasEnd(buf, room) == 0 \in {buf[i] : i \in DOMAIN buf \cap (1 .. room + 1)}

\* A file name survives being made into UTF-8 and back, and one that is cut is
\* cut between two characters, if the terminator is in the buffer, as it is when
\* nothing is cut; a subtitle is read as it was written, whichever way it was
\* saved, from four bytes on.
TextKept ==
  /\ Answered("path") =>
       LET kept == out[1].text
       IN  /\ job.room >= Fits(job.text) => HasEnd(out[1].buf, job.room) /\ kept = job.text
           /\ HasEnd(out[1].buf, job.room) =>
                /\ IsPrefix(kept, job.text)
                /\ kept # << >> => ~ Paired(From(job.text, Len(kept)))
  /\ Answered("file") /\ Len(Saved(job.text, job.saved)) >= 4
       /\ ~(job.saved = "utf8" /\ IsPrefix(<<65279>>, job.text)) =>
       out[1] = job.text

\* "buf is always NUL-terminated even on truncation": the byte reserved for the
\* terminator of fl_wchar_to_utf8 is there for it, however the path is cut.
AlwaysTerminated == Answered("path") => HasEnd(out[1].buf, job.room)

Sign(n) == CASE n < 0 -> -1 [] n = 0 -> 0 [] n > 0 -> 1
Order == [p \in Versions \X Versions |-> Sign(FlVersionCmp(p[1], p[2]))]

\* No number of the version begins with a zero it does not need.
Plainly(v) ==
  \A i \in DOMAIN v : v[i] = 48 /\ (i = 1 \/ v[i - 1] \notin Digit)
                        => i = Len(v) \/ v[i + 1] \notin Digit

\* The order by which the index prefers one file to another: swapped arguments
\* give the opposite, zeros that lead a number leave it equal, and on POSIX
\* versions without such zeros can be sorted by it: what comes before something
\* comes before all that follows it.
VersionsOrdered ==
  Answered("versions") =>
    /\ Sign(out[1].posix) = -Order[<<job.b, job.a>>]
    /\ Sign(out[1].windows) = -Sign(WinVersionCmp(job.b, job.a))
    /\ job.a # << >> /\ job.a[1] \in Digit =>
         /\ FlVersionCmp(<<48>> \o job.a, job.a) = 0
         /\ WinVersionCmp(<<48>> \o job.a, job.a) = 0
    /\ out[1].posix <= 0 /\ Plainly(job.a) /\ Plainly(job.b) =>
         \A c \in Versions :
           Plainly(c) /\ Order[<<job.b, c>>] <= 0 => Order[<<job.a, c>>] <= 0

\* The array has the entries it had, least first, with and without the copy.
SortedPermutation ==
  Answered("sort") =>
    LET s == out[1]
    IN  /\ Len(s) = Len(job.keys)
        /\ {s[i][2] : i \in DOMAIN s} = DOMAIN job.keys
        /\ \A i \in DOMAIN s : s[i][1] = job.keys[s[i][2]]
        /\ \A i \in DOMAIN s : i > 1 => s[i - 1][1] <= s[i][1]
=============================================================================
