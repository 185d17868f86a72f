------------------------------ MODULE AssFonts ------------------------------
(***************************************************************************)
(* ass_parser.c: the fonts a subtitle asks for, by the Fontname column of  *)
(* its styles and by the \fn tags in its dialogue, and the callback of     *)
(* font_loader.c that collects them.                                       *)
(*                                                                         *)
(* A line is a record of its beginning and of the rest, a sequence of      *)
(* tokens: "{", "}", "\\", "(", ")", ",", " ", "@", "fn", "0" and words.   *)
(* Words stand for themselves in lower case where the code ignores case.   *)
(***************************************************************************)
EXTENDS Integers, Sequences, SequencesExt

From(s, i) == SubSeq(s, i, Len(s))

\* The place of the first token of S, or the end.
Find(s, S) ==
  IF \E i \in DOMAIN s : s[i] \in S
    THEN CHOOSE i \in DOMAIN s : s[i] \in S /\ \A j \in 1 .. i - 1 : s[j] \notin S
    ELSE Len(s) + 1

Until(s, S) == SubSeq(s, 1, Find(s, S) - 1)
After(s, S) == From(s, Find(s, S) + 1)

(***************************************************************************)
(* ass_string.c                                                            *)
(***************************************************************************)
SkipSpaces(s) ==
  IF \E i \in DOMAIN s : s[i] # " "
    THEN From(s, CHOOSE i \in DOMAIN s : s[i] # " " /\ \A j \in 1 .. i - 1 : s[j] = " ")
    ELSE << >>

Trim(s) == Reverse(SkipSpaces(Reverse(SkipSpaces(s))))

(***************************************************************************)
(* The callback                                                            *)
(***************************************************************************)
\* fl_sub_font_callback: without the prefix of a vertical font, and once.  There
\* is memory for room names: fire_font_cb goes on without one that finds none.
SubFont(room, fonts, font) ==
  LET name == IF font # << >> /\ font[1] = "@" THEN Tail(font) ELSE font
  IN  IF name = << >> \/ Len(fonts) >= room \/ Contains(fonts, name) THEN fonts
      ELSE Append(fonts, name)

(***************************************************************************)
(* Override blocks                                                         *)
(***************************************************************************)
\* The arguments in parentheses: the last one, and what follows them.  An
\* argument with a tag in it goes up to the parenthesis.
RECURSIVE Arguments(_)
Arguments(s) ==
  LET q == SkipSpaces(s)
      r == Find(q, {",", "\\", ")"})
  IN  IF r <= Len(q) /\ q[r] = "," THEN Arguments(From(q, r + 1))
      ELSE [arg |-> Until(q, {")"}), rest |-> After(q, {")"})]

\* parse_tags: the fonts of the tags \fn of one block, in order.
RECURSIVE ParseTags(_)
ParseTags(s) ==
  IF ~Contains(s, "\\") THEN << >>
  ELSE
    LET p == SkipSpaces(After(s, {"\\"}))
        name == Until(p, {"(", "\\"})
        q == From(p, Len(name) + 1)
        nested == q # << >> /\ q[1] = "("
        args == Arguments(Tail(q))
        font == SkipSpaces(IF nested THEN args.arg ELSE Tail(name))
        rest == IF name # << >> /\ nested THEN args.rest ELSE q
    IN  (IF name # << >> /\ name[1] = "fn" /\ Tail(name) # <<"0">> THEN <<font>> ELSE << >>)
          \o ParseTags(rest)

\* parse_events: the blocks of a text.
RECURSIVE ParseText(_)
ParseText(s) ==
  LET p == From(s, Find(s, {"{"}))
  IN  IF ~Contains(p, "}") THEN << >>
      ELSE ParseTags(Until(p, {"}"})) \o ParseText(After(p, {"}"}))

(***************************************************************************)
(* Lines                                                                   *)
(***************************************************************************)
\* next_tok until it fails: the trimmed fields; an empty one at the end is lost.
RECURSIVE Split(_)
Split(s) ==
  IF s = << >> THEN << >> ELSE <<Trim(Until(s, {","}))>> \o Split(After(s, {","}))

\* What is left of the line after k calls of next_tok.
RECURSIVE Skip(_, _)
Skip(s, k) == IF k = 0 THEN s ELSE Skip(After(s, {","}), k - 1)

\* Columns of the line that the format calls so.
Columns(format, line, word) ==
  SelectSeq([k \in 1 .. Len(Split(line)) |-> k],
            LAMBDA k : k <= Len(Split(format)) /\ Split(format)[k] = <<word>>)

\* process_styles; without a format the font is the second column.
StyleFonts(format, line) ==
  LET cols == IF format = << >>
                THEN SelectSeq(<<2>>, LAMBDA k : k <= Len(Split(line)))
                ELSE Columns(format, line, "fontname")
  IN  [i \in DOMAIN cols |-> Split(line)[cols[i]]]

\* process_event_tail: the text goes from its column to the end of the line.
EventFonts(format, line) ==
  LET cols == IF format = << >>
                THEN SelectSeq(<<10>>, LAMBDA k : k <= Len(Split(line)))
                ELSE Columns(format, line, "text")
  IN  IF cols = << >> THEN << >> ELSE ParseText(SkipSpaces(Skip(line, cols[1] - 1)))

Track(room) == [state |-> "unknown", format |-> << >>, fonts |-> << >>, room |-> room]

Collect(t, fonts) ==
  LET Add(got, font) == SubFont(t.room, got, font)
  IN  [t EXCEPT !.fonts = FoldLeft(Add, @, fonts)]

\* Mutant of ProcessLine: a section's format is kept for the next one.
MutProcessLine(t, line) ==
  CASE line.head \in {"[v4 styles]", "[v4+ styles]"} -> [t EXCEPT !.state = "styles"]
    [] line.head = "[events]" -> [t EXCEPT !.state = "events"]
    [] line.head = "[other]" -> [t EXCEPT !.state = "unknown"]
    [] line.head = "Format:" /\ t.state # "unknown" -> [t EXCEPT !.format = Trim(line.rest)]
    [] line.head = "Style:" /\ t.state = "styles" ->
         Collect(t, StyleFonts(t.format, SkipSpaces(line.rest)))
    [] line.head = "Dialogue:" /\ t.state = "events" ->
         Collect(t, EventFonts(t.format, SkipSpaces(line.rest)))
    [] OTHER -> t

\* process_line: a line in brackets opens a section and forgets the format.
ProcessLine(t, line) ==
  CASE line.head \in {"[v4 styles]", "[v4+ styles]"} ->
         [t EXCEPT !.state = "styles", !.format = << >>]
    [] line.head = "[events]" -> [t EXCEPT !.state = "events", !.format = << >>]
    [] line.head = "[other]" -> [t EXCEPT !.state = "unknown", !.format = << >>]
    [] line.head = "Format:" /\ t.state # "unknown" -> [t EXCEPT !.format = Trim(line.rest)]
    [] line.head = "Style:" /\ t.state = "styles" ->
         Collect(t, StyleFonts(t.format, SkipSpaces(line.rest)))
    [] line.head = "Dialogue:" /\ t.state = "events" ->
         Collect(t, EventFonts(t.format, SkipSpaces(line.rest)))
    [] OTHER -> t

\* ass_process_data
ProcessData(room, lines) == FoldLeft(ProcessLine, Track(room), lines).fonts
=============================================================================
