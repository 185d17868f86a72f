----------------------------- MODULE MCFontCache -----------------------------
(***************************************************************************)
(* Instances of FontCache: two file names and four contents, chosen so     *)
(* that every way of fs_add_font is met: a single font whose English       *)
(* version comes after another one and whose faces repeat, also in a       *)
(* second name table; a collection of which the first font has versions in *)
(* several languages but not English, and the second font has none; a      *)
(* collection that is broken after its first font; and one that is not     *)
(* Regular: a second name table of its first font takes back a face, and   *)
(* a name of its second font begins with NUL.                              *)
(***************************************************************************)
EXTENDS FontCache, TLC

CONSTANTS x, y

MCNames == {x, y}
Symmetry == Permutations(MCNames)

Rec(id, lang, text) ==
  [platform |-> 3, id |-> id, lang |-> lang, cch |-> Len(text), text |-> text]
Font(tables) == [form |-> "ok", tables |-> tables]

Single == [kind |-> "otf", fonts |-> <<Font(<<
  <<Rec(1, English, "A"), Rec(2, English, "Bold"), Rec(4, English, "A"),
    Rec(4, 2052, "B"), Rec(5, 2052, "v1"), Rec(5, English, "v2"),
    [Rec(6, English, "C") EXCEPT !.platform = 1]>>,
  <<Rec(4, English, "A"), Rec(6, English, "D")>>>>)>>]
Collection == [kind |-> "ttc", fonts |-> <<
  Font(<<<<Rec(5, 0, "v0"), Rec(5, 2052, "v1"), Rec(5, 1041, "v2"), Rec(4, English, "A")>>>>),
  Font(<<<<Rec(4, English, "A"), Rec(6, English, "")>>>>)>>]
Broken == [kind |-> "ttc", fonts |-> <<
  Font(<<<<Rec(5, English, "v1"), Rec(4, English, "B")>>>>),
  [form |-> "corrupted", tables |-> << >>]>>]
Irregular == [kind |-> "ttc", fonts |-> <<
  Font(<<<<Rec(5, 2052, "v1"), Rec(4, 2052, "A")>>,
         <<Rec(5, English, "v2"), Rec(4, English, "B")>>>>),
  Font(<<<<[Rec(1, English, "") EXCEPT !.cch = 1], Rec(4, English, "B")>>>>)>>]

MCContent == [single |-> Single, collection |-> Collection, broken |-> Broken,
              irregular |-> Irregular]
MCFonts == DOMAIN MCContent

\* Cleared memory, or what a set of one file left behind.
MCUnassigned == {Zero, [files |-> 1, faces |-> 2]}
=============================================================================
