---------------------------- MODULE MCFontQuery ----------------------------
(***************************************************************************)
(* Instances of FontQuery: the names "a", "A" and "ab", two font files,    *)
(* two formats, no version or one of two that FlVersionCmp finds equal, and *)
(* every sorted index of a few entries.                                    *)
(***************************************************************************)
EXTENDS FontQuery, VersionOrder

MCFaces == {"a", "A", "ab"}
MCFoldRank == [f \in MCFaces |-> IF f = "ab" THEN 1 ELSE 0]
MCPrefix == {<<f, f>> : f \in MCFaces} \cup {<<"a", "ab">>}
MCFormats == {1, 2}
MCVersions == {"none", "v11", "v12"}
MCVerRank == [v \in MCVersions |-> IF v = "none" THEN 0 ELSE 1]

\* They are "1.11" and "1.12", which FlVersionCmp of util.c finds equal.
ASSUME MCVersionsTie == WinVersionCmp(<<49, 46, 49, 49>>, <<49, 46, 49, 50>>) = 0
=============================================================================
