---------------------------- MODULE MCFontLoad ----------------------------
(***************************************************************************)
(* Small instances of FontLoad: three faces, four files, of which f1 and   *)
(* f2 have the same content and f3 and f4 names that differ in case only.  *)
(***************************************************************************)
EXTENDS FontLoad, TLC

CONSTANTS f1, f2, f3, f4, none, h1, h3, h4, junk

MCFiles == {f1, f2, f3, f4}
MCDigest == (f1 :> h1) @@ (f2 :> h1) @@ (f3 :> h3) @@ (f4 :> h4)
MCPathLen == (f1 :> 1) @@ (f2 :> 3) @@ (f3 :> 2) @@ (f4 :> 3)
MCRank == (f1 :> 2) @@ (f2 :> 1) @@ (f3 :> 3) @@ (f4 :> 3)
MCFaceRank == <<2, 3, 1>>

\* Copies reached from several faces, and a face nothing matches.
MCCopies == [i \in 1 .. 3 |-> CASE i = 1 -> <<f1, f2>>
                                [] i = 2 -> <<f2>>
                                [] i = 3 -> << >>]
\* A face with more distinct files than LoadCap + 1, shared with others.
MCMany == [i \in 1 .. 3 |-> CASE i = 1 -> <<f3>>
                              [] i = 2 -> <<f4, f3, f1>>
                              [] i = 3 -> <<f4, f1>>]
\* The copy comes after a failure and a duplicate.
MCLate == [i \in 1 .. 3 |-> CASE i = 1 -> <<f3, f1>>
                              [] i = 2 -> <<f3>>
                              [] i = 3 -> <<f2>>]

MCIndexes == {MCCopies, MCMany, MCLate}
MCShared == {f1}
=============================================================================
