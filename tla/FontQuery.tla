----------------------------- MODULE FontQuery -----------------------------
(***************************************************************************)
(* The font index of font_set.c and a query against it: fs_iter_new finds  *)
(* the first file to load for a face by binary search, fs_iter_next the    *)
(* others of the same build.                                               *)
(*                                                                         *)
(* A face is a name; FlStrCmpIW orders names by FoldRank, ignoring case,   *)
(* while str_cmp_x compares them letter by letter, as Prefix tells.        *)
(***************************************************************************)
EXTENDS Integers, Sequences

CONSTANTS
  Faces,        \* names, in the index and asked for
  FoldRank,     \* place of a name in the order of FlStrCmpIW
  Prefix,       \* pairs of names of which the first begins the second
  Tags,         \* font files
  Formats,      \* FS_Format: the greater, the more preferred
  Versions,     \* version strings, or none (NULL)
  VerRank,      \* place of a version in the order of FlVersionCmp
  MaxFaces      \* bound on the length of the index

ASSUME QueryAssumption ==
  /\ FoldRank \in [Faces -> Nat]
  /\ Prefix \subseteq Faces \X Faces
  /\ \A f \in Faces : <<f, f>> \in Prefix
  /\ Formats \subseteq Nat
  /\ VerRank \in [Versions -> Nat]
  /\ MaxFaces \in Nat

FSIndex == [tag : Tags, face : Faces, ver : Versions, format : Formats]

VARIABLES
  pc,           \* "search", "back", "skip", "next", "step" or "end"
  index,        \* s->index, 0-based in the code, a sequence here
  blacklist,    \* files whose path matches fc-ignore.txt
  face,         \* the face asked for
  a, b, m,      \* locals of fs_iter_new
  query,        \* it->query_id
  at,           \* it->index_id
  found         \* history: the positions returned so far

locals == <<a, b, m>>
iter == <<query, at>>
vars == <<pc, index, blacklist, face, locals, iter, found>>

NumFace == Len(index)
SameFace(f, g) == FoldRank[f] = FoldRank[g]

\* fs_idx_comp: by name, then the preferred format and the newer version first.
Before(x, y) ==
  \/ FoldRank[x.face] < FoldRank[y.face]
  \/ /\ SameFace(x.face, y.face)
     /\ \/ x.format > y.format
        \/ x.format = y.format /\ VerRank[x.ver] > VerRank[y.ver]

\* What the tim_sort of fs_build_index leaves behind.
Sorted(idx) == \A i, j \in DOMAIN idx : i < j => ~Before(idx[j], idx[i])

Blacklisted(i) == index[i].tag \in blacklist

\* Mutant of Init: b = num_face, one too many.
MutInit ==
  /\ index \in {idx \in UNION {[1 .. n -> FSIndex] : n \in 0 .. MaxFaces} : Sorted(idx)}
  /\ blacklist \in SUBSET Tags
  /\ face \in Faces
  /\ pc = "search"
  /\ a = 1 /\ b = NumFace + 1 /\ m = 1
  /\ query = 0 /\ at = 0
  /\ found = << >>

Init ==
  /\ index \in {idx \in UNION {[1 .. n -> FSIndex] : n \in 0 .. MaxFaces} : Sorted(idx)}
  /\ blacklist \in SUBSET Tags
  /\ face \in Faces
  /\ pc = "search"
  /\ a = 1 /\ b = NumFace /\ m = 1
  /\ query = 0 /\ at = 0
  /\ found = << >>

(***************************************************************************)
(* fs_iter_new                                                             *)
(***************************************************************************)
\* Mutant of Search: b = m.
MutSearch ==
  /\ pc = "search"
  /\ a <= b
  /\ m' = a + (b - a) \div 2
  /\ LET got == index[m'].face
     IN  \/ /\ SameFace(face, got)
            /\ a' = m' /\ b' = m'
            /\ pc' = "back"
         \/ /\ FoldRank[face] > FoldRank[got]
            /\ a' = m' + 1
            /\ UNCHANGED <<b, pc>>
         \/ /\ FoldRank[face] < FoldRank[got]
            /\ b' = m'
            /\ UNCHANGED <<a, pc>>
  /\ UNCHANGED <<index, blacklist, face, iter, found>>

\* One turn of the binary search.
Search ==
  /\ pc = "search"
  /\ a <= b
  /\ m' = a + (b - a) \div 2
  /\ LET got == index[m'].face
     IN  \/ /\ SameFace(face, got)
            /\ a' = m' /\ b' = m'
            /\ pc' = "back"
         \/ /\ FoldRank[face] > FoldRank[got]
            /\ a' = m' + 1
            /\ UNCHANGED <<b, pc>>
         \/ /\ FoldRank[face] < FoldRank[got]
            /\ b' = m' - 1
            /\ UNCHANGED <<a, pc>>
  /\ UNCHANGED <<index, blacklist, face, iter, found>>

NotFound ==
  /\ pc = "search"
  /\ a > b
  /\ pc' = "end"
  /\ UNCHANGED <<index, blacklist, face, locals, iter, found>>

\* Mutant of SkipBack: the search's hit is taken for the first entry.
MutSkipBack ==
  /\ pc = "back"
  /\ pc' = "skip"
  /\ UNCHANGED <<index, blacklist, face, locals, iter, found>>

\* Skip to the first entry of the name.
SkipBack ==
  /\ pc = "back"
  /\ IF m > 1 /\ SameFace(face, index[m - 1].face)
       THEN m' = m - 1 /\ UNCHANGED pc
       ELSE pc' = "skip" /\ UNCHANGED m
  /\ UNCHANGED <<index, blacklist, face, a, b, iter, found>>

\* Enforce the blacklist; the first entry that is not on it is returned.
SkipBlacklisted ==
  /\ pc = "skip"
  /\ \/ /\ m <= NumFace /\ Blacklisted(m)
        /\ m' = m + 1
        /\ UNCHANGED <<pc, iter, found>>
     \/ /\ m <= NumFace /\ ~Blacklisted(m)
        /\ query' = m /\ at' = m
        /\ found' = <<m>>
        /\ pc' = "next"
        /\ UNCHANGED m
     \/ /\ m > NumFace
        /\ pc' = "end"
        /\ UNCHANGED <<m, iter, found>>
  /\ UNCHANGED <<index, blacklist, face, a, b>>

(***************************************************************************)
(* fs_iter_next, called until it returns 0                                 *)
(***************************************************************************)
BeginNext ==
  /\ pc = "next"
  /\ IF at > NumFace THEN pc' = "end" /\ UNCHANGED at
                     ELSE pc' = "step" /\ at' = at + 1
  /\ UNCHANGED <<index, blacklist, face, locals, query, found>>

SameBuild(x, y) == x.format = y.format /\ x.ver = y.ver

\* Mutant of Step: another build ends the loop.
MutStepBreak ==
  /\ pc = "step"
  /\ \/ /\ \/ at > NumFace
           \/ at <= NumFace /\ <<index[query].face, index[at].face>> \notin Prefix
        /\ pc' = "end"
        /\ UNCHANGED <<at, found>>
     \/ /\ at <= NumFace
        /\ <<index[query].face, index[at].face>> \in Prefix
        /\ IF SameBuild(index[query], index[at]) /\ ~Blacklisted(at)
             THEN found' = Append(found, at) /\ pc' = "next" /\ UNCHANGED at
             ELSE pc' = "end" /\ UNCHANGED <<at, found>>
  /\ UNCHANGED <<index, blacklist, face, locals, query>>

\* One turn of the loop: the name asked for ends where the prefix ends.
Step ==
  /\ pc = "step"
  /\ \/ /\ \/ at > NumFace
           \/ at <= NumFace /\ <<index[query].face, index[at].face>> \notin Prefix
        /\ pc' = "end"
        /\ UNCHANGED <<at, found>>
     \/ /\ at <= NumFace
        /\ <<index[query].face, index[at].face>> \in Prefix
        /\ IF SameBuild(index[query], index[at]) /\ ~Blacklisted(at)
             THEN found' = Append(found, at) /\ pc' = "next" /\ UNCHANGED at
             ELSE at' = at + 1 /\ UNCHANGED <<pc, found>>
  /\ UNCHANGED <<index, blacklist, face, locals, query>>

Ended == pc = "end" /\ UNCHANGED vars

Next ==
  \/ Search \/ NotFound \/ SkipBack \/ SkipBlacklisted \/ BeginNext \/ Step \/ Ended

Spec == Init /\ [][Next]_vars

\* The loops are left to run.
FairSpec == Spec /\ WF_vars(Next)

-----------------------------------------------------------------------------
\* No loop looks beyond the index.
TypeOK ==
  /\ pc \in {"search", "back", "skip", "next", "step", "end"}
  /\ a \in 1 .. NumFace + 1
  /\ b \in 0 .. NumFace
  /\ m \in 1 .. NumFace + 1
  /\ query \in 0 .. NumFace
  /\ at \in 0 .. NumFace + 1
  /\ found \in Seq(1 .. NumFace)

\* The entries of the face asked for that may be loaded.
Wanted == {i \in 1 .. NumFace : SameFace(face, index[i].face) /\ ~Blacklisted(i)}

BestFirst ==
  found # << >> /\ Wanted # {} =>
    /\ found[1] \in Wanted
    /\ \A i \in Wanted : ~Before(index[i], index[found[1]])

MissIsRight == pc = "end" /\ found = << >> => Wanted = {}

\* Of the files with the face, the first one returned is of the most preferred
\* format and, in it, of the version FlVersionCmp calls newest, whatever the
\* blacklist removes; a face is reported missing only when no file that may be
\* loaded has it.
FirstIsRight == BestFirst /\ MissIsRight

\* One build, without repetition and without a file of the blacklist.
OneBuild ==
  \A i, j \in DOMAIN found :
    /\ SameBuild(index[found[i]], index[found[j]])
    /\ ~Blacklisted(found[i])
    /\ i < j => found[i] < found[j]

\* Every file of the first one's build and exact name, up to where another
\* spelling of the name interrupts.
AllOfBuild ==
  pc = "end" /\ found # << >> =>
    \A i \in found[1] .. NumFace :
      /\ SameBuild(index[i], index[found[1]])
      /\ \A j \in found[1] .. i : index[j].face = index[found[1]].face
      /\ ~Blacklisted(i)
      => \E k \in DOMAIN found : found[k] = i

\* What is loaded together for a face is all of one build and nothing else: the
\* iteration mixes no versions or formats and misses none.
BuildExact == OneBuild /\ AllOfBuild

\* A query comes to its end.
QueryEnds == <>(pc = "end")

\* "found by fontface": an entry that is returned first has the face asked for.
FoundByFace == found # << >> => SameFace(face, index[found[1]].face)
=============================================================================
