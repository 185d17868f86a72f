--------------------------- MODULE FontQueryProofs ---------------------------
(***************************************************************************)
(* Proofs about FontQuery, for every sorted index, blacklist and face,     *)
(* whatever names fold together and whatever versions tie.                 *)
(***************************************************************************)
EXTENDS FontQuery, SequenceTheorems, TLAPS

Rank(i) == FoldRank[index[i].face]

\* The index does not change while it is queried.
IndexOK ==
  /\ index \in Seq(FSIndex)
  /\ Sorted(index)
  /\ face \in Faces

\* Position k parts the index: no entry that is asked for before it, no smaller
\* name from it on.
FirstAt(k) ==
  \A i \in 1 .. NumFace :
    /\ i < k => Rank(i) < FoldRank[face] \/ Blacklisted(i)
    /\ i >= k => Rank(i) >= FoldRank[face]

\* The binary search has put aside only names that differ.
SearchOK ==
  pc = "search" =>
    /\ a <= b + 1
    /\ \A i \in 1 .. NumFace :
         /\ i < a => Rank(i) < FoldRank[face]
         /\ i > b => Rank(i) > FoldRank[face]

HitOK ==
  /\ pc = "back" => m \in 1 .. NumFace /\ Rank(m) = FoldRank[face]
  /\ pc = "skip" => FirstAt(m)
  /\ pc \in {"search", "back", "skip"} => found = << >>
  /\ pc \in {"next", "step"} => found # << >>

\* What has been returned: first the entry the search led to, then others of its
\* build, in the order of the index.
FoundOK ==
  found # << >> =>
    /\ query \in 1 .. NumFace
    /\ found[1] = query
    /\ FirstAt(query)
    /\ \A i \in DOMAIN found :
         SameBuild(index[found[i]], index[query]) /\ ~Blacklisted(found[i])
    /\ \A i, j \in DOMAIN found : i < j => found[i] < found[j]

\* The iteration has returned what it should up to position k.
Covered(k) ==
  \A i \in query .. NumFace :
    /\ i <= k
    /\ SameBuild(index[i], index[query])
    /\ \A j \in query .. i : index[j].face = index[query].face
    /\ ~Blacklisted(i)
    => \E n \in DOMAIN found : found[n] = i

LoopOK ==
  /\ pc = "next" => at \in 1 .. NumFace /\ Covered(at)
  /\ pc = "step" => at > query /\ Covered(at - 1)
  /\ pc = "next" => \A i \in DOMAIN found : found[i] <= at
  /\ pc = "step" => \A i \in DOMAIN found : found[i] < at
  /\ pc = "end" /\ found # << >> => Covered(NumFace)
  /\ pc = "end" /\ found = << >> => Wanted = {}

IInv ==
  /\ TypeOK
  /\ IndexOK
  /\ SearchOK
  /\ HitOK
  /\ FoundOK
  /\ LoopOK

(***************************************************************************)
(* Lemmas about the index                                                  *)
(***************************************************************************)
\* Entries, ranks and names have their types.
LEMMA EntryTypes ==
  ASSUME IndexOK
  PROVE  /\ NumFace \in Nat /\ DOMAIN index = 1 .. NumFace
         /\ FoldRank[face] \in Nat
         /\ \A i \in 1 .. NumFace :
              /\ index[i] \in FSIndex /\ index[i].face \in Faces
              /\ Rank(i) \in Nat /\ index[i].format \in Nat /\ VerRank[index[i].ver] \in Nat
<1>. USE QueryAssumption DEF IndexOK
<1>1. NumFace \in Nat /\ DOMAIN index = 1 .. NumFace
  BY DEF NumFace
<1>2. ASSUME NEW i \in 1 .. NumFace
      PROVE  /\ index[i] \in FSIndex /\ index[i].face \in Faces
             /\ Rank(i) \in Nat /\ index[i].format \in Nat /\ VerRank[index[i].ver] \in Nat
  <2>1. index[i] \in FSIndex
    BY <1>1
  <2>. QED  BY <2>1 DEF FSIndex, Rank
<1>. QED  BY <1>1, <1>2

\* A sorted index is sorted by name.
LEMMA RanksSorted ==
  ASSUME IndexOK, NEW i \in 1 .. NumFace, NEW j \in 1 .. NumFace, i <= j
  PROVE  Rank(i) <= Rank(j)
<1>1. CASE i = j
  BY <1>1, EntryTypes
<1>2. CASE i < j
  <2>1. /\ i \in DOMAIN index /\ j \in DOMAIN index
        /\ Rank(i) \in Nat /\ Rank(j) \in Nat
    BY EntryTypes
  <2>2. ~Before(index[j], index[i])
    BY <1>2, <2>1 DEF IndexOK, Sorted
  <2>. QED  BY <2>1, <2>2 DEF Before, Rank
<1>3. i = j \/ i < j
  <2>1. NumFace \in Nat
    BY EntryTypes
  <2>. QED  BY <2>1
<1>. QED  BY <1>1, <1>2, <1>3

(***************************************************************************)
(* The initial states                                                      *)
(***************************************************************************)
LEMMA InitIInv == Init => IInv
<1>. SUFFICES ASSUME Init PROVE IInv
  OBVIOUS
<1>1. index \in Seq(FSIndex)
  <2>1. PICK n \in 0 .. MaxFaces : index \in [1 .. n -> FSIndex]
    BY DEF Init
  <2>. QED  BY <2>1, IsASeq, QueryAssumption
<1>2. IndexOK
  BY <1>1 DEF Init, IndexOK
<1>3. NumFace \in Nat
  BY <1>2, EntryTypes
<1>. QED
  BY <1>2, <1>3 DEF Init, IInv, TypeOK, SearchOK, HitOK, FoundOK, LoopOK

(***************************************************************************)
(* fs_iter_new                                                             *)
(***************************************************************************)
LEMMA LessThanNext ==
  \A i, k \in Int : (i < k + 1 => i <= k) /\ (i > k - 1 => i >= k)
OBVIOUS

LEMMA SearchIInv ==
  ASSUME IInv, Search
  PROVE  IInv'
<1>. USE DEF IInv
<1>1. IndexOK' /\ NumFace' = NumFace /\ \A i : Rank(i)' = Rank(i)
  BY DEF Search, IndexOK, NumFace, Rank, Sorted, Before, SameFace
<1>2. m' \in 1 .. NumFace /\ a <= m' /\ m' <= b
  BY EntryTypes DEF Search, TypeOK
<1>3. CASE SameFace(face, index[m'].face) /\ a' = m' /\ b' = m' /\ pc' = "back"
  <2>1. Rank(m') = FoldRank[face]
    BY <1>3 DEF SameFace, Rank
  <2>. QED
    BY <1>1, <1>2, <1>3, <2>1, EntryTypes
    DEF Search, TypeOK, SearchOK, HitOK, FoundOK, LoopOK, iter, Rank
<1>4. CASE FoldRank[face] > FoldRank[index[m'].face] /\ a' = m' + 1 /\ UNCHANGED <<b, pc>>
  <2>1. \A i \in 1 .. NumFace : i <= m' => Rank(i) <= Rank(m')
    BY <1>2, RanksSorted
  <2>2. \A i \in 1 .. NumFace : i < a' => Rank(i) < FoldRank[face]
    <3>1. Rank(m') < FoldRank[face]
      BY <1>4 DEF Rank
    <3>2. /\ m' \in Int /\ 1 .. NumFace \subseteq Int /\ FoldRank[face] \in Nat
          /\ \A i \in 1 .. NumFace : Rank(i) \in Nat
      BY <1>2, EntryTypes
    <3>3. a' = m' + 1
      BY <1>4
    <3>4. ASSUME NEW i \in 1 .. NumFace, i < a'
          PROVE  Rank(i) < FoldRank[face]
      <4>1. i <= m'
        BY <3>2, <3>3, <3>4, LessThanNext, Zenon
      <4>2. Rank(i) \in Nat /\ Rank(m') \in Nat /\ Rank(i) <= Rank(m')
        BY <1>2, <2>1, <3>2, <4>1
      <4>. QED  BY <3>1, <3>2, <4>2
    <3>. QED  BY <3>4
  <2>. QED
    BY <1>1, <1>2, <1>4, <2>2, EntryTypes
    DEF Search, TypeOK, SearchOK, HitOK, FoundOK, LoopOK, iter
<1>5. CASE FoldRank[face] < FoldRank[index[m'].face] /\ b' = m' - 1 /\ UNCHANGED <<a, pc>>
  <2>1. \A i \in 1 .. NumFace : i >= m' => Rank(i) >= Rank(m')
    BY <1>2, EntryTypes, RanksSorted
  <2>2. \A i \in 1 .. NumFace : i > b' => Rank(i) > FoldRank[face]
    <3>1. Rank(m') > FoldRank[face]
      BY <1>5 DEF Rank
    <3>2. /\ m' \in Int /\ 1 .. NumFace \subseteq Int /\ FoldRank[face] \in Nat
          /\ \A i \in 1 .. NumFace : Rank(i) \in Nat
      BY <1>2, EntryTypes
    <3>3. b' = m' - 1
      BY <1>5
    <3>4. ASSUME NEW i \in 1 .. NumFace, i > b'
          PROVE  Rank(i) > FoldRank[face]
      <4>1. i >= m'
        BY <3>2, <3>3, <3>4, LessThanNext, Zenon
      <4>2. Rank(i) \in Nat /\ Rank(m') \in Nat /\ Rank(i) >= Rank(m')
        BY <1>2, <2>1, <3>2, <4>1
      <4>. QED  BY <3>1, <3>2, <4>2
    <3>. QED  BY <3>4
  <2>. QED
    BY <1>1, <1>2, <1>5, <2>2, EntryTypes
    DEF Search, TypeOK, SearchOK, HitOK, FoundOK, LoopOK, iter
<1>. QED  BY <1>3, <1>4, <1>5 DEF Search

LEMMA NotFoundIInv ==
  ASSUME IInv, NotFound
  PROVE  IInv'
<1>. USE DEF IInv
<1>1. Wanted = {}
  <2>1. ASSUME NEW i \in 1 .. NumFace
        PROVE  Rank(i) # FoldRank[face]
    BY <2>1, EntryTypes DEF NotFound, SearchOK, TypeOK
  <2>. QED  BY <2>1 DEF Wanted, SameFace, Rank
<1>2. IndexOK' /\ NumFace' = NumFace /\ Wanted' = {} /\ TypeOK'
  BY <1>1 DEF NotFound, IndexOK, NumFace, Sorted, Before, SameFace, Wanted, Blacklisted,
     TypeOK, locals, iter
<1>. QED
  BY <1>2 DEF NotFound, SearchOK, HitOK, FoundOK, LoopOK

LEMMA SkipBackIInv ==
  ASSUME IInv, SkipBack
  PROVE  IInv'
<1>. USE DEF IInv
<1>1. IndexOK' /\ NumFace' = NumFace /\ \A i : Rank(i)' = Rank(i)
  BY DEF SkipBack, IndexOK, NumFace, Rank, Sorted, Before, SameFace
<1>2. m \in 1 .. NumFace /\ Rank(m) = FoldRank[face] /\ found = << >>
  BY DEF SkipBack, HitOK
<1>3. CASE m > 1 /\ SameFace(face, index[m - 1].face)
  <2>1. m - 1 \in 1 .. NumFace /\ Rank(m - 1) = FoldRank[face]
    BY <1>2, <1>3, EntryTypes DEF SameFace, Rank
  <2>. QED
    BY <1>1, <1>2, <1>3, <2>1, EntryTypes
    DEF SkipBack, TypeOK, SearchOK, HitOK, FoundOK, LoopOK, iter, Rank
<1>4. CASE ~(m > 1 /\ SameFace(face, index[m - 1].face))
  <2>1. ASSUME NEW i \in 1 .. NumFace, i < m
        PROVE  Rank(i) < FoldRank[face]
    <3>1. m - 1 \in 1 .. NumFace /\ Rank(m - 1) # FoldRank[face]
      BY <1>2, <1>4, <2>1, EntryTypes DEF SameFace, Rank
    <3>2. Rank(i) <= Rank(m - 1) /\ Rank(m - 1) <= Rank(m)
      BY <1>2, <2>1, <3>1, EntryTypes, RanksSorted
    <3>. QED  BY <1>2, <3>1, <3>2, EntryTypes
  <2>2. \A i \in 1 .. NumFace : i >= m => Rank(i) >= FoldRank[face]
    BY <1>2, EntryTypes, RanksSorted
  <2>3. FirstAt(m)
    BY <2>1, <2>2 DEF FirstAt
  <2>4. FirstAt(m)'
    BY <1>1, <1>4, <2>3 DEF FirstAt, SkipBack, Blacklisted
  <2>. QED
    BY <1>1, <1>2, <1>4, <2>4
    DEF SkipBack, TypeOK, SearchOK, HitOK, FoundOK, LoopOK, iter
<1>. QED  BY <1>3, <1>4

LEMMA SkipBlacklistedIInv ==
  ASSUME IInv, SkipBlacklisted
  PROVE  IInv'
<1>. USE DEF IInv
<1>1. /\ IndexOK' /\ NumFace' = NumFace /\ \A i : Rank(i)' = Rank(i)
      /\ \A i : Blacklisted(i)' <=> Blacklisted(i)
      /\ \A k : FirstAt(k) => FirstAt(k)'
  BY DEF SkipBlacklisted, IndexOK, NumFace, Rank, Sorted, Before, SameFace, Blacklisted, FirstAt
<1>2. FirstAt(m) /\ found = << >>
  BY DEF SkipBlacklisted, HitOK
<1>3. CASE m <= NumFace /\ Blacklisted(m) /\ m' = m + 1 /\ UNCHANGED <<pc, iter, found>>
  <2>1. FirstAt(m + 1)
    BY <1>2, <1>3, EntryTypes DEF FirstAt, TypeOK
  <2>. QED
    BY <1>1, <1>2, <1>3, <2>1, EntryTypes
    DEF SkipBlacklisted, TypeOK, SearchOK, HitOK, FoundOK, LoopOK, iter
<1>4. CASE /\ m <= NumFace /\ ~Blacklisted(m)
           /\ query' = m /\ at' = m /\ found' = <<m>> /\ pc' = "next" /\ UNCHANGED m
  <2>1. m \in 1 .. NumFace
    BY <1>4 DEF TypeOK
  <2>2. TypeOK'
    BY <1>1, <1>4, <2>1, EntryTypes DEF SkipBlacklisted, TypeOK
  <2>3. FoundOK'
    BY <1>1, <1>2, <1>4, <2>1 DEF SkipBlacklisted, FoundOK, SameBuild
  <2>4. LoopOK'
    BY <1>1, <1>4, <2>1, EntryTypes DEF SkipBlacklisted, LoopOK, Covered
  <2>. QED
    BY <1>1, <1>4, <2>2, <2>3, <2>4 DEF SkipBlacklisted, SearchOK, HitOK
<1>5. CASE m > NumFace /\ pc' = "end" /\ UNCHANGED <<m, iter, found>>
  <2>1. NumFace \in Nat /\ FoldRank[face] \in Nat /\ \A i \in 1 .. NumFace : Rank(i) \in Nat
    BY EntryTypes
  <2>2. ASSUME NEW i \in 1 .. NumFace
        PROVE  Rank(i) # FoldRank[face] \/ Blacklisted(i)
    <3>1. i < m
      BY <1>5, <2>1 DEF TypeOK
    <3>. QED  BY <1>2, <2>1, <3>1 DEF FirstAt
  <2>3. Wanted = {}
    BY <2>2 DEF Wanted, SameFace, Rank
  <2>4. Wanted' = {}
    BY <1>1, <2>3 DEF SkipBlacklisted, Wanted, SameFace
  <2>. QED
    BY <1>1, <1>2, <1>5, <2>4
    DEF SkipBlacklisted, TypeOK, SearchOK, HitOK, FoundOK, LoopOK, iter
<1>. QED  BY <1>3, <1>4, <1>5 DEF SkipBlacklisted

(***************************************************************************)
(* fs_iter_next                                                            *)
(***************************************************************************)
LEMMA BeginNextIInv ==
  ASSUME IInv, BeginNext
  PROVE  IInv'
<1>. USE DEF IInv
<1>1. at \in 1 .. NumFace /\ found # << >> /\ NumFace \in Nat
  BY EntryTypes DEF BeginNext, LoopOK, HitOK
<1>2. pc' = "step" /\ at' = at + 1
  BY <1>1 DEF BeginNext
<1>3. /\ IndexOK' /\ TypeOK' /\ NumFace' = NumFace
  BY <1>1, <1>2 DEF BeginNext, IndexOK, TypeOK, NumFace, Sorted, Before, SameFace, locals
<1>4. FoundOK'
  BY <1>3 DEF BeginNext, FoundOK, FirstAt, Rank, Blacklisted, SameBuild
<1>5. Covered(at - 1)'
  <2>1. UNCHANGED <<index, blacklist, query, found>> /\ Covered(at)
    BY DEF BeginNext, LoopOK
  <2>. SUFFICES ASSUME NEW i \in query .. NumFace, i <= at' - 1,
                       SameBuild(index[i], index[query]),
                       \A j \in query .. i : index[j].face = index[query].face,
                       ~Blacklisted(i)
                PROVE  \E n \in DOMAIN found : found[n] = i
    BY <1>3, <2>1 DEF Covered, SameBuild, Blacklisted
  <2>2. at' - 1 = at
    BY <1>1, <1>2
  <2>3. i <= at
    BY <2>2, Zenon
  <2>. QED  BY <2>1, <2>3 DEF Covered
<1>6. at' > query' /\ \A i \in DOMAIN found' : found'[i] < at'
  <2>0. \A i \in DOMAIN found : found[i] <= at
    BY DEF BeginNext, LoopOK
  <2>1. \A i \in DOMAIN found : found[i] <= at /\ found[i] \in 1 .. NumFace
    BY <1>1, <2>0 DEF TypeOK
  <2>2. found[1] = query /\ 1 \in DOMAIN found
    BY <1>1 DEF FoundOK, TypeOK
  <2>3. UNCHANGED <<query, found>>
    BY DEF BeginNext
  <2>. QED  BY <1>1, <1>2, <2>1, <2>2, <2>3
<1>. QED
  BY <1>2, <1>3, <1>4, <1>5, <1>6 DEF BeginNext, SearchOK, HitOK, LoopOK

LEMMA StepIInv ==
  ASSUME IInv, Step
  PROVE  IInv'
<1>. USE DEF IInv
<1>1. /\ IndexOK' /\ NumFace' = NumFace /\ UNCHANGED <<index, blacklist, face, query>>
      /\ \A k : FirstAt(k) => FirstAt(k)'
      /\ \A i : Blacklisted(i)' <=> Blacklisted(i)
  BY DEF Step, IndexOK, NumFace, Rank, Sorted, Before, SameFace, Blacklisted, FirstAt
<1>2. /\ found # << >> /\ found \in Seq(1 .. NumFace) /\ NumFace \in Nat
      /\ query \in 1 .. NumFace /\ at \in 1 .. NumFace + 1 /\ at > query
      /\ Covered(at - 1)
      /\ \A i \in DOMAIN found : found[i] < at
  BY EntryTypes DEF Step, LoopOK, HitOK, FoundOK, TypeOK
\* The name ends, or the index.
<1>3. CASE /\ at > NumFace \/ (at <= NumFace /\ <<index[query].face, index[at].face>> \notin Prefix)
           /\ pc' = "end" /\ UNCHANGED <<at, found>>
  <2>1. ASSUME NEW i \in query .. NumFace,
               \A j \in query .. i : index[j].face = index[query].face
        PROVE  i <= at - 1
    <3>1. CASE at > NumFace
      BY <1>2, <3>1
    <3>2. CASE at <= NumFace /\ <<index[query].face, index[at].face>> \notin Prefix
      <4>1. index[query].face \in Faces
        BY <1>2, EntryTypes
      <4>2. index[at].face # index[query].face
        BY <3>2, <4>1, QueryAssumption
      <4>3. at \notin query .. i
        BY <2>1, <4>2
      <4>. QED  BY <1>2, <4>3
    <3>. QED  BY <1>3, <3>1, <3>2
  <2>2. Covered(NumFace)
    BY <1>2, <2>1 DEF Covered
  <2>3. Covered(NumFace)'
    BY <1>1, <1>3, <2>2 DEF Covered, SameBuild
  <2>4. TypeOK'
    BY <1>1, <1>3 DEF Step, TypeOK, locals
  <2>5. FoundOK'
    BY <1>1, <1>3 DEF FoundOK, SameBuild
  <2>. QED
    BY <1>1, <1>2, <1>3, <2>3, <2>4, <2>5 DEF SearchOK, HitOK, LoopOK
\* Another file of the build.
<1>4. CASE /\ at <= NumFace
           /\ SameBuild(index[query], index[at]) /\ ~Blacklisted(at)
           /\ found' = Append(found, at) /\ pc' = "next" /\ UNCHANGED at
  <2>1. at \in 1 .. NumFace
    BY <1>2, <1>4
  <2>2. /\ Len(found) \in Nat /\ Len(found) # 0
        /\ DOMAIN found = 1 .. Len(found)
        /\ DOMAIN found' = 1 .. Len(found) + 1
        /\ found' \in Seq(1 .. NumFace)
        /\ \A i \in 1 .. Len(found) : found'[i] = found[i]
        /\ found'[Len(found) + 1] = at
    BY <1>2, <1>4, <2>1, AppendProperties
  <2>3. TypeOK'
    BY <1>1, <1>4, <2>2 DEF Step, TypeOK, locals
  <2>4. FoundOK'
    <3>1. found'[1] = query
      BY <1>2, <2>2 DEF FoundOK
    <3>2. ASSUME NEW i \in DOMAIN found'
          PROVE  SameBuild(index[found'[i]], index[query]) /\ ~Blacklisted(found'[i])
      BY <1>2, <1>4, <2>2 DEF FoundOK, SameBuild
    <3>3. ASSUME NEW i \in DOMAIN found', NEW j \in DOMAIN found', i < j
          PROVE  found'[i] < found'[j]
      <4>1. i \in 1 .. Len(found)
        BY <2>2, <3>3
      <4>2. CASE j \in 1 .. Len(found)
        BY <1>2, <2>2, <3>3, <4>1, <4>2 DEF FoundOK
      <4>3. CASE j = Len(found) + 1
        BY <1>2, <2>2, <4>1, <4>3
      <4>. QED  BY <2>2, <4>2, <4>3
    <3>4. FirstAt(query)
      BY <1>2 DEF FoundOK
    <3>. QED
      BY <1>1, <1>2, <3>1, <3>2, <3>3, <3>4 DEF FoundOK, SameBuild
  <2>5. Covered(at)'
    <3>1. SUFFICES ASSUME NEW i \in query .. NumFace, i <= at,
                          SameBuild(index[i], index[query]),
                          \A j \in query .. i : index[j].face = index[query].face,
                          ~Blacklisted(i)
                   PROVE  \E n \in DOMAIN found' : found'[n] = i
      BY <1>1, <1>4 DEF Covered, SameBuild
    <3>2. CASE i = at
      BY <2>2, <3>2
    <3>3. CASE i # at
      <4>1. i <= at - 1
        BY <1>2, <3>1, <3>3
      <4>2. PICK n \in DOMAIN found : found[n] = i
        BY <1>2, <3>1, <4>1 DEF Covered
      <4>. QED  BY <2>2, <4>2
    <3>. QED  BY <3>2, <3>3
  <2>6. \A i \in DOMAIN found' : found'[i] <= at
    <3>1. \A i \in 1 .. Len(found) : found[i] \in 1 .. NumFace /\ found[i] < at
      BY <1>2
    <3>2. ASSUME NEW i \in DOMAIN found'
          PROVE  found'[i] <= at
      <4>1. CASE i \in 1 .. Len(found)
        BY <1>2, <2>2, <3>1, <4>1
      <4>2. CASE i = Len(found) + 1
        BY <1>2, <2>2, <4>2
      <4>. QED  BY <2>2, <4>1, <4>2
    <3>. QED  BY <3>2
  <2>. QED
    BY <1>1, <1>2, <1>4, <2>1, <2>2, <2>3, <2>4, <2>5, <2>6 DEF SearchOK, HitOK, LoopOK
\* A file of another build, or one of the blacklist.
<1>5. CASE /\ at <= NumFace
           /\ ~(SameBuild(index[query], index[at]) /\ ~Blacklisted(at))
           /\ at' = at + 1 /\ UNCHANGED <<pc, found>>
  <2>1. Covered(at)
    <3>1. \A i \in query .. NumFace : i <= at => i <= at - 1 \/ i = at
      BY <1>2
    <3>. QED  BY <1>2, <1>5, <3>1 DEF Covered, SameBuild
  <2>2. at' - 1 = at
    BY <1>2, <1>5
  <2>3. Covered(at - 1)'
    <3>. SUFFICES ASSUME NEW i \in query .. NumFace, i <= at' - 1,
                         SameBuild(index[i], index[query]),
                         \A j \in query .. i : index[j].face = index[query].face,
                         ~Blacklisted(i)
                  PROVE  \E n \in DOMAIN found : found[n] = i
      BY <1>1, <1>5 DEF Covered, SameBuild
    <3>1. i <= at
      BY <2>2, Zenon
    <3>. QED  BY <2>1, <3>1 DEF Covered
  <2>4. TypeOK'
    BY <1>1, <1>2, <1>5 DEF Step, TypeOK, locals
  <2>5. FoundOK'
    BY <1>1, <1>5 DEF FoundOK, SameBuild
  <2>6. at' > query' /\ \A i \in DOMAIN found' : found'[i] < at'
    <3>1. \A i \in DOMAIN found : found[i] \in 1 .. NumFace
      BY <1>2
    <3>. QED  BY <1>1, <1>2, <1>5, <3>1
  <2>. QED
    BY <1>1, <1>2, <1>5, <2>3, <2>4, <2>5, <2>6 DEF Step, SearchOK, HitOK, LoopOK
<1>. QED
  BY <1>2, <1>3, <1>4, <1>5 DEF Step

LEMMA StutterIInv ==
  ASSUME IInv, UNCHANGED vars
  PROVE  IInv'
<1>1. /\ NumFace' = NumFace /\ Wanted' = Wanted
      /\ \A i : (Rank(i)' = Rank(i)) /\ (Blacklisted(i)' <=> Blacklisted(i))
      /\ \A k : FirstAt(k)' <=> FirstAt(k)
  BY DEF vars, NumFace, Wanted, Rank, FirstAt, SameFace, Blacklisted
<1>2. TypeOK' /\ IndexOK' /\ SearchOK' /\ HitOK'
  BY <1>1 DEF IInv, vars, locals, iter, TypeOK, IndexOK, SearchOK, HitOK, Sorted, Before, SameFace
<1>3. FoundOK' /\ LoopOK'
  BY <1>1 DEF IInv, vars, locals, iter, FoundOK, LoopOK, Covered, SameBuild
<1>. QED  BY <1>2, <1>3 DEF IInv

(***************************************************************************)
(* The theorems                                                            *)
(***************************************************************************)
\* The invariant holds for every sorted index, every face and every blacklist.
THEOREM Invariance == Spec => []IInv
<1>1. IInv /\ [Next]_vars => IInv'
  BY SearchIInv, NotFoundIInv, SkipBackIInv, SkipBlacklistedIInv, BeginNextIInv, StepIInv,
     StutterIInv
  DEF Next, Ended
<1>. QED  BY <1>1, InitIInv, PTL DEF Spec

\* No loop of fs_iter_new and fs_iter_next reads the index outside of its bounds.
THEOREM QueryTypeCorrect == Spec => []TypeOK
<1>1. IInv => TypeOK
  BY DEF IInv
<1>. QED  BY <1>1, Invariance, PTL

\* The first file returned for a face is the best one that may be loaded, and a face is
\* missing only when there is none: for every sorted index and every blacklist.
THEOREM BestIsFirst == Spec => []FirstIsRight
<1>1. IInv => FirstIsRight
  <2>. SUFFICES ASSUME IInv PROVE BestFirst /\ MissIsRight
    BY DEF FirstIsRight
  <2>. USE DEF IInv
  <2>1. ASSUME found # << >>, Wanted # {}
        PROVE  found[1] \in Wanted /\ \A i \in Wanted : ~Before(index[i], index[found[1]])
    <3>1. query \in 1 .. NumFace /\ found[1] = query /\ FirstAt(query) /\ ~Blacklisted(query)
      <4>1. 1 \in DOMAIN found
        BY <2>1 DEF TypeOK
      <4>. QED  BY <2>1, <4>1 DEF FoundOK
    <3>2. \A i \in Wanted : i \in 1 .. NumFace /\ Rank(i) = FoldRank[face] /\ ~Blacklisted(i)
      BY DEF Wanted, SameFace, Rank
    <3>3. \A i \in Wanted : i >= query
      BY <3>1, <3>2, EntryTypes DEF FirstAt
    <3>4. Rank(query) = FoldRank[face]
      <4>1. PICK w \in Wanted : TRUE
        BY <2>1
      <4>2. w \in 1 .. NumFace /\ query <= w /\ Rank(w) = FoldRank[face]
        BY <3>1, <3>2, <3>3, <4>1, EntryTypes
      <4>3. Rank(query) <= FoldRank[face]
        BY <3>1, <4>2, RanksSorted
      <4>. QED  BY <3>1, <4>3, EntryTypes DEF FirstAt
    <3>5. query \in Wanted
      BY <3>1, <3>4 DEF Wanted, SameFace, Rank
    <3>6. ASSUME NEW i \in Wanted
          PROVE  ~Before(index[i], index[query])
      <4>0. /\ i \in DOMAIN index /\ query \in DOMAIN index
            /\ i \in Int /\ query \in Int
        BY <3>1, <3>2, EntryTypes
      <4>1. CASE i = query
        <5>1. /\ Rank(query) \in Nat /\ index[query].format \in Nat
              /\ VerRank[index[query].ver] \in Nat
          BY <3>1, EntryTypes
        <5>. QED  BY <4>1, <5>1 DEF Before, Rank
      <4>2. CASE i > query
        BY <4>0, <4>2 DEF IndexOK, Sorted
      <4>. QED  BY <3>3, <4>0, <4>1, <4>2
    <3>. QED  BY <3>1, <3>5, <3>6
  <2>. QED  BY <2>1 DEF BestFirst, MissIsRight, LoopOK
<1>. QED  BY <1>1, Invariance, PTL

\* What fs_iter_next returns is one build, without repetition, without a file of the
\* blacklist, and without a gap up to where the name is interrupted.
THEOREM OneBuildAndAll == Spec => []BuildExact
<1>1. IInv => BuildExact
  <2>. SUFFICES ASSUME IInv PROVE OneBuild /\ AllOfBuild
    BY DEF BuildExact
  <2>. USE DEF IInv
  <2>1. OneBuild
    BY DEF OneBuild, FoundOK, SameBuild
  <2>2. AllOfBuild
    <3>. SUFFICES ASSUME pc = "end", found # << >>,
                         NEW i \in found[1] .. NumFace,
                         SameBuild(index[i], index[found[1]]),
                         \A j \in found[1] .. i : index[j].face = index[found[1]].face,
                         ~Blacklisted(i)
                  PROVE  \E k \in DOMAIN found : found[k] = i
      BY DEF AllOfBuild
    <3>1. found[1] = query /\ query \in Nat /\ NumFace \in Nat
      BY EntryTypes DEF FoundOK
    <3>2. i <= NumFace
      BY <3>1
    <3>. QED  BY <3>1, <3>2 DEF LoopOK, Covered
  <2>. QED  BY <2>1, <2>2
<1>. QED  BY <1>1, Invariance, PTL
=============================================================================
