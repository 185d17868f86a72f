-------------------------- MODULE FontListProofs --------------------------
(***************************************************************************)
(* Proofs about the list fl_load_fonts leaves and the counters next to it, *)
(* for every index, every set of files and faces, and whatever fails.      *)
(***************************************************************************)
EXTENDS FontLoadProofs, FiniteSetTheorems

(***************************************************************************)
(* The inductive invariant, on top of that of FontLoadProofs.              *)
(***************************************************************************)
AllBefore(fc) == \A g \in Faces : g < fc => FaceLoaded(g)

\* Every face that pass 2 has left behind is in the list, unless memory ran out.
FacesSaid ==
  /\ pc \in {"probe", "match", "check", "load"} => r # "oom"
  /\ pc \in {"match", "check", "load", "finish"} => AllBefore(face)
  /\ pc = "sort" /\ r # "oom" => AllBefore(NumFaces + 1)

\* A record that another one may be a duplicate of.
Names(e) == Primary(e) \/ e.dup

\* So will the face at hand: a file that was no duplicate has left a record, and
\* when all are duplicates, the room that was there for the first is there still.
FaceSaid ==
  pc \in {"check", "load", "finish"} =>
    /\ scan.dup <= scan.total
    /\ scan.dup = scan.total => HasRoom(cap)
    /\ r # "oom" /\ scan.dup < scan.total => FaceLoaded(face)
    /\ scan.dup > 0 => Names(loaded[scan.dupAt])

\* Every duplicate is one of a record that stands for the file.
DupsOK ==
  \A i \in DOMAIN loaded : loaded[i].dup =>
    \E j \in DOMAIN loaded : /\ Primary(loaded[j])
                             /\ loaded[j].file = loaded[i].file
                             /\ loaded[j].base = loaded[i].base

HeldAt == {i \in DOMAIN loaded : Registered(loaded[i]) /\ i >= cursor}
FailedAt == {i \in DOMAIN loaded : loaded[i].base = "err" /\ ~loaded[i].dup}
MissedAt == {i \in DOMAIN loaded : loaded[i].base = "miss"}

CountOK ==
  /\ count.loaded = Cardinality(HeldAt)
  /\ count.failed = Cardinality(FailedAt)
  /\ count.unmatched = Cardinality(MissedAt)

Lists == FacesSaid /\ FaceSaid /\ DupsOK /\ CountOK /\ ListRight

ListInv == IInv /\ Lists

-----------------------------------------------------------------------------
(***************************************************************************)
(* What records added, dropped or rearranged do to the list.               *)
(***************************************************************************)
LEMMA FiniteAt ==
  ASSUME TypeOK
  PROVE  /\ IsFiniteSet(HeldAt) /\ IsFiniteSet(FailedAt) /\ IsFiniteSet(MissedAt)
         /\ Cardinality(HeldAt) \in Nat /\ Cardinality(FailedAt) \in Nat
         /\ Cardinality(MissedAt) \in Nat
<1>1. DOMAIN loaded = 1 .. Len(loaded) /\ Len(loaded) \in Nat
  BY DEF TypeOK
<1>2. IsFiniteSet(DOMAIN loaded)
  BY <1>1, FS_Interval
<1>3. HeldAt \in SUBSET DOMAIN loaded /\ FailedAt \in SUBSET DOMAIN loaded
      /\ MissedAt \in SUBSET DOMAIN loaded
  BY DEF HeldAt, FailedAt, MissedAt
<1>4. IsFiniteSet(HeldAt) /\ IsFiniteSet(FailedAt) /\ IsFiniteSet(MissedAt)
  BY <1>2, <1>3, FS_Subset
<1>. QED  BY <1>4, FS_CardinalityType

\* In an empty list there is none of any kind.
LEMMA EmptyCounts ==
  /\ loaded = << >> =>
       Cardinality(HeldAt) = 0 /\ Cardinality(FailedAt) = 0 /\ Cardinality(MissedAt) = 0
  /\ loaded' = << >> =>
       Cardinality(HeldAt') = 0 /\ Cardinality(FailedAt') = 0 /\ Cardinality(MissedAt') = 0
<1>1. loaded = << >> => HeldAt = {} /\ FailedAt = {} /\ MissedAt = {}
  BY DEF HeldAt, FailedAt, MissedAt
<1>2. loaded' = << >> => HeldAt' = {} /\ FailedAt' = {} /\ MissedAt' = {}
  BY DEF HeldAt, FailedAt, MissedAt
<1>. QED  BY <1>1, <1>2, FS_EmptySet

\* A set of places grows by the new one, or does not.
LEMMA OneMorePlace ==
  ASSUME NEW S, IsFiniteSet(S), NEW x, x \notin S, NEW yes \in BOOLEAN,
         NEW T, T = IF yes THEN S \cup {x} ELSE S
  PROVE  Cardinality(T) = Cardinality(S) + IF yes THEN 1 ELSE 0
<1>1. Cardinality(S) \in Nat
  BY FS_CardinalityType
<1>2. CASE yes
  <2>1. Cardinality(S \cup {x}) = Cardinality(S) + 1
    BY FS_AddElement
  <2>. QED  BY <1>2, <2>1
<1>3. CASE ~yes
  BY <1>1, <1>3
<1>. QED  BY <1>2, <1>3

\* A record appended: the duplicates have their primary, no face is lost, and the
\* number of its kind goes up.
LEMMA Appended ==
  ASSUME TypeOK, DupsOK, cursor = 1, cursor' = 1,
         NEW e \in Entry, loaded' = Append(loaded, e),
         e.dup => \E j \in DOMAIN loaded : /\ Primary(loaded[j])
                                           /\ loaded[j].file = e.file
                                           /\ loaded[j].base = e.base
  PROVE  /\ DupsOK'
         /\ \A fc \in Faces : FaceLoaded(fc) \/ fc = e.face => FaceLoaded(fc)'
         /\ \A i \in DOMAIN loaded : i \in DOMAIN loaded' /\ loaded'[i] = loaded[i]
         /\ Cardinality(HeldAt') = Cardinality(HeldAt) + IF Registered(e) THEN 1 ELSE 0
         /\ Cardinality(FailedAt') =
              Cardinality(FailedAt) + IF e.base = "err" /\ ~e.dup THEN 1 ELSE 0
         /\ Cardinality(MissedAt') = Cardinality(MissedAt) + IF e.base = "miss" THEN 1 ELSE 0
<1> DEFINE n == Len(loaded) + 1
<1>1. /\ loaded \in Seq(Entry) /\ n \in Nat /\ n >= 1 /\ n \notin DOMAIN loaded
      /\ DOMAIN loaded' = DOMAIN loaded \cup {n}
      /\ \A i \in DOMAIN loaded : loaded'[i] = loaded[i]
      /\ loaded'[n] = e
  BY DEF TypeOK
<1>. HIDE DEF n
<1>2. DupsOK'
  <2>. SUFFICES ASSUME NEW i \in DOMAIN loaded', loaded'[i].dup
                PROVE  \E j \in DOMAIN loaded : /\ Primary(loaded[j])
                                                /\ loaded[j].file = loaded'[i].file
                                                /\ loaded[j].base = loaded'[i].base
    BY <1>1 DEF DupsOK
  <2>1. CASE i \in DOMAIN loaded
    BY <1>1, <2>1 DEF DupsOK
  <2>2. CASE i = n
    BY <1>1, <2>2
  <2>. QED  BY <1>1, <2>1, <2>2
<1>3. \A fc \in Faces : FaceLoaded(fc) \/ fc = e.face => FaceLoaded(fc)'
  BY <1>1 DEF FaceLoaded
<1>4. IsFiniteSet(HeldAt) /\ IsFiniteSet(FailedAt) /\ IsFiniteSet(MissedAt)
  BY FiniteAt
<1>5. n \notin HeldAt /\ n \notin FailedAt /\ n \notin MissedAt
  BY <1>1 DEF HeldAt, FailedAt, MissedAt
<1>6. Registered(e) \in BOOLEAN
  BY DEF Registered, Entry
<1>7. HeldAt' = IF Registered(e) THEN HeldAt \cup {n} ELSE HeldAt
  <2>1. \A i \in DOMAIN loaded' : i \in HeldAt' <=> Registered(loaded'[i]) /\ i >= 1
    BY DEF HeldAt
  <2>2. \A i \in DOMAIN loaded : i \in HeldAt <=> Registered(loaded[i]) /\ i >= 1
    BY DEF HeldAt
  <2>3. HeldAt' \subseteq DOMAIN loaded' /\ HeldAt \subseteq DOMAIN loaded
    BY DEF HeldAt
  <2>. QED  BY <1>1, <2>1, <2>2, <2>3
<1>8. FailedAt' = IF e.base = "err" /\ ~e.dup THEN FailedAt \cup {n} ELSE FailedAt
  BY <1>1 DEF FailedAt
<1>9. MissedAt' = IF e.base = "miss" THEN MissedAt \cup {n} ELSE MissedAt
  BY <1>1 DEF MissedAt
<1>10. Cardinality(HeldAt') = Cardinality(HeldAt) + IF Registered(e) THEN 1 ELSE 0
  BY <1>4, <1>5, <1>6, <1>7, OneMorePlace
<1>11. Cardinality(FailedAt') =
         Cardinality(FailedAt) + IF e.base = "err" /\ ~e.dup THEN 1 ELSE 0
  BY <1>4, <1>5, <1>8, OneMorePlace
<1>12. Cardinality(MissedAt') = Cardinality(MissedAt) + IF e.base = "miss" THEN 1 ELSE 0
  BY <1>4, <1>5, <1>9, OneMorePlace
<1>. QED  BY <1>1, <1>2, <1>3, <1>10, <1>11, <1>12

\* Records left alone.
LEMMA SameRecords ==
  ASSUME Lists, UNCHANGED <<loaded, count, cursor>>
  PROVE  /\ DupsOK' /\ CountOK'
         /\ \A fc \in Faces : FaceLoaded(fc) => FaceLoaded(fc)'
<1>1. HeldAt' = HeldAt /\ FailedAt' = FailedAt /\ MissedAt' = MissedAt
  BY DEF HeldAt, FailedAt, MissedAt
<1>. QED  BY <1>1 DEF Lists, DupsOK, CountOK, FaceLoaded

\* A set of places rearranged has as many.
LEMMA Rearranged ==
  ASSUME NEW D, IsFiniteSet(D), NEW p \in Bijection(D, D), NEW S \in SUBSET D
  PROVE  Cardinality({i \in D : p[i] \in S}) = Cardinality(S)
<1> DEFINE T == {i \in D : p[i] \in S}
           q == [i \in T |-> p[i]]
<1>1. /\ p \in [D -> D]
      /\ \A i, j \in D : p[i] = p[j] => i = j
      /\ \A k \in D : \E i \in D : p[i] = k
  BY DEF Bijection, Injection, Surjection, IsInjective
<1>2. IsFiniteSet(S) /\ IsFiniteSet(T)
  BY FS_Subset
<1>3. q \in Bijection(T, S)
  <2>1. q \in [T -> S]
    OBVIOUS
  <2>2. \A i, j \in T : q[i] = q[j] => i = j
    BY <1>1
  <2>3. \A k \in S : \E i \in T : q[i] = k
    BY <1>1
  <2>. QED  BY <2>1, <2>2, <2>3 DEF Bijection, Injection, Surjection, IsInjective
<1>4. ExistsBijection(T, S)
  BY <1>3 DEF ExistsBijection
<1>. QED  BY <1>2, <1>4, FS_Bijection

-----------------------------------------------------------------------------
LEMMA InitLists == Init => Lists
<1>. SUFFICES ASSUME Init PROVE Lists
  OBVIOUS
<1>1. FacesSaid /\ FaceSaid /\ DupsOK /\ ListRight
  BY DEF Init, FacesSaid, FaceSaid, DupsOK, ListRight, EveryFaceReported, DupFollowsPrimary
<1>2. CountOK
  BY EmptyCounts DEF Init, CountOK, NoCount
<1>. QED  BY <1>1, <1>2 DEF Lists

\* Steps of the other thread and of other programs.
LEMMA SameLists ==
  ASSUME ListInv, UNCHANGED <<pc, face, scan, r, result, loaded, cap, count, cursor>>
  PROVE  Lists'
<1>1. Lists
  BY DEF ListInv
<1>2. DupsOK' /\ CountOK'
  BY <1>1, SameRecords
<1>3. FacesSaid' /\ FaceSaid'
  BY <1>1 DEF Lists, FacesSaid, FaceSaid, AllBefore, FaceLoaded, HasRoom
<1>4. ListRight'
  BY <1>1 DEF Lists, ListRight, EveryFaceReported, DupFollowsPrimary, FaceLoaded
<1>. QED  BY <1>2, <1>3, <1>4 DEF Lists

\* Steps that leave the records alone and go on to another part.
LEMMA GoOn ==
  ASSUME ListInv, UNCHANGED <<loaded, count, cursor>>, FacesSaid', FaceSaid',
         pc' # "done" \/ result' # "ok"
  PROVE  Lists'
<1>1. DupsOK' /\ CountOK'
  BY SameRecords DEF ListInv
<1>2. ListRight'
  BY DEF ListRight, EveryFaceReported, DupFollowsPrimary
<1>. QED  BY <1>1, <1>2 DEF Lists

LEMMA SimpleSteps ==
  ASSUME ListInv,
         BeginLoad \/ ProbeCancelled \/ EndProbe \/ SkipFace \/ CheckCancel \/ EndMatch
           \/ BeginUnload
  PROVE  Lists'
<1>0. /\ TypeOK /\ PhaseOK /\ FacesSaid /\ FaceSaid /\ Lists
      /\ face \in 1 .. NumFaces + 1
  BY DEF ListInv, IInv, Lists, TypeOK
<1>. USE ConstantsAssumption
<1>1. CASE BeginLoad
  <2>1. /\ loaded = << >> /\ loaded' = << >> /\ count' = NoCount
        /\ pc' = "probe" /\ r' = "ok"
    BY <1>0, <1>1 DEF BeginLoad, PhaseOK
  <2>2. CountOK'
    BY <2>1, EmptyCounts DEF CountOK, NoCount
  <2>3. DupsOK'
    BY <2>1 DEF DupsOK
  <2>. QED  BY <2>1, <2>2, <2>3
            DEF Lists, FacesSaid, FaceSaid, ListRight, EveryFaceReported, DupFollowsPrimary
<1>2. CASE ProbeCancelled
  <2>1. FacesSaid' /\ FaceSaid'
    BY <1>2 DEF ProbeCancelled, FacesSaid, FaceSaid
  <2>. QED  BY <1>2, <2>1, GoOn DEF ProbeCancelled
<1>3. CASE EndProbe
  <2>1. \A g \in Faces : ~(g < 1)
    BY DEF Faces
  <2>2. FacesSaid' /\ FaceSaid'
    BY <1>0, <1>3, <2>1 DEF EndProbe, FacesSaid, FaceSaid, AllBefore
  <2>. QED  BY <1>3, <2>2, GoOn DEF EndProbe
<1>4. CASE SkipFace
  <2>1. \A g \in Faces : g < face + 1 => g < face \/ g = face
    BY <1>0 DEF Faces
  <2>2. AllBefore(face) /\ FaceLoaded(face) /\ loaded' = loaded /\ face' = face + 1
    BY <1>0, <1>4 DEF SkipFace, FacesSaid
  <2>3. AllBefore(face)'
    BY <2>1, <2>2 DEF AllBefore, FaceLoaded
  <2>4. FacesSaid' /\ FaceSaid'
    BY <1>0, <1>4, <2>3 DEF SkipFace, FacesSaid, FaceSaid
  <2>. QED  BY <1>4, <2>4, GoOn DEF SkipFace
<1>5. CASE CheckCancel
  <2>1. FacesSaid' /\ FaceSaid'
    BY <1>0, <1>5 DEF CheckCancel, FacesSaid, FaceSaid, AllBefore, FaceLoaded, HasRoom
  <2>. QED  BY <1>5, <2>1, GoOn DEF CheckCancel
<1>6. CASE EndMatch
  <2>1. face = NumFaces + 1
    BY <1>0, <1>6 DEF EndMatch
  <2>2. FacesSaid' /\ FaceSaid'
    BY <1>0, <1>6, <2>1 DEF EndMatch, FacesSaid, FaceSaid, AllBefore, FaceLoaded, loadVars
  <2>. QED  BY <1>6, <2>2, GoOn DEF EndMatch, loadVars
<1>7. CASE BeginUnload
  <2>1. FacesSaid' /\ FaceSaid'
    BY <1>7 DEF BeginUnload, FacesSaid, FaceSaid
  <2>2. cursor' = cursor
    BY <1>0, <1>7 DEF BeginUnload, PhaseOK
  <2>. QED  BY <1>7, <2>1, <2>2, GoOn DEF BeginUnload, loadVars
<1>. QED  BY <1>1, <1>2, <1>3, <1>4, <1>5, <1>6, <1>7

LEMMA ProbeFaceLists ==
  ASSUME ListInv, NEW installed \in BOOLEAN, ProbeFace(installed)
  PROVE  Lists'
<1> DEFINE e == Record("os", FALSE, face, NoFile, NoHash)
<1>0. /\ TypeOK /\ PhaseOK /\ Lists /\ DupsOK /\ CountOK /\ FacesSaid
      /\ cursor = 1 /\ pc = "probe" /\ face \in Faces
  BY DEF ListInv, IInv, Lists, PhaseOK, ProbeFace, TypeOK, Faces
<1>1. /\ (pc' = "probe" /\ r' = r) \/ (pc' = "sort" /\ r' = "oom")
      /\ loaded' = loaded \/ loaded' = Append(loaded, e)
      /\ UNCHANGED <<count, cursor>>
  BY <1>0 DEF ProbeFace
<1>2. FacesSaid' /\ FaceSaid' /\ ListRight'
  BY <1>0, <1>1
     DEF FacesSaid, FaceSaid, ListRight, EveryFaceReported, DupFollowsPrimary
<1>3. CASE loaded' = loaded
  BY <1>0, <1>1, <1>2, <1>3, SameRecords DEF Lists
<1>4. CASE loaded' = Append(loaded, e)
  <2>1. e \in Entry /\ ~e.dup /\ ~Registered(e) /\ e.base = "os"
    BY <1>0 DEF Record, Entry, Registered
  <2>. HIDE DEF e
  <2>2. /\ DupsOK'
        /\ Cardinality(HeldAt') = Cardinality(HeldAt) + 0
        /\ Cardinality(FailedAt') = Cardinality(FailedAt) + 0
        /\ Cardinality(MissedAt') = Cardinality(MissedAt) + 0
    BY <1>0, <1>1, <1>4, <2>1, Appended
  <2>3. CountOK'
    BY <1>0, <1>1, <2>2, FiniteAt DEF CountOK
  <2>. QED  BY <1>2, <2>2, <2>3 DEF Lists
<1>. QED  BY <1>1, <1>3, <1>4

LEMMA MatchFaceLists ==
  ASSUME ListInv, MatchFace
  PROVE  Lists'
<1> DEFINE e == Record("miss", FALSE, face, NoFile, NoHash)
<1>0. /\ TypeOK /\ PhaseOK /\ Lists /\ DupsOK /\ CountOK
      /\ cursor = 1 /\ cursor' = 1 /\ pc = "match" /\ face \in Faces
      /\ r # "oom" /\ AllBefore(face)
  BY DEF ListInv, IInv, Lists, PhaseOK, FacesSaid, MatchFace, TypeOK, Faces
<1>1. CASE r' = "oom" /\ pc' = "sort" /\ UNCHANGED <<face, scan, loaded, count>>
  <2>1. FacesSaid' /\ FaceSaid'
    BY <1>1 DEF FacesSaid, FaceSaid
  <2>. QED  BY <1>0, <1>1, <2>1, GoOn
<1>2. CASE /\ loaded' = Append(loaded, e)
           /\ count' = [count EXCEPT !.unmatched = @ + 1]
           /\ face' = face + 1
           /\ UNCHANGED <<pc, scan, r>>
  <2>1. e \in Entry /\ ~e.dup /\ ~Registered(e) /\ e.base = "miss" /\ e.face = face
    BY <1>0 DEF Record, Entry, Registered
  <2>. HIDE DEF e
  <2>2. /\ DupsOK'
        /\ \A fc \in Faces : FaceLoaded(fc) \/ fc = face => FaceLoaded(fc)'
        /\ Cardinality(HeldAt') = Cardinality(HeldAt) + 0
        /\ Cardinality(FailedAt') = Cardinality(FailedAt) + 0
        /\ Cardinality(MissedAt') = Cardinality(MissedAt) + 1
    BY <1>0, <1>2, <2>1, Appended
  <2>3. CountOK'
    <3>1. /\ count \in [loaded : Int, failed : Int, unmatched : Int]
          /\ Cardinality(HeldAt) \in Nat /\ Cardinality(FailedAt) \in Nat
      BY <1>0, FiniteAt DEF TypeOK
    <3>2. /\ count'.unmatched = count.unmatched + 1
          /\ count'.loaded = count.loaded /\ count'.failed = count.failed
      BY <1>2, <3>1
    <3>. QED  BY <1>0, <2>2, <3>1, <3>2 DEF CountOK
  <2>4. AllBefore(face)'
    <3>1. \A g \in Faces : g < face + 1 => g < face \/ g = face
      BY <1>0 DEF Faces
    <3>. QED  BY <1>0, <1>2, <2>2, <3>1 DEF AllBefore
  <2>5. FacesSaid' /\ FaceSaid' /\ ListRight'
    BY <1>0, <1>2, <2>4
       DEF FacesSaid, FaceSaid, ListRight, EveryFaceReported, DupFollowsPrimary
  <2>. QED  BY <2>2, <2>3, <2>5 DEF Lists
<1>3. CASE /\ HasRoom(cap') /\ scan' = NoScan /\ pc' = "check"
           /\ UNCHANGED <<face, r, loaded, count>>
  <2>1. HasRoom(cap)'
    BY <1>3 DEF HasRoom
  <2>2. FaceSaid'
    BY <1>3, <2>1 DEF FaceSaid, NoScan
  <2>3. FacesSaid'
    BY <1>0, <1>3 DEF FacesSaid, AllBefore, FaceLoaded
  <2>. QED  BY <1>0, <1>3, <2>2, <2>3, GoOn
<1>. QED  BY <1>1, <1>2, <1>3 DEF MatchFace

\* The return of fl_load_file, whatever it recorded.
LEMMA OutcomeLists ==
  ASSUME ListInv, LoadFile, DupsOK', CountOK',
         NEW outcome \in {"ok", "err", "dup", "oom"}, NEW at, Outcome(outcome, at),
         \A i \in DOMAIN loaded : i \in DOMAIN loaded' /\ loaded'[i] = loaded[i],
         \A fc \in Faces : FaceLoaded(fc) => FaceLoaded(fc)',
         outcome = "dup" => /\ at \in DOMAIN loaded /\ Names(loaded[at])
                            /\ loaded' = loaded /\ HasRoom(cap'),
         outcome # "dup" => at = scan.dupAt,
         outcome \in {"ok", "err"} => \A fc \in Faces : fc = face => FaceLoaded(fc)'
  PROVE  Lists'
<1>0. /\ TypeOK /\ ScanOK /\ Lists /\ FacesSaid /\ FaceSaid /\ pc = "load" /\ face' = face
  BY DEF ListInv, IInv, Lists, LoadFile
<1>1. /\ face \in Faces /\ r # "oom" /\ AllBefore(face)
      /\ scan.dup \in Nat /\ scan.total \in Nat /\ scan.dup <= scan.total
      /\ scan.dup = scan.total => HasRoom(cap)
      /\ scan.dup < scan.total => FaceLoaded(face)
      /\ scan.dup > 0 => scan.dupAt \in DOMAIN loaded /\ Names(loaded[scan.dupAt])
  BY <1>0 DEF ScanOK, FacesSaid, FaceSaid, TypeOK
<1>2. /\ scan'.total = scan.total + 1 /\ scan'.dupAt = at
      /\ scan'.dup = scan.dup + IF outcome = "dup" THEN 1 ELSE 0
      /\ r' = outcome /\ pc' \in {"check", "finish"}
      /\ outcome = "oom" => pc' = "finish"
  BY DEF Outcome, NextMatch
<1>3. AllBefore(face)'
  BY <1>0, <1>1 DEF AllBefore
<1>4. FacesSaid'
  BY <1>2, <1>3 DEF FacesSaid
<1>5. FaceLoaded(face) => FaceLoaded(face)'
  BY <1>0, <1>1 DEF FaceLoaded
<1>6. CASE outcome = "dup"
  <2>1. HasRoom(cap)'
    BY <1>6 DEF HasRoom
  <2>2. scan'.dup = scan.dup + 1 /\ Names(loaded[at])'
    BY <1>2, <1>6
  <2>3. FaceSaid'
    BY <1>1, <1>2, <1>5, <2>1, <2>2 DEF FaceSaid
  <2>. QED  BY <1>2, <1>4, <2>3
            DEF Lists, ListRight, EveryFaceReported, DupFollowsPrimary
<1>7. CASE outcome # "dup"
  <2>1. scan'.dup = scan.dup /\ scan'.dup < scan'.total
    BY <1>1, <1>2, <1>7
  <2>2. outcome # "oom" => FaceLoaded(face)'
    BY <1>0, <1>1, <1>7 DEF FaceLoaded
  <2>3. scan'.dup > 0 => Names(loaded[scan.dupAt])'
    BY <1>1, <1>2, <1>7, <2>1
  <2>4. FaceSaid'
    BY <1>1, <1>2, <2>1, <2>2, <2>3 DEF FaceSaid
  <2>. QED  BY <1>2, <1>4, <2>4
            DEF Lists, ListRight, EveryFaceReported, DupFollowsPrimary
<1>. QED  BY <1>6, <1>7

\* A record that was found to have the name or the content of a file.
LEMMA FoundNames ==
  ASSUME RecordsOK, NEW at \in DOMAIN loaded,
         loaded[at].file \in Files \/ loaded[at].base = "ok"
  PROVE  Names(loaded[at])
<1>1. ~loaded[at].dup /\ ~Primary(loaded[at]) => loaded[at].file \notin Files
  BY ConstantsAssumption DEF RecordsOK
<1>. QED  BY <1>1 DEF Names, Primary

LEMMA LoadFileLists ==
  ASSUME ListInv, LoadFile
  PROVE  Lists'
<1> DEFINE f == index[face][scan.total + 1]
<1>0. /\ TypeOK /\ PhaseOK /\ ScanOK /\ RecordsOK /\ Lists /\ DupsOK /\ CountOK
      /\ pc = "load" /\ face \in Faces /\ cursor = 1 /\ cursor' = 1 /\ face' = face
  BY DEF ListInv, IInv, Lists, LoadFile, PhaseOK, ScanOK
<1>1. f \in Files
  <2>1. scan.total < Len(index[face]) /\ scan.total \in Nat
    BY <1>0 DEF ScanOK, TypeOK
  <2>2. index[face] \in Seq(Files)
    BY <1>0, ConstantsAssumption DEF TypeOK
  <2>. QED  BY <2>1, <2>2
<1>2. \/ Outcome("oom", scan.dupAt) /\ NotRecorded
      \/ /\ HasRoom(cap') /\ NotRecorded
         /\ \E at \in DOMAIN loaded : IsFirst(at, SameFile(f)) /\ Outcome("dup", at)
      \/ /\ HasRoom(cap') /\ NotRecorded
         /\ \E at \in DOMAIN loaded : IsFirst(at, SameHash(Digest[f])) /\ Outcome("dup", at)
      \/ HasRoom(cap') /\ \E h \in {NoHash, Digest[f]} : FailFile(f, h)
      \/ HasRoom(cap') /\ RegisterFile(f)
  BY DEF LoadFile, LoadContent
<1>. HIDE DEF f
<1>3. ASSUME NotRecorded
      PROVE  /\ loaded' = loaded /\ DupsOK' /\ CountOK'
             /\ \A fc \in Faces : FaceLoaded(fc) => FaceLoaded(fc)'
  BY <1>0, <1>3, SameRecords DEF NotRecorded
<1>4. CASE Outcome("oom", scan.dupAt) /\ NotRecorded
  BY <1>3, <1>4, OutcomeLists
<1>5. ASSUME HasRoom(cap'), NotRecorded, NEW at \in DOMAIN loaded, Outcome("dup", at),
             at \in SameFile(f) \/ at \in SameHash(Digest[f])
      PROVE  Lists'
  <2>1. Names(loaded[at])
    BY <1>0, <1>1, <1>5, FoundNames DEF SameFile, SameHash, IndicesOf
  <2>. QED  BY <1>3, <1>5, <2>1, OutcomeLists
<1>6. ASSUME HasRoom(cap'), NEW h \in {NoHash, Digest[f]}, FailFile(f, h)
      PROVE  Lists'
  <2> DEFINE e == Record("err", FALSE, face, f, h)
  <2>1. /\ e \in Entry /\ ~e.dup /\ ~Registered(e) /\ e.base = "err" /\ e.face = face
    BY <1>0, <1>1, <1>6 DEF Record, Entry, Registered, Digests
  <2>2. /\ loaded' = Append(loaded, e) /\ count' = [count EXCEPT !.failed = @ + 1]
        /\ Outcome("err", scan.dupAt)
    BY <1>6 DEF FailFile, AppendRecord
  <2>. HIDE DEF e
  <2>3. /\ DupsOK'
        /\ \A fc \in Faces : FaceLoaded(fc) \/ fc = face => FaceLoaded(fc)'
        /\ \A i \in DOMAIN loaded : i \in DOMAIN loaded' /\ loaded'[i] = loaded[i]
        /\ Cardinality(HeldAt') = Cardinality(HeldAt) + 0
        /\ Cardinality(FailedAt') = Cardinality(FailedAt) + 1
        /\ Cardinality(MissedAt') = Cardinality(MissedAt) + 0
    BY <1>0, <2>1, <2>2, Appended
  <2>4. CountOK'
    <3>1. /\ count \in [loaded : Int, failed : Int, unmatched : Int]
          /\ Cardinality(HeldAt) \in Nat /\ Cardinality(MissedAt) \in Nat
      BY <1>0, FiniteAt DEF TypeOK
    <3>2. /\ count'.failed = count.failed + 1
          /\ count'.loaded = count.loaded /\ count'.unmatched = count.unmatched
      BY <2>2, <3>1
    <3>. QED  BY <1>0, <2>3, <3>1, <3>2 DEF CountOK
  <2>. QED  BY <2>2, <2>3, <2>4, OutcomeLists
<1>7. CASE HasRoom(cap') /\ RegisterFile(f)
  <2> DEFINE e == Record("ok", FALSE, face, f, Digest[f])
  <2>1. /\ e \in Entry /\ ~e.dup /\ Registered(e) /\ e.base = "ok" /\ e.face = face
    BY <1>0, <1>1 DEF Record, Entry, Registered, Digests
  <2>2. /\ loaded' = Append(loaded, e) /\ count' = [count EXCEPT !.loaded = @ + 1]
        /\ Outcome("ok", scan.dupAt)
    BY <1>7 DEF RegisterFile, AppendRecord
  <2>. HIDE DEF e
  <2>3. /\ DupsOK'
        /\ \A fc \in Faces : FaceLoaded(fc) \/ fc = face => FaceLoaded(fc)'
        /\ \A i \in DOMAIN loaded : i \in DOMAIN loaded' /\ loaded'[i] = loaded[i]
        /\ Cardinality(HeldAt') = Cardinality(HeldAt) + 1
        /\ Cardinality(FailedAt') = Cardinality(FailedAt) + 0
        /\ Cardinality(MissedAt') = Cardinality(MissedAt) + 0
    BY <1>0, <2>1, <2>2, Appended
  <2>4. CountOK'
    <3>1. /\ count \in [loaded : Int, failed : Int, unmatched : Int]
          /\ Cardinality(FailedAt) \in Nat /\ Cardinality(MissedAt) \in Nat
      BY <1>0, FiniteAt DEF TypeOK
    <3>2. /\ count'.loaded = count.loaded + 1
          /\ count'.failed = count.failed /\ count'.unmatched = count.unmatched
      BY <2>2, <3>1
    <3>. QED  BY <1>0, <2>3, <3>1, <3>2 DEF CountOK
  <2>. QED  BY <2>2, <2>3, <2>4, OutcomeLists
<1>. QED  BY <1>2, <1>4, <1>5, <1>6, <1>7 DEF IsFirst

\* A face whose matches were all duplicates: the record appended for it has room.
LEMMA FinishFaceLists ==
  ASSUME ListInv, FinishFace
  PROVE  Lists'
<1>0. /\ TypeOK /\ PhaseOK /\ ScanOK /\ RecordsOK /\ Lists /\ DupsOK /\ CountOK
      /\ FacesSaid /\ FaceSaid
      /\ pc = "finish" /\ face \in Faces /\ cursor = 1 /\ cursor' = 1
  BY DEF ListInv, IInv, Lists, FinishFace, PhaseOK, ScanOK
<1>1. /\ pc' = IF r = "oom" THEN "sort" ELSE "match"
      /\ face' = face + 1 /\ r' = r /\ count' = count
  BY DEF FinishFace
<1>2. ASSUME DupsOK', CountOK',
             \A fc \in Faces : FaceLoaded(fc) => FaceLoaded(fc)',
             r # "oom" => \A fc \in Faces : fc = face => FaceLoaded(fc)'
      PROVE  Lists'
  <2>1. \A g \in Faces : g < face + 1 => g < face \/ g = face
    BY <1>0 DEF Faces
  <2>2. r # "oom" => AllBefore(face)'
    BY <1>0, <1>1, <1>2, <2>1 DEF FacesSaid, AllBefore
  <2>3. FacesSaid' /\ FaceSaid' /\ ListRight'
    BY <1>1, <2>2
       DEF FacesSaid, FaceSaid, ListRight, EveryFaceReported, DupFollowsPrimary
  <2>. QED  BY <1>2, <2>3 DEF Lists
<1>3. CASE scan.dup # scan.total
  <2>1. loaded' = loaded
    BY <1>3 DEF FinishFace
  <2>2. /\ DupsOK' /\ CountOK'
        /\ \A fc \in Faces : FaceLoaded(fc) => FaceLoaded(fc)'
    BY <1>0, <1>1, <2>1, SameRecords
  <2>3. r # "oom" => FaceLoaded(face)
    BY <1>0, <1>3 DEF FaceSaid, TypeOK
  <2>. QED  BY <1>0, <1>2, <2>2, <2>3
<1>4. CASE scan.dup = scan.total
  <2> DEFINE ref == loaded[scan.dupAt]
  <2>1. /\ scan.dupAt \in DOMAIN loaded /\ Names(ref) /\ HasRoom(cap)
    BY <1>0, <1>4 DEF ScanOK, FaceSaid, TypeOK
  <2>2. cap' \in Prealloc
    BY <1>4 DEF FinishFace
  <2>3. HasRoom(cap')
    <3>1. Len(loaded) \in Nat /\ cap \in Nat
      BY <1>0 DEF TypeOK
    <3>. QED  BY <2>1, <2>2, <3>1 DEF Prealloc, HasRoom
  <2>4. PICK h \in StackHash : AppendRecord(Record(ref.base, TRUE, face, ref.file, h))
    BY <1>4 DEF FinishFace
  <2> DEFINE e == Record(ref.base, TRUE, face, ref.file, h)
  <2>5. loaded' = Append(loaded, e)
    BY <2>3, <2>4 DEF AppendRecord
  <2>6. e \in Entry /\ e.dup /\ ~Registered(e) /\ e.face = face
        /\ e.base = ref.base /\ e.file = ref.file
    <3>1. \A i \in DOMAIN loaded : loaded[i] \in Entry
      BY <1>0 DEF TypeOK
    <3>2. ref \in Entry /\ h \in Digests \cup {NoHash}
      BY <2>1, <2>4, <3>1 DEF StackHash, IndicesOf, Entry
    <3>. QED  BY <1>0, <3>2 DEF Record, Entry, Registered
  <2>7. \E j \in DOMAIN loaded : /\ Primary(loaded[j])
                                 /\ loaded[j].file = ref.file
                                 /\ loaded[j].base = ref.base
    BY <1>0, <2>1 DEF Names, DupsOK
  <2>8. ref.base # "miss"
    BY <2>7 DEF Primary
  <2>. HIDE DEF e, ref
  <2>9. /\ DupsOK'
        /\ \A fc \in Faces : FaceLoaded(fc) \/ fc = face => FaceLoaded(fc)'
        /\ Cardinality(HeldAt') = Cardinality(HeldAt) + 0
        /\ Cardinality(FailedAt') = Cardinality(FailedAt) + 0
        /\ Cardinality(MissedAt') = Cardinality(MissedAt) + 0
    BY <1>0, <2>5, <2>6, <2>7, <2>8, Appended
  <2>10. CountOK'
    BY <1>0, <1>1, <2>9, FiniteAt DEF CountOK
  <2>. QED  BY <1>2, <2>9, <2>10
<1>. QED  BY <1>3, <1>4

(***************************************************************************)
(* The sort: records rearranged are as many of each kind, and the order of *)
(* the comparison puts a primary record before its duplicates.             *)
(***************************************************************************)
\* Of two records of a file that ended the same way, the primary one comes first.
LEMMA PrimaryPrecedes ==
  ASSUME NEW a \in Entry, NEW b \in Entry, Primary(a), b.dup,
         a.file \in Files, a.file = b.file, a.base = b.base
  PROVE  Precedes(a, b)
<1>. USE ConstantsAssumption
<1>1. a.file # NoFile /\ b.file # NoFile /\ Rank[a.file] = Rank[b.file]
  OBVIOUS
<1>2. Mask(a) = Mask(b) /\ ~a.dup
  BY DEF Mask, Primary
<1>. QED  BY <1>1, <1>2 DEF Precedes

LEMMA SortRecordsLists ==
  ASSUME ListInv, SortRecords
  PROVE  Lists'
<1>0. /\ TypeOK /\ PhaseOK /\ RecordsOK /\ Lists /\ DupsOK /\ CountOK /\ FacesSaid
      /\ pc = "sort" /\ cursor = 1
  BY DEF ListInv, IInv, Lists, PhaseOK, SortRecords
<1>1. pc' = "done" /\ r' = r /\ count' = count /\ cursor' = 1
  BY <1>0 DEF SortRecords
<1> DEFINE D == DOMAIN loaded
<1>2. PICK p \in Bijection(D, D) :
        /\ loaded' = [i \in D |-> loaded[p[i]]]
        /\ \A i, j \in D : i < j => ~Precedes(loaded'[j], loaded'[i])
  BY DEF SortRecords
<1>3. /\ D = 1 .. Len(loaded) /\ Len(loaded) \in Nat
      /\ \A i \in D : loaded[i] \in Entry
  BY <1>0 DEF TypeOK
<1>4. IsFiniteSet(D)
  BY <1>3, FS_Interval
<1>5. /\ \A i \in D : p[i] \in D
      /\ \A k \in D : \E i \in D : p[i] = k
  BY <1>2 DEF Bijection, Injection, Surjection, IsInjective
<1>6. DOMAIN loaded' = D /\ \A i \in D : loaded'[i] = loaded[p[i]]
  BY <1>2
<1>. HIDE DEF D
<1>7. CountOK'
  <2>1. HeldAt = {i \in D : Registered(loaded[i])}
    BY <1>0, <1>3 DEF HeldAt, D
  <2>2. HeldAt' = {i \in D : Registered(loaded[p[i]])}
    BY <1>1, <1>3, <1>6 DEF HeldAt
  <2>3. HeldAt' = {i \in D : p[i] \in HeldAt}
    BY <1>5, <2>1, <2>2
  <2>4. FailedAt' = {i \in D : p[i] \in FailedAt}
    BY <1>5, <1>6 DEF FailedAt, D
  <2>5. MissedAt' = {i \in D : p[i] \in MissedAt}
    BY <1>5, <1>6 DEF MissedAt, D
  <2>6. /\ HeldAt \in SUBSET D /\ FailedAt \in SUBSET D /\ MissedAt \in SUBSET D
    BY DEF HeldAt, FailedAt, MissedAt, D
  <2>7. Cardinality(HeldAt') = Cardinality(HeldAt)
    BY <1>2, <1>4, <2>3, <2>6, Rearranged
  <2>8. Cardinality(FailedAt') = Cardinality(FailedAt)
    BY <1>2, <1>4, <2>4, <2>6, Rearranged
  <2>9. Cardinality(MissedAt') = Cardinality(MissedAt)
    BY <1>2, <1>4, <2>5, <2>6, Rearranged
  <2>. QED  BY <1>0, <1>1, <2>7, <2>8, <2>9 DEF CountOK
<1>8. \A k \in D : \E i \in D : loaded'[i] = loaded[k]
  BY <1>5, <1>6
<1>9. \A i \in D : loaded'[i].dup =>
        \E j \in D : /\ Primary(loaded'[j])
                     /\ loaded'[j].file = loaded'[i].file
                     /\ loaded'[j].base = loaded'[i].base
  <2>. SUFFICES ASSUME NEW i \in D, loaded'[i].dup
                PROVE  \E j \in D : /\ Primary(loaded'[j])
                                    /\ loaded'[j].file = loaded'[i].file
                                    /\ loaded'[j].base = loaded'[i].base
    OBVIOUS
  <2>1. PICK k \in D : /\ Primary(loaded[k])
                       /\ loaded[k].file = loaded[p[i]].file
                       /\ loaded[k].base = loaded[p[i]].base
    BY <1>0, <1>5, <1>6 DEF DupsOK, D
  <2>2. PICK j \in D : loaded'[j] = loaded[k]
    BY <1>8
  <2>. QED  BY <1>6, <2>1, <2>2
<1>10. DupsOK'
  BY <1>6, <1>9 DEF DupsOK
<1>11. DupFollowsPrimary'
  <2>. SUFFICES ASSUME NEW i \in D, loaded'[i].dup
                PROVE  \E j \in 1 .. i - 1 : /\ Primary(loaded'[j])
                                             /\ loaded'[j].file = loaded'[i].file
                                             /\ loaded'[j].base = loaded'[i].base
    BY <1>6 DEF DupFollowsPrimary
  <2>1. PICK j \in D : /\ Primary(loaded'[j])
                       /\ loaded'[j].file = loaded'[i].file
                       /\ loaded'[j].base = loaded'[i].base
    BY <1>9
  <2>2. loaded'[i] \in Entry /\ loaded'[j] \in Entry /\ loaded'[j].file \in Files
    BY <1>0, <1>3, <1>5, <1>6, <2>1 DEF RecordsOK, D
  <2>3. Precedes(loaded'[j], loaded'[i])
    BY <2>1, <2>2, PrimaryPrecedes
  <2>4. ~(i < j)
    BY <1>2, <2>3 DEF D
  <2>5. i # j
    BY <2>1 DEF Primary
  <2>6. i \in Nat /\ j \in Nat /\ j >= 1
    BY <1>3
  <2>7. j \in 1 .. i - 1
    BY <2>4, <2>5, <2>6
  <2>. QED  BY <2>1, <2>7
<1>12. EveryFaceReported'
  <2>. SUFFICES ASSUME r # "oom", NEW fc \in Faces PROVE FaceLoaded(fc)'
    BY <1>1 DEF EveryFaceReported
  <2>1. fc < NumFaces + 1
    BY ConstantsAssumption DEF Faces
  <2>2. FaceLoaded(fc)
    BY <1>0, <2>1 DEF FacesSaid, AllBefore
  <2>3. PICK k \in D : loaded[k].face = fc
    BY <2>2 DEF FaceLoaded, D
  <2>. QED  BY <1>6, <1>8, <2>3 DEF FaceLoaded
<1>13. FacesSaid' /\ FaceSaid'
  BY <1>1 DEF FacesSaid, FaceSaid
<1>. QED  BY <1>7, <1>10, <1>11, <1>12, <1>13 DEF Lists, ListRight

(***************************************************************************)
(* fl_unload_fonts: the counter goes down with the records left to visit.  *)
(***************************************************************************)
LEMMA UnloadRecordLists ==
  ASSUME ListInv, UnloadRecord
  PROVE  Lists'
<1>0. /\ TypeOK /\ Lists /\ DupsOK /\ CountOK /\ pc = "unload"
      /\ cursor \in DOMAIN loaded
  <2>1. /\ TypeOK /\ Lists /\ pc = "unload" /\ cursor <= Len(loaded)
    BY DEF ListInv, IInv, UnloadRecord
  <2>2. cursor \in DOMAIN loaded
    BY <2>1 DEF TypeOK
  <2>. QED  BY <2>1, <2>2 DEF Lists
<1>1. /\ pc' = "unload" /\ loaded' = loaded /\ cursor' = cursor + 1
      /\ count' = IF Registered(loaded[cursor])
                    THEN [count EXCEPT !.loaded = @ - 1] ELSE count
  BY <1>0 DEF UnloadRecord
<1>2. FacesSaid' /\ FaceSaid' /\ ListRight'
  BY <1>1 DEF FacesSaid, FaceSaid, ListRight, EveryFaceReported, DupFollowsPrimary
<1>3. DupsOK'
  BY <1>0, <1>1 DEF DupsOK
<1>4. FailedAt' = FailedAt /\ MissedAt' = MissedAt
  BY <1>1 DEF FailedAt, MissedAt
<1>5. HeldAt' = HeldAt \ {cursor}
  <2>1. \A i \in DOMAIN loaded : i >= cursor + 1 <=> i >= cursor /\ i # cursor
    BY <1>0 DEF TypeOK
  <2>. QED  BY <1>1, <2>1 DEF HeldAt
<1>6. /\ count \in [loaded : Int, failed : Int, unmatched : Int]
      /\ IsFiniteSet(HeldAt) /\ Cardinality(HeldAt) \in Nat
  BY <1>0, FiniteAt DEF TypeOK
<1>7. CASE Registered(loaded[cursor])
  <2>1. cursor \in HeldAt
    BY <1>0, <1>7 DEF HeldAt, TypeOK
  <2>2. Cardinality(HeldAt') = Cardinality(HeldAt) - 1
    BY <1>5, <1>6, <2>1, FS_RemoveElement
  <2>3. /\ count'.loaded = count.loaded - 1
        /\ count'.failed = count.failed /\ count'.unmatched = count.unmatched
    BY <1>1, <1>6, <1>7
  <2>4. CountOK'
    BY <1>0, <1>4, <2>2, <2>3 DEF CountOK
  <2>. QED  BY <1>2, <1>3, <2>4 DEF Lists
<1>8. CASE ~Registered(loaded[cursor])
  <2>1. HeldAt' = HeldAt
    BY <1>5, <1>8 DEF HeldAt
  <2>2. CountOK'
    BY <1>0, <1>1, <1>4, <1>8, <2>1 DEF CountOK
  <2>. QED  BY <1>2, <1>3, <2>2 DEF Lists
<1>. QED  BY <1>7, <1>8

LEMMA EndUnloadLists ==
  ASSUME EndUnload
  PROVE  Lists'
<1>1. pc' = "idle" /\ loaded' = << >> /\ count' = NoCount
  BY DEF EndUnload
<1>2. CountOK'
  BY <1>1, EmptyCounts DEF CountOK, NoCount
<1>3. FacesSaid' /\ FaceSaid' /\ DupsOK' /\ ListRight'
  BY <1>1 DEF FacesSaid, FaceSaid, DupsOK, ListRight, EveryFaceReported,
              DupFollowsPrimary
<1>. QED  BY <1>2, <1>3 DEF Lists

-----------------------------------------------------------------------------
(***************************************************************************)
(* Every step keeps the invariant.                                         *)
(***************************************************************************)
LEMMA NextLists == ListInv /\ [Next]_vars => ListInv'
<1>. SUFFICES ASSUME ListInv, [Next]_vars PROVE ListInv'
  OBVIOUS
<1>0. IInv'
  BY NextIInv DEF ListInv
<1>1. CASE BeginLoad \/ BeginUnload
  BY <1>0, <1>1, SimpleSteps DEF ListInv
<1>2. CASE Load
  <2>1. CASE ProbeCancelled \/ EndProbe \/ SkipFace \/ CheckCancel \/ EndMatch
    BY <1>0, <2>1, SimpleSteps DEF ListInv
  <2>2. CASE \E installed \in BOOLEAN : ProbeFace(installed)
    BY <1>0, <2>2, ProbeFaceLists DEF ListInv
  <2>3. CASE MatchFace
    BY <1>0, <2>3, MatchFaceLists DEF ListInv
  <2>4. CASE LoadFile
    BY <1>0, <2>4, LoadFileLists DEF ListInv
  <2>5. CASE FinishFace
    BY <1>0, <2>5, FinishFaceLists DEF ListInv
  <2>6. CASE SortRecords
    BY <1>0, <2>6, SortRecordsLists DEF ListInv
  <2>. QED  BY <1>2, <2>1, <2>2, <2>3, <2>4, <2>5, <2>6 DEF Load
<1>3. CASE Unload
  BY <1>0, <1>3, UnloadRecordLists, EndUnloadLists DEF ListInv, Unload
<1>4. CASE Environment
  <2>1. UNCHANGED <<pc, face, scan, r, result, loaded, cap, count, cursor>>
    BY <1>4 DEF Environment, Cancel, OtherRegisters, OtherUnregisters, loadVars
  <2>. QED  BY <1>0, <2>1, SameLists DEF ListInv
<1>5. CASE UNCHANGED vars
  <2>1. UNCHANGED <<pc, face, scan, r, result, loaded, cap, count, cursor>>
    BY <1>5 DEF vars, loadVars
  <2>. QED  BY <1>0, <2>1, SameLists DEF ListInv
<1>. QED  BY <1>1, <1>2, <1>3, <1>4, <1>5 DEF Next

\* What was said about the list above holds in every state of a session.
THEOREM ListInvariance == Spec => []ListInv
<1>1. Init => ListInv
  BY InitIInv, InitLists DEF ListInv
<1>. QED  BY <1>1, NextLists, PTL DEF Spec

\* The counters shown are the numbers of records of each kind at every moment of
\* loading and unloading: num_font_loaded never wraps (CountersMatch).
THEOREM CountersAreRight == Spec => []CountersMatch
<1>1. ListInv => CountersMatch
  <2>. SUFFICES ASSUME ListInv PROVE CountersMatch
    OBVIOUS
  <2>1. CountOK
    BY DEF ListInv, Lists
  <2>2. HeldAt = {i \in IndicesOf(Registered) : i >= cursor}
    BY DEF HeldAt, IndicesOf
  <2>3. FailedAt = IndicesOf(LAMBDA e : e.base = "err" /\ ~e.dup)
    BY DEF FailedAt, IndicesOf
  <2>4. MissedAt = IndicesOf(LAMBDA e : e.base = "miss")
    BY DEF MissedAt, IndicesOf
  <2>. QED  BY <2>1, <2>2, <2>3, <2>4 DEF CountOK, CountersMatch
<1>. QED  BY <1>1, ListInvariance, PTL

\* A load that ends without an allocation failure has a record of every face, and
\* every duplicate comes after the record it duplicates (ListRight).
THEOREM ListIsRight == Spec => []ListRight
<1>1. ListInv => ListRight
  BY DEF ListInv, Lists
<1>. QED  BY <1>1, ListInvariance, PTL
=============================================================================
