-------------------------- MODULE FontLoadProofs --------------------------
(***************************************************************************)
(* Proofs about FontLoad, for every index, every set of files and faces,   *)
(* both font managers and every order of the other threads' steps.         *)
(***************************************************************************)
EXTENDS FontLoad, TLAPS

(***************************************************************************)
(* The inductive invariant.  RegisteredIffRecorded alone is not inductive: *)
(* fl_unload_fonts gives a file back once only because no other record     *)
(* stands for it, and only because its path still fits in walk_path.       *)
(***************************************************************************)
\* Between two loads there is no record, and cursor is the unload's own.
PhaseOK ==
  /\ pc = "idle" => loaded = << >>
  /\ pc # "unload" => cursor = 1

\* The loop of pass 2 is at a match that exists; a duplicate it found is one of
\* the records.
ScanOK ==
  pc \in {"check", "load", "finish"} =>
    /\ face \in Faces
    /\ pc # "finish" => scan.total < Len(index[face])
    /\ pc = "finish" => scan.total > 0
    /\ scan.dup > 0 => scan.dupAt \in DOMAIN loaded

\* Every record of a file holds that file, its path has fitted in walk_path, and
\* no other record stands for it.
RecordsOK ==
  /\ \A i \in DOMAIN loaded : Primary(loaded[i]) =>
       /\ loaded[i].file \in Files
       /\ PathLen[loaded[i].file] <= walkCap
       /\ loaded[i].base = "ok" => loaded[i].hash = Digest[loaded[i].file]
  /\ \A i, j \in DOMAIN loaded :
       /\ Primary(loaded[i])
       /\ Primary(loaded[j])
       /\ loaded[i].file = loaded[j].file
       => i = j
  /\ \A i \in DOMAIN loaded :
       ~loaded[i].dup /\ ~Primary(loaded[i]) => loaded[i].file = NoFile

\* A registration after the cancellation was the last one.
LateOK == late => cancelled /\ pc # "load"

IInv ==
  /\ TypeOK
  /\ PhaseOK
  /\ ScanOK
  /\ RecordsOK
  /\ LateOK
  /\ RegisteredIffRecorded
  /\ NoContentTwice

LEMMA InitIInv == Init => IInv
<1>. SUFFICES ASSUME Init PROVE IInv
  OBVIOUS
<1>. USE ConstantsAssumption DEF Init
<1>1. TypeOK
  <2>1. loaded \in Seq(Entry)
    OBVIOUS
  <2>2. scan \in [total : Nat, ok : Nat, dup : Nat, dupAt : Nat \ {0}]
    BY DEF NoScan
  <2>3. count \in [loaded : Int, failed : Int, unmatched : Int]
    BY DEF NoCount
  <2>4. ours \in [Files -> Nat] /\ others \in SUBSET Files
    OBVIOUS
  <2>5. face \in 1 .. NumFaces + 1
    OBVIOUS
  <2>6. cancelled \in BOOLEAN /\ late \in BOOLEAN
    OBVIOUS
  <2>7. cap \in Nat /\ walkCap \in Nat /\ cursor \in Nat \ {0}
    OBVIOUS
  <2>. QED  BY <2>1, <2>2, <2>3, <2>4, <2>5, <2>6, <2>7, Zenon DEF TypeOK
<1>2. PhaseOK /\ ScanOK /\ RecordsOK /\ LateOK
  BY DEF PhaseOK, ScanOK, RecordsOK, LateOK
<1>3. RegisteredIffRecorded /\ NoContentTwice
  BY DEF RegisteredIffRecorded, NoContentTwice
<1>. QED  BY <1>1, <1>2, <1>3 DEF IInv

\* A function on 1 .. n is a sequence.
LEMMA IsASeq ==
  ASSUME NEW S, NEW n \in Nat, NEW s \in [1 .. n -> S]
  PROVE  s \in Seq(S)
OBVIOUS

(***************************************************************************)
(* Appending a record that registers nothing.                              *)
(***************************************************************************)
\* A vector with room or without keeps RecordsOK and RegisteredIffRecorded when
\* the record appended is not that of a file.
LEMMA AppendOther ==
  ASSUME IInv, pc # "unload",
         NEW e \in Entry, ~Primary(e), e.dup \/ e.file = NoFile,
         loaded' = Append(loaded, e) \/ loaded' = loaded,
         walkCap' = walkCap, cursor' = cursor, ours' = ours
  PROVE  /\ loaded' \in Seq(Entry)
         /\ Len(loaded') >= Len(loaded)
         /\ RecordsOK'
         /\ RegisteredIffRecorded'
         /\ NoContentTwice'
<1>. USE DEF IInv
<1>1. loaded \in Seq(Entry)
  BY DEF TypeOK
<1>2. CASE loaded' = loaded
  BY <1>1, <1>2 DEF RecordsOK, RegisteredIffRecorded, NoContentTwice
<1>3. CASE loaded' = Append(loaded, e)
  <2>1. /\ loaded' \in Seq(Entry)
        /\ Len(loaded') = Len(loaded) + 1
        /\ DOMAIN loaded' = DOMAIN loaded \cup {Len(loaded) + 1}
        /\ \A i \in DOMAIN loaded : loaded'[i] = loaded[i]
        /\ loaded'[Len(loaded) + 1] = e
    BY <1>1, <1>3
  <2>2. RecordsOK'
    BY <2>1 DEF RecordsOK
  <2>3. ~Registered(e)
    BY DEF Primary, Registered
  <2>4. RegisteredIffRecorded'
    BY <2>1, <2>3 DEF RegisteredIffRecorded
  <2>. QED  BY <1>1, <2>1, <2>2, <2>4 DEF NoContentTwice
<1>. QED  BY <1>2, <1>3

\* Steps that leave the records and the registrations alone.
LEMMA RecordsFrame ==
  ASSUME IInv, UNCHANGED <<loaded, walkCap, cursor, ours>>
  PROVE  RecordsOK' /\ RegisteredIffRecorded' /\ NoContentTwice'
BY DEF IInv, RecordsOK, RegisteredIffRecorded, NoContentTwice

\* A capacity stays a number, whether realloc succeeds or not.
LEMMA PreallocNat == TypeOK => Prealloc \in SUBSET Nat
<1>. SUFFICES ASSUME TypeOK PROVE Prealloc \in SUBSET Nat
  OBVIOUS
<1>1. cap \in Nat /\ Len(loaded) \in Nat
  BY DEF TypeOK
<1>. QED  BY <1>1 DEF Prealloc

(***************************************************************************)
(* One lemma per action: the step preserves the invariant.                 *)
(***************************************************************************)
LEMMA BeginLoadIInv == IInv /\ BeginLoad => IInv'
<1>. SUFFICES ASSUME IInv, BeginLoad PROVE IInv'
  OBVIOUS
<1>. USE ConstantsAssumption DEF BeginLoad, IInv, osVars
<1>1. TypeOK'
  BY DEF TypeOK, NoCount, Faces
<1>2. PhaseOK' /\ ScanOK' /\ LateOK'
  BY DEF PhaseOK, ScanOK, LateOK
<1>3. RecordsOK' /\ RegisteredIffRecorded' /\ NoContentTwice'
  BY RecordsFrame
<1>. QED  BY <1>1, <1>2, <1>3

LEMMA ProbeCancelledIInv == IInv /\ ProbeCancelled => IInv'
<1>. SUFFICES ASSUME IInv, ProbeCancelled PROVE IInv'
  OBVIOUS
<1>. USE DEF ProbeCancelled, IInv, osVars
<1>1. TypeOK'
  BY DEF TypeOK
<1>2. PhaseOK' /\ ScanOK' /\ LateOK'
  BY DEF PhaseOK, ScanOK, LateOK
<1>3. RecordsOK' /\ RegisteredIffRecorded' /\ NoContentTwice'
  BY RecordsFrame
<1>. QED  BY <1>1, <1>2, <1>3

LEMMA ProbeFaceIInv ==
  ASSUME IInv, NEW installed \in BOOLEAN, ProbeFace(installed)
  PROVE  IInv'
<1>. USE ConstantsAssumption
<1>. DEFINE e == Record("os", FALSE, face, NoFile, NoHash)
<1>1. TypeOK /\ pc = "probe" /\ face \in Faces
  BY DEF IInv, TypeOK, Faces, ProbeFace
<1>2. e \in Entry /\ ~Primary(e) /\ e.file = NoFile
  BY <1>1 DEF Record, Entry, Primary
<1>3. /\ loaded' = Append(loaded, e) \/ loaded' = loaded
      /\ pc' \in {"probe", "sort"} /\ r' \in {r, "oom"} /\ face' = face + 1
      /\ cap' \in {cap} \cup Prealloc
      /\ UNCHANGED <<index, scan, result, walkCap, count, cursor, cancelled, osVars>>
  BY <1>1 DEF ProbeFace
<1>. HIDE DEF e
<1>4. /\ loaded' \in Seq(Entry)
      /\ RecordsOK' /\ RegisteredIffRecorded' /\ NoContentTwice'
  BY <1>1, <1>2, <1>3, AppendOther DEF osVars
<1>5. cap' \in Nat
  BY <1>1, <1>3, PreallocNat DEF TypeOK
<1>6. TypeOK'
  BY <1>1, <1>3, <1>4, <1>5 DEF TypeOK, Faces, osVars
<1>7. PhaseOK' /\ ScanOK' /\ LateOK'
  BY <1>1, <1>3 DEF IInv, PhaseOK, ScanOK, LateOK, osVars
<1>. QED  BY <1>4, <1>6, <1>7 DEF IInv

LEMMA EndProbeIInv == IInv /\ EndProbe => IInv'
<1>. SUFFICES ASSUME IInv, EndProbe PROVE IInv'
  OBVIOUS
<1>. USE ConstantsAssumption DEF EndProbe, IInv, osVars
<1>1. TypeOK'
  BY DEF TypeOK
<1>2. PhaseOK' /\ ScanOK' /\ LateOK'
  BY DEF PhaseOK, ScanOK, LateOK
<1>3. RecordsOK' /\ RegisteredIffRecorded' /\ NoContentTwice'
  BY RecordsFrame
<1>. QED  BY <1>1, <1>2, <1>3

LEMMA SkipFaceIInv == IInv /\ SkipFace => IInv'
<1>. SUFFICES ASSUME IInv, SkipFace PROVE IInv'
  OBVIOUS
<1>. USE ConstantsAssumption DEF SkipFace, IInv, osVars
<1>1. TypeOK'
  BY DEF TypeOK
<1>2. PhaseOK' /\ ScanOK' /\ LateOK'
  BY DEF PhaseOK, ScanOK, LateOK
<1>3. RecordsOK' /\ RegisteredIffRecorded' /\ NoContentTwice'
  BY RecordsFrame
<1>. QED  BY <1>1, <1>2, <1>3

LEMMA MatchFaceIInv == IInv /\ MatchFace => IInv'
<1>. SUFFICES ASSUME IInv, MatchFace PROVE IInv'
  OBVIOUS
<1>. USE ConstantsAssumption
<1>. DEFINE e == Record("miss", FALSE, face, NoFile, NoHash)
<1>1. TypeOK /\ pc = "match" /\ face \in Faces
  BY DEF IInv, TypeOK, Faces, MatchFace
<1>2. e \in Entry /\ ~Primary(e) /\ e.file = NoFile
  BY <1>1 DEF Record, Entry, Primary
<1>3. /\ loaded' = Append(loaded, e) \/ loaded' = loaded
      /\ pc' \in {"match", "sort", "check"} /\ r' \in {r, "oom"}
      /\ face' \in {face, face + 1}
      /\ cap' \in Prealloc
      /\ scan' = scan \/ scan' = NoScan
      /\ count' = count \/ count' = [count EXCEPT !.unmatched = @ + 1]
      /\ UNCHANGED <<index, result, walkCap, cursor, cancelled, osVars>>
  BY <1>1 DEF MatchFace
<1>4. pc' = "check" => scan' = NoScan /\ index[face] # << >> /\ face' = face
  BY <1>1 DEF MatchFace
<1>. HIDE DEF e
<1>5. /\ loaded' \in Seq(Entry)
      /\ RecordsOK' /\ RegisteredIffRecorded' /\ NoContentTwice'
  BY <1>1, <1>2, <1>3, AppendOther DEF osVars
<1>6. cap' \in Nat
  BY <1>1, <1>3, PreallocNat
<1>7. count' \in [loaded : Int, failed : Int, unmatched : Int]
  <2>1. count \in [loaded : Int, failed : Int, unmatched : Int]
    BY <1>1 DEF TypeOK
  <2>. QED  BY <1>3, <2>1
<1>8. scan' \in [total : Nat, ok : Nat, dup : Nat, dupAt : Nat \ {0}]
  <2>1. scan \in [total : Nat, ok : Nat, dup : Nat, dupAt : Nat \ {0}]
    BY <1>1 DEF TypeOK
  <2>. QED  BY <1>3, <2>1 DEF NoScan
<1>9. TypeOK'
  <2>1. /\ pc' \in {"match", "sort", "check"} /\ r' \in {r, "oom"}
        /\ face' \in {face, face + 1}
        /\ UNCHANGED <<index, result, walkCap, cursor, cancelled, osVars>>
    BY <1>3
  <2>2. face' \in 1 .. NumFaces + 1
    BY <1>1, <2>1 DEF Faces
  <2>. QED  BY <1>1, <1>5, <1>6, <1>7, <1>8, <2>1, <2>2 DEF TypeOK, osVars
<1>10. ScanOK'
  <2>1. index[face] \in Seq(Files) /\ index' = index
    BY <1>1, <1>3 DEF TypeOK
  <2>2. pc' = "check" => index[face] # << >> /\ 0 < Len(index[face])
    BY <1>4, <2>1
  <2>. QED  BY <1>1, <1>3, <1>4, <2>1, <2>2 DEF ScanOK, NoScan
<1>11. PhaseOK' /\ LateOK'
  BY <1>1, <1>3 DEF IInv, PhaseOK, LateOK, osVars
<1>. QED  BY <1>5, <1>9, <1>10, <1>11 DEF IInv

LEMMA CheckCancelIInv == IInv /\ CheckCancel => IInv'
<1>. SUFFICES ASSUME IInv, CheckCancel PROVE IInv'
  OBVIOUS
<1>. USE DEF CheckCancel, IInv, osVars
<1>1. TypeOK'
  BY DEF TypeOK
<1>2. PhaseOK' /\ ScanOK' /\ LateOK'
  BY DEF PhaseOK, ScanOK, LateOK
<1>3. RecordsOK' /\ RegisteredIffRecorded' /\ NoContentTwice'
  BY RecordsFrame
<1>. QED  BY <1>1, <1>2, <1>3

(***************************************************************************)
(* fl_load_file.                                                           *)
(***************************************************************************)
\* What a return of fl_load_file does to the loop of pass 2.
LEMMA OutcomeScan ==
  ASSUME IInv, pc = "load",
         NEW outcome \in {"ok", "err", "dup", "oom"},
         NEW at, Outcome(outcome, at),
         at \in DOMAIN loaded \/ (outcome # "dup" /\ at = scan.dupAt),
         UNCHANGED <<index, face>>, loaded' \in Seq(Entry),
         Len(loaded') >= Len(loaded)
  PROVE  /\ scan' \in [total : Nat, ok : Nat, dup : Nat, dupAt : Nat \ {0}]
         /\ r' = outcome
         /\ pc' \in {"check", "finish"}
         /\ ScanOK'
<1>1. /\ scan \in [total : Nat, ok : Nat, dup : Nat, dupAt : Nat \ {0}]
      /\ loaded \in Seq(Entry)
  BY DEF IInv, TypeOK
<1>2. /\ face \in Faces
      /\ scan.total < Len(index[face])
      /\ scan.dup > 0 => scan.dupAt \in DOMAIN loaded
  BY DEF IInv, ScanOK
<1>3. DOMAIN loaded \subseteq DOMAIN loaded' /\ DOMAIN loaded \subseteq Nat \ {0}
  BY <1>1
<1>4. at \in Nat \ {0}
  BY <1>1, <1>3
<1>5. /\ scan'.total = scan.total + 1
      /\ scan'.dup = scan.dup + IF outcome = "dup" THEN 1 ELSE 0
      /\ scan'.dupAt = at
      /\ scan' = [total |-> scan'.total, ok |-> scan'.ok, dup |-> scan'.dup,
                  dupAt |-> scan'.dupAt]
      /\ scan'.ok \in Nat
  BY <1>1 DEF Outcome
<1>6. scan' \in [total : Nat, ok : Nat, dup : Nat, dupAt : Nat \ {0}]
  BY <1>1, <1>4, <1>5
<1>7. /\ r' = outcome
      /\ pc' \in {"check", "finish"}
      /\ pc' = "check" => scan.total + 1 < Len(index[face])
  BY DEF Outcome, NextMatch
<1>8. scan'.dup > 0 => scan'.dupAt \in DOMAIN loaded'
  BY <1>1, <1>2, <1>3, <1>5
<1>9. ScanOK'
  BY <1>1, <1>2, <1>5, <1>7, <1>8 DEF ScanOK
<1>. QED  BY <1>6, <1>7, <1>9

\* A record of a file that no record names yet.
LEMMA AppendFile ==
  ASSUME IInv, NEW f \in Files, SameFile(f) = {},
         NEW e \in Entry, Primary(e), e.file = f,
         e.base = "ok" => e.hash = Digest[f],
         loaded' = Append(loaded, e),
         walkCap' \in Nat, walkCap' >= walkCap, PathLen[f] <= walkCap'
  PROVE  /\ loaded' \in Seq(Entry)
         /\ Len(loaded') = Len(loaded) + 1
         /\ \A i \in DOMAIN loaded : loaded'[i] = loaded[i]
         /\ loaded'[Len(loaded) + 1] = e
         /\ RecordsOK'
<1>. USE ConstantsAssumption
<1>1. loaded \in Seq(Entry) /\ walkCap \in Nat
  BY DEF IInv, TypeOK
<1>2. /\ loaded' \in Seq(Entry)
      /\ Len(loaded') = Len(loaded) + 1
      /\ DOMAIN loaded' = DOMAIN loaded \cup {Len(loaded) + 1}
      /\ \A i \in DOMAIN loaded : loaded'[i] = loaded[i]
      /\ loaded'[Len(loaded) + 1] = e
  BY <1>1
<1>3. \A i \in DOMAIN loaded : loaded[i].file # f
  BY DEF SameFile, IndicesOf
<1>4. RecordsOK
  BY DEF IInv
<1>5. \A i \in DOMAIN loaded' : Primary(loaded'[i]) =>
        /\ loaded'[i].file \in Files
        /\ PathLen[loaded'[i].file] <= walkCap'
        /\ loaded'[i].base = "ok" => loaded'[i].hash = Digest[loaded'[i].file]
  <2>1. \A g \in Files : PathLen[g] \in Nat
    OBVIOUS
  <2>. QED  BY <1>1, <1>2, <1>4, <2>1 DEF RecordsOK
<1>6. \A i, j \in DOMAIN loaded' :
        /\ Primary(loaded'[i])
        /\ Primary(loaded'[j])
        /\ loaded'[i].file = loaded'[j].file
        => i = j
  BY <1>2, <1>3, <1>4 DEF RecordsOK
<1>7. \A i \in DOMAIN loaded' :
        ~loaded'[i].dup /\ ~Primary(loaded'[i]) => loaded'[i].file = NoFile
  BY <1>2, <1>4 DEF RecordsOK
<1>. QED  BY <1>2, <1>5, <1>6, <1>7 DEF RecordsOK

\* The file could not be mapped or was refused: it is recorded as failed.
LEMMA FailFileIInv ==
  ASSUME IInv, pc = "load",
         NEW f \in Files, SameFile(f) = {},
         NEW h \in Digests \cup {NoHash}, FailFile(f, h), HasRoom(cap'),
         walkCap' \in Nat, walkCap' >= walkCap, PathLen[f] <= walkCap',
         cap' \in Nat, UNCHANGED <<index, face, result, cursor, cancelled>>
  PROVE  IInv'
<1>. DEFINE e == Record("err", FALSE, face, f, h)
<1>1. TypeOK /\ PhaseOK /\ ScanOK /\ LateOK /\ face \in Faces
  BY DEF IInv, ScanOK
<1>2. /\ e \in Entry /\ Primary(e) /\ e.file = f /\ e.base = "err"
      /\ ~Registered(e)
  BY <1>1 DEF Record, Entry, Primary, Registered
<1>3. loaded' = Append(loaded, e)
  BY DEF FailFile, AppendRecord
<1>4. UNCHANGED <<ours, others, late>> /\ Outcome("err", scan.dupAt)
  BY DEF FailFile, osVars
<1>5. count' \in [loaded : Int, failed : Int, unmatched : Int]
  <2>1. count \in [loaded : Int, failed : Int, unmatched : Int]
    BY <1>1 DEF TypeOK
  <2>2. count' = [count EXCEPT !.failed = @ + 1]
    BY DEF FailFile
  <2>. QED  BY <2>1, <2>2
<1>. HIDE DEF e
<1>6. /\ loaded' \in Seq(Entry)
      /\ Len(loaded') = Len(loaded) + 1
      /\ \A i \in DOMAIN loaded : loaded'[i] = loaded[i]
      /\ loaded'[Len(loaded) + 1] = e
      /\ RecordsOK'
  BY <1>2, <1>3, AppendFile
<1>7. loaded \in Seq(Entry) /\ cursor = 1 /\ cursor' = 1
  BY <1>1 DEF TypeOK, PhaseOK
<1>8. /\ scan' \in [total : Nat, ok : Nat, dup : Nat, dupAt : Nat \ {0}]
      /\ r' = "err"
      /\ pc' \in {"check", "finish"}
      /\ ScanOK'
  BY <1>4, <1>6, <1>7, OutcomeScan
<1>9. TypeOK'
  BY <1>1, <1>4, <1>5, <1>6, <1>7, <1>8 DEF TypeOK
<1>10. RegisteredIffRecorded' /\ NoContentTwice'
  <2>1. RegisteredIffRecorded /\ NoContentTwice
    BY DEF IInv
  <2>2. \A g \in Files :
          (\E i \in DOMAIN loaded : Registered(loaded[i]) /\ loaded[i].file = g)
          <=> (\E i \in DOMAIN loaded' :
                 Registered(loaded'[i]) /\ loaded'[i].file = g)
    BY <1>2, <1>6, <1>7
  <2>. QED  BY <1>4, <1>6, <1>7, <2>1, <2>2
            DEF RegisteredIffRecorded, NoContentTwice
<1>11. PhaseOK' /\ LateOK'
  BY <1>1, <1>4, <1>7, <1>8 DEF PhaseOK, LateOK
<1>. QED  BY <1>6, <1>8, <1>9, <1>10, <1>11 DEF IInv

\* The system accepted the file: no record named it and no loaded file has its
\* content, so it was not registered before.
LEMMA RegisterFileIInv ==
  ASSUME IInv, pc = "load",
         NEW f \in Files, SameFile(f) = {}, SameHash(Digest[f]) = {},
         RegisterFile(f), HasRoom(cap'),
         walkCap' \in Nat, walkCap' >= walkCap, PathLen[f] <= walkCap',
         cap' \in Nat, UNCHANGED <<index, face, result, cursor, cancelled>>
  PROVE  /\ IInv'
         /\ ours[f] = 0
         /\ ours' = [ours EXCEPT ![f] = 1]
         /\ late' = cancelled
<1>. DEFINE e == Record("ok", FALSE, face, f, Digest[f])
<1>1. TypeOK /\ PhaseOK /\ ScanOK /\ LateOK /\ face \in Faces
  BY DEF IInv, ScanOK
<1>2. /\ e \in Entry /\ Primary(e) /\ e.file = f /\ e.base = "ok"
      /\ e.hash = Digest[f] /\ Registered(e)
  BY <1>1 DEF Record, Entry, Digests, Primary, Registered
<1>3. loaded' = Append(loaded, e)
  BY DEF RegisterFile, AppendRecord
<1>4. /\ ours' = [ours EXCEPT ![f] = @ + 1]
      /\ late' = (late \/ cancelled)
      /\ others' = others
      /\ Outcome("ok", scan.dupAt)
  BY DEF RegisterFile
<1>5. count' \in [loaded : Int, failed : Int, unmatched : Int]
  <2>1. count \in [loaded : Int, failed : Int, unmatched : Int]
    BY <1>1 DEF TypeOK
  <2>2. count' = [count EXCEPT !.loaded = @ + 1]
    BY DEF RegisterFile
  <2>. QED  BY <2>1, <2>2
<1>. HIDE DEF e
<1>6. /\ loaded' \in Seq(Entry)
      /\ Len(loaded') = Len(loaded) + 1
      /\ \A i \in DOMAIN loaded : loaded'[i] = loaded[i]
      /\ loaded'[Len(loaded) + 1] = e
      /\ RecordsOK'
  BY <1>2, <1>3, AppendFile
<1>7. /\ loaded \in Seq(Entry) /\ cursor = 1 /\ cursor' = 1
      /\ ours \in [Files -> Nat] /\ late \in BOOLEAN /\ cancelled \in BOOLEAN
  BY <1>1 DEF TypeOK, PhaseOK
<1>8. /\ scan' \in [total : Nat, ok : Nat, dup : Nat, dupAt : Nat \ {0}]
      /\ r' = "ok"
      /\ pc' \in {"check", "finish"}
      /\ ScanOK'
  BY <1>4, <1>6, <1>7, OutcomeScan
<1>9. \A i \in DOMAIN loaded : loaded[i].file # f
  BY DEF SameFile, IndicesOf
<1>10. RegisteredIffRecorded /\ NoContentTwice /\ RecordsOK
  BY DEF IInv
<1>11. ours[f] = 0
  BY <1>9, <1>10 DEF RegisteredIffRecorded
<1>12. ours' = [ours EXCEPT ![f] = 1] /\ ours' \in [Files -> Nat]
  BY <1>4, <1>7, <1>11
<1>13. late' = cancelled /\ late' \in BOOLEAN
  BY <1>1, <1>4, <1>7 DEF LateOK
<1>14. TypeOK'
  BY <1>1, <1>4, <1>5, <1>6, <1>7, <1>8, <1>12, <1>13 DEF TypeOK
<1>15. RegisteredIffRecorded'
  <2>. SUFFICES ASSUME NEW g \in Files
                PROVE  ours'[g] = IF \E i \in DOMAIN loaded' :
                                       /\ i >= 1 /\ Registered(loaded'[i])
                                       /\ loaded'[i].file = g
                                    THEN 1 ELSE 0
    BY <1>7 DEF RegisteredIffRecorded
  <2>1. CASE g = f
    BY <1>2, <1>6, <1>7, <1>12, <2>1
  <2>2. CASE g # f
    <3>1. ours'[g] = ours[g]
      BY <1>7, <1>12, <2>2
    <3>2. (\E i \in DOMAIN loaded : Registered(loaded[i]) /\ loaded[i].file = g)
          <=> (\E i \in DOMAIN loaded' :
                 Registered(loaded'[i]) /\ loaded'[i].file = g)
      <4>1. /\ DOMAIN loaded' = DOMAIN loaded \cup {Len(loaded) + 1}
            /\ Len(loaded) + 1 \notin DOMAIN loaded
        BY <1>6, <1>7
      <4>2. loaded'[Len(loaded) + 1].file # g
        BY <1>2, <1>6, <2>2
      <4>. QED  BY <1>6, <4>1, <4>2, Zenon
    <3>. QED  BY <1>6, <1>7, <1>10, <3>1, <3>2 DEF RegisteredIffRecorded
  <2>. QED  BY <2>1, <2>2
<1>16. NoContentTwice'
  <2>1. \A g \in Files : ours[g] > 0 => Digest[g] # Digest[f]
    <3>. SUFFICES ASSUME NEW g \in Files, ours[g] > 0
                  PROVE  Digest[g] # Digest[f]
      OBVIOUS
    <3>1. PICK i \in DOMAIN loaded : Registered(loaded[i]) /\ loaded[i].file = g
      BY <1>10 DEF RegisteredIffRecorded
    <3>2. loaded[i].base = "ok" /\ loaded[i].hash = Digest[g]
      BY <1>10, <3>1 DEF RecordsOK, Registered, Primary
    <3>. QED  BY <3>2 DEF SameHash, IndicesOf
  <2>. QED  BY <1>7, <1>10, <1>12, <2>1 DEF NoContentTwice
<1>17. PhaseOK' /\ LateOK'
  BY <1>1, <1>7, <1>8, <1>13 DEF PhaseOK, LateOK
<1>18. IInv'
  BY <1>6, <1>8, <1>14, <1>15, <1>16, <1>17 DEF IInv
<1>. QED  BY <1>11, <1>12, <1>13, <1>18

\* One pass through fl_load_file, whatever it returns.
LEMMA LoadFileIInv ==
  ASSUME IInv, LoadFile
  PROVE  /\ IInv'
         /\ \/ UNCHANGED <<ours, late>>
            \/ \E f \in Files : /\ ours[f] = 0
                                /\ ours' = [ours EXCEPT ![f] = 1]
                                /\ late' = cancelled
<1>. USE ConstantsAssumption
<1>. DEFINE f == index[face][scan.total + 1]
<1>1. TypeOK /\ PhaseOK /\ ScanOK /\ LateOK /\ pc = "load"
  BY DEF IInv, LoadFile
<1>2. f \in Files
  <2>1. face \in Faces /\ scan.total < Len(index[face]) /\ scan.total \in Nat
    BY <1>1 DEF ScanOK, TypeOK
  <2>2. index[face] \in Seq(Files)
    BY <1>1, <2>1 DEF TypeOK
  <2>. QED  BY <2>1, <2>2
<1>3. cap' \in Nat
  BY <1>1, PreallocNat DEF LoadFile
<1>4. UNCHANGED <<index, face, result, cursor, cancelled>>
  BY DEF LoadFile
<1>5. \/ /\ Outcome("oom", scan.dupAt) /\ NotRecorded
         /\ walkCap' = walkCap \/ walkCap' \in PushPath(f)
      \/ /\ \E at \in DOMAIN loaded : Outcome("dup", at)
         /\ NotRecorded
         /\ walkCap' = walkCap \/ walkCap' \in PushPath(f)
      \/ /\ HasRoom(cap') /\ SameFile(f) = {}
         /\ walkCap' \in PushPath(f) /\ PathLen[f] <= walkCap'
         /\ \E h \in {NoHash, Digest[f]} : FailFile(f, h)
      \/ /\ HasRoom(cap') /\ SameFile(f) = {} /\ SameHash(Digest[f]) = {}
         /\ walkCap' \in PushPath(f) /\ PathLen[f] <= walkCap'
         /\ RegisterFile(f)
  BY DEF LoadFile, LoadContent
<1>6. walkCap \in Nat /\ PathLen[f] \in Nat /\ Digest[f] \in Digests
  BY <1>1, <1>2 DEF TypeOK, Digests
<1>7. ASSUME walkCap' = walkCap \/ walkCap' \in PushPath(f)
      PROVE  walkCap' \in Nat /\ walkCap' >= walkCap
  BY <1>6, <1>7 DEF PushPath
<1>. HIDE DEF f
<1>8. ASSUME NEW outcome \in {"oom", "dup"}, NEW at, Outcome(outcome, at),
             at \in DOMAIN loaded \/ (outcome # "dup" /\ at = scan.dupAt),
             NotRecorded, walkCap' = walkCap \/ walkCap' \in PushPath(f)
      PROVE  IInv' /\ UNCHANGED <<ours, late>>
  <2>1. UNCHANGED <<loaded, count, ours, others, late>>
    BY <1>8 DEF NotRecorded, osVars
  <2>2. loaded' \in Seq(Entry) /\ Len(loaded') >= Len(loaded)
    BY <1>1, <2>1 DEF TypeOK
  <2>3. /\ scan' \in [total : Nat, ok : Nat, dup : Nat, dupAt : Nat \ {0}]
        /\ r' = outcome
        /\ pc' \in {"check", "finish"}
        /\ ScanOK'
    BY <1>1, <1>4, <1>8, <2>2, OutcomeScan
  <2>4. walkCap' \in Nat /\ walkCap' >= walkCap
    BY <1>7, <1>8
  <2>5. TypeOK'
    BY <1>1, <1>3, <1>4, <2>1, <2>3, <2>4 DEF TypeOK
  <2>6. RecordsOK'
    <3>1. RecordsOK /\ \A g \in Files : PathLen[g] \in Nat
      BY DEF IInv
    <3>. QED  BY <1>6, <2>1, <2>4, <3>1 DEF RecordsOK
  <2>7. RegisteredIffRecorded' /\ NoContentTwice'
    BY <1>4, <2>1 DEF IInv, RegisteredIffRecorded, NoContentTwice
  <2>8. PhaseOK' /\ LateOK'
    BY <1>1, <1>4, <2>1, <2>3 DEF PhaseOK, LateOK
  <2>. QED  BY <2>1, <2>3, <2>5, <2>6, <2>7, <2>8 DEF IInv
<1>9. CASE \E h \in {NoHash, Digest[f]} :
             /\ HasRoom(cap') /\ SameFile(f) = {}
             /\ walkCap' \in PushPath(f) /\ PathLen[f] <= walkCap'
             /\ FailFile(f, h)
  <2>1. IInv'
    BY <1>1, <1>2, <1>3, <1>4, <1>6, <1>7, <1>9, FailFileIInv
  <2>2. UNCHANGED <<ours, late>>
    BY <1>9 DEF FailFile, osVars
  <2>. QED  BY <2>1, <2>2
<1>10. CASE /\ HasRoom(cap') /\ SameFile(f) = {} /\ SameHash(Digest[f]) = {}
            /\ walkCap' \in PushPath(f) /\ PathLen[f] <= walkCap'
            /\ RegisterFile(f)
  BY <1>1, <1>2, <1>3, <1>4, <1>7, <1>10, RegisterFileIInv
<1>. QED  BY <1>5, <1>8, <1>9, <1>10

(***************************************************************************)
(* The end of a face and of the load.                                      *)
(***************************************************************************)
LEMMA FinishFaceIInv == IInv /\ FinishFace => IInv'
<1>. SUFFICES ASSUME IInv, FinishFace PROVE IInv'
  OBVIOUS
<1>. USE ConstantsAssumption
<1>1. TypeOK /\ PhaseOK /\ ScanOK /\ LateOK /\ pc = "finish" /\ face \in Faces
  BY DEF IInv, FinishFace, ScanOK
<1>2. /\ pc' \in {"sort", "match"} /\ face' = face + 1 /\ scan' = NoScan
      /\ UNCHANGED <<index, r, result, walkCap, count, cursor, cancelled,
                     ours, others, late>>
  BY DEF FinishFace, osVars
<1>3. cap' \in Nat
  BY <1>1, PreallocNat DEF FinishFace, TypeOK
<1>4. \E e \in Entry : /\ ~Primary(e) /\ (e.dup \/ e.file = NoFile)
                       /\ loaded' = Append(loaded, e) \/ loaded' = loaded
  <2>1. CASE scan.dup = scan.total
    <3>1. scan.dupAt \in DOMAIN loaded
      BY <1>1, <2>1 DEF ScanOK, TypeOK
    <3>. DEFINE ref == loaded[scan.dupAt]
    <3>2. ref \in Entry
      BY <1>1, <3>1 DEF TypeOK
    <3>3. StackHash \subseteq Digests \cup {NoHash}
      <4>1. \A i \in DOMAIN loaded : loaded[i].hash \in Digests \cup {NoHash}
        <5>1. \A i \in DOMAIN loaded : loaded[i] \in Entry
          BY <1>1 DEF TypeOK
        <5>. QED  BY <5>1 DEF Entry
      <4>. QED  BY <4>1 DEF StackHash, IndicesOf
    <3>4. PICK h \in StackHash : AppendRecord(Record(ref.base, TRUE, face, ref.file, h))
      BY <2>1 DEF FinishFace
    <3>. DEFINE e == Record(ref.base, TRUE, face, ref.file, h)
    <3>5. e \in Entry /\ ~Primary(e) /\ e.dup
      BY <1>1, <3>2, <3>3 DEF Record, Entry, Primary
    <3>6. loaded' = Append(loaded, e) \/ loaded' = loaded
      BY <3>4 DEF AppendRecord
    <3>. QED  BY <3>5, <3>6
  <2>2. CASE scan.dup # scan.total
    <3>1. loaded' = loaded
      BY <2>2 DEF FinishFace
    <3>2. Record("miss", FALSE, face, NoFile, NoHash) \in Entry
      BY <1>1 DEF Record, Entry
    <3>3. /\ ~Primary(Record("miss", FALSE, face, NoFile, NoHash))
          /\ Record("miss", FALSE, face, NoFile, NoHash).file = NoFile
      BY DEF Record, Primary
    <3>. QED  BY <3>1, <3>2, <3>3
  <2>. QED  BY <2>1, <2>2
<1>5. /\ loaded' \in Seq(Entry)
      /\ RecordsOK' /\ RegisteredIffRecorded' /\ NoContentTwice'
  <2>1. PICK e \in Entry : /\ ~Primary(e) /\ (e.dup \/ e.file = NoFile)
                           /\ loaded' = Append(loaded, e) \/ loaded' = loaded
    BY <1>4
  <2>2. pc # "unload" /\ walkCap' = walkCap /\ cursor' = cursor /\ ours' = ours
    BY <1>1, <1>2
  <2>. QED  BY <2>1, <2>2, AppendOther
<1>6. scan' \in [total : Nat, ok : Nat, dup : Nat, dupAt : Nat \ {0}]
  BY <1>2 DEF NoScan
<1>7. face' \in 1 .. NumFaces + 1
  BY <1>1, <1>2 DEF Faces
<1>8. TypeOK'
  BY <1>1, <1>2, <1>3, <1>5, <1>6, <1>7 DEF TypeOK
<1>9. PhaseOK' /\ ScanOK' /\ LateOK'
  BY <1>1, <1>2 DEF PhaseOK, ScanOK, LateOK
<1>. QED  BY <1>5, <1>8, <1>9 DEF IInv

LEMMA EndMatchIInv == IInv /\ EndMatch => IInv'
<1>. SUFFICES ASSUME IInv, EndMatch PROVE IInv'
  OBVIOUS
<1>. USE DEF EndMatch, IInv, osVars, loadVars
<1>1. TypeOK'
  BY DEF TypeOK
<1>2. PhaseOK' /\ ScanOK' /\ LateOK'
  BY DEF PhaseOK, ScanOK, LateOK
<1>3. RecordsOK' /\ RegisteredIffRecorded' /\ NoContentTwice'
  BY RecordsFrame
<1>. QED  BY <1>1, <1>2, <1>3

\* Sorting rearranges the records: each one keeps standing for its file.
LEMMA SortRecordsIInv == IInv /\ SortRecords => IInv'
<1>. SUFFICES ASSUME IInv, SortRecords PROVE IInv'
  OBVIOUS
<1>1. TypeOK /\ PhaseOK /\ ScanOK /\ LateOK /\ pc = "sort" /\ cursor = 1
  BY DEF IInv, SortRecords, PhaseOK
<1>2. /\ pc' = "done" /\ result' = "ok"
      /\ UNCHANGED <<index, face, scan, r, cap, walkCap, count, cursor,
                     cancelled, ours, others, late>>
  BY DEF SortRecords, osVars
<1>3. PICK p \in Bijection(DOMAIN loaded, DOMAIN loaded) :
        loaded' = [i \in DOMAIN loaded |-> loaded[p[i]]]
  BY DEF SortRecords
<1>4. /\ p \in [DOMAIN loaded -> DOMAIN loaded]
      /\ \A i, j \in DOMAIN loaded : p[i] = p[j] => i = j
      /\ \A k \in DOMAIN loaded : \E i \in DOMAIN loaded : p[i] = k
  BY <1>3 DEF Bijection, Injection, Surjection, IsInjective
<1>5. loaded \in Seq(Entry)
  BY <1>1 DEF TypeOK
<1>6. loaded' \in Seq(Entry) /\ DOMAIN loaded' = DOMAIN loaded
  <2>1. Len(loaded) \in Nat /\ DOMAIN loaded = 1 .. Len(loaded)
    BY <1>5
  <2>2. \A i \in DOMAIN loaded : loaded[p[i]] \in Entry
    BY <1>4, <1>5
  <2>3. loaded' \in [1 .. Len(loaded) -> Entry]
    BY <1>3, <2>1, <2>2
  <2>. QED  BY <2>1, <2>3, IsASeq
<1>7. TypeOK'
  BY <1>1, <1>2, <1>6 DEF TypeOK
<1>8. RecordsOK'
  <2>1. \A i \in DOMAIN loaded : loaded'[i] = loaded[p[i]] /\ p[i] \in DOMAIN loaded
    BY <1>3, <1>4
  <2>2. RecordsOK /\ walkCap' = walkCap /\ DOMAIN loaded' = DOMAIN loaded
    BY <1>2, <1>6 DEF IInv
  <2>. QED  BY <1>4, <2>1, <2>2 DEF RecordsOK
<1>9. \A f \in Files :
        (\E i \in DOMAIN loaded : Registered(loaded[i]) /\ loaded[i].file = f)
        <=> (\E i \in DOMAIN loaded' :
               Registered(loaded'[i]) /\ loaded'[i].file = f)
  <2>1. \A i \in DOMAIN loaded : loaded'[i] = loaded[p[i]] /\ p[i] \in DOMAIN loaded
    BY <1>3, <1>4
  <2>2. \A k \in DOMAIN loaded : \E i \in DOMAIN loaded : loaded'[i] = loaded[k]
    BY <1>4, <2>1
  <2>. SUFFICES ASSUME NEW f \in Files
                PROVE  (\E i \in DOMAIN loaded :
                          Registered(loaded[i]) /\ loaded[i].file = f)
                       <=> (\E i \in DOMAIN loaded :
                              Registered(loaded'[i]) /\ loaded'[i].file = f)
    BY <1>6
  <2>3. ASSUME NEW k \in DOMAIN loaded, Registered(loaded[k]), loaded[k].file = f
        PROVE  \E i \in DOMAIN loaded : Registered(loaded'[i]) /\ loaded'[i].file = f
    <3>1. PICK i \in DOMAIN loaded : loaded'[i] = loaded[k]
      BY <2>2
    <3>. QED  BY <2>3, <3>1
  <2>4. ASSUME NEW i \in DOMAIN loaded, Registered(loaded'[i]), loaded'[i].file = f
        PROVE  \E k \in DOMAIN loaded : Registered(loaded[k]) /\ loaded[k].file = f
    BY <2>1, <2>4
  <2>. QED  BY <2>3, <2>4
<1>10. \A i \in DOMAIN loaded : i >= 1
  BY <1>5
<1>11. RegisteredIffRecorded' /\ NoContentTwice'
  BY <1>1, <1>2, <1>6, <1>9, <1>10
  DEF IInv, RegisteredIffRecorded, NoContentTwice
<1>12. PhaseOK' /\ ScanOK' /\ LateOK'
  BY <1>1, <1>2 DEF PhaseOK, ScanOK, LateOK
<1>. QED  BY <1>7, <1>8, <1>11, <1>12 DEF IInv

(***************************************************************************)
(* fl_unload_fonts.                                                        *)
(***************************************************************************)
LEMMA BeginUnloadIInv == IInv /\ BeginUnload => IInv'
<1>. SUFFICES ASSUME IInv, BeginUnload PROVE IInv'
  OBVIOUS
<1>. USE DEF BeginUnload, osVars, loadVars
<1>1. TypeOK /\ pc = "done" /\ cursor = 1 /\ cursor' = 1
  BY DEF IInv, PhaseOK
<1>2. TypeOK'
  BY <1>1 DEF TypeOK
<1>3. PhaseOK' /\ ScanOK' /\ LateOK'
  BY DEF IInv, PhaseOK, ScanOK, LateOK
<1>4. RecordsOK' /\ RegisteredIffRecorded' /\ NoContentTwice'
  BY <1>1, RecordsFrame
<1>. QED  BY <1>2, <1>3, <1>4 DEF IInv

\* One call of fl_unload_cb: the record of a registration gives exactly that
\* registration back, any other record none of ours.
LEMMA UnloadRecordIInv ==
  ASSUME IInv, UnloadRecord
  PROVE  /\ IInv'
         /\ UNCHANGED late
         /\ \/ UNCHANGED ours
            \/ \E f \in Files : ours[f] = 1 /\ ours' = [ours EXCEPT ![f] = 0]
<1>. USE ConstantsAssumption
<1>1. TypeOK /\ PhaseOK /\ ScanOK /\ LateOK /\ pc = "unload"
  BY DEF IInv, UnloadRecord
<1>2. /\ RecordsOK /\ RegisteredIffRecorded /\ NoContentTwice
  BY DEF IInv
<1>. DEFINE e == loaded[cursor]
<1>3. /\ loaded \in Seq(Entry) /\ cursor \in Nat \ {0} /\ cursor \in DOMAIN loaded
      /\ ours \in [Files -> Nat] /\ walkCap \in Nat
      /\ count \in [loaded : Int, failed : Int, unmatched : Int]
  BY <1>1 DEF TypeOK, UnloadRecord
<1>4. e \in Entry
  BY <1>3
<1>5. /\ pc' = "unload" /\ cursor' = cursor + 1 /\ loaded' = loaded
      /\ UNCHANGED <<index, face, scan, r, result, cap, cancelled, late>>
      /\ \/ count' = count
         \/ count' = [count EXCEPT !.loaded = @ - 1]
  BY <1>1 DEF UnloadRecord
<1>6. Primary(e) =>
        /\ e.file \in Files /\ e.file # NoFile /\ ~e.dup
        /\ PathLen[e.file] <= walkCap
  BY <1>2, <1>3 DEF RecordsOK, Primary
<1>7. walkCap' \in Nat /\ walkCap' >= walkCap
  <2>1. CASE e.file = NoFile
    BY <1>3, <2>1 DEF UnloadRecord
  <2>2. CASE e.file # NoFile
    <3>1. walkCap' \in PushPath(e.file) /\ e.file \in Files
      BY <1>4, <2>2 DEF UnloadRecord, Entry
    <3>. QED  BY <1>3, <3>1 DEF PushPath
  <2>. QED  BY <2>1, <2>2
<1>8. IF Primary(e) THEN Unregister(e.file) ELSE UNCHANGED <<ours, others>>
  <2>1. CASE e.file = NoFile
    BY <1>6, <2>1 DEF UnloadRecord
  <2>2. CASE e.file # NoFile
    <3>1. walkCap' \in PushPath(e.file) /\ e.file \in Files
      BY <1>4, <2>2 DEF UnloadRecord, Entry
    <3>2. IF ~e.dup /\ PathLen[e.file] <= walkCap'
            THEN Unregister(e.file) ELSE UNCHANGED <<ours, others>>
      BY <2>2 DEF UnloadRecord
    <3>3. PathLen[e.file] \in Nat
      BY <3>1
    <3>4. Primary(e) => ~e.dup /\ PathLen[e.file] <= walkCap'
      BY <1>3, <1>6, <1>7, <3>3
    <3>5. ~Primary(e) => e.dup
      BY <1>2, <1>3, <2>2 DEF RecordsOK
    <3>. QED  BY <3>2, <3>4, <3>5
  <2>. QED  BY <2>1, <2>2
<1>9. /\ Registered(e) => ours[e.file] = 1
      /\ Primary(e) /\ ~Registered(e) => ours[e.file] = 0
  <2>1. Registered(e) => Primary(e)
    BY DEF Registered, Primary
  <2>2. Registered(e) => ours[e.file] = 1
    BY <1>2, <1>3, <1>6, <2>1 DEF RegisteredIffRecorded
  <2>3. ASSUME Primary(e), ~Registered(e) PROVE ours[e.file] = 0
    <3>1. \A i \in DOMAIN loaded :
            Registered(loaded[i]) /\ loaded[i].file = e.file => i = cursor
      BY <1>2, <1>3, <2>3 DEF RecordsOK, Registered, Primary
    <3>. QED  BY <1>2, <1>3, <1>6, <2>3, <3>1 DEF RegisteredIffRecorded
  <2>. QED  BY <2>2, <2>3
<1>10. /\ Registered(e) => ours' = [ours EXCEPT ![e.file] = 0] /\ others' = others
       /\ ~Registered(e) => ours' = ours
       /\ others' \in SUBSET Files
  <2>1. Registered(e) => Primary(e)
    BY DEF Registered, Primary
  <2>2. others \in SUBSET Files
    BY <1>1 DEF TypeOK
  <2>. QED  BY <1>3, <1>6, <1>8, <1>9, <2>1, <2>2 DEF Unregister
<1>11. Registered(e) => e.file \in Files
  BY <1>6 DEF Registered, Primary
<1>12. ours' \in [Files -> Nat]
  BY <1>3, <1>10
<1>13. count' \in [loaded : Int, failed : Int, unmatched : Int]
  BY <1>3, <1>5
<1>14. TypeOK'
  <2>1. /\ pc' = "unload" /\ cursor' = cursor + 1 /\ loaded' = loaded
        /\ UNCHANGED <<index, face, scan, r, result, cap, cancelled, late>>
        /\ others' \in SUBSET Files
    BY <1>5, <1>10
  <2>2. cursor' \in Nat \ {0}
    BY <1>3, <2>1
  <2>. QED  BY <1>1, <1>7, <1>12, <1>13, <2>1, <2>2 DEF TypeOK
<1>15. RecordsOK'
  <2>1. \A g \in Files : PathLen[g] \in Nat
    OBVIOUS
  <2>. QED  BY <1>2, <1>3, <1>5, <1>7, <2>1 DEF RecordsOK
<1>16. RegisteredIffRecorded'
  <2>. SUFFICES ASSUME NEW g \in Files
                PROVE  ours'[g] = IF \E i \in DOMAIN loaded :
                                       /\ i >= cursor + 1 /\ Registered(loaded[i])
                                       /\ loaded[i].file = g
                                    THEN 1 ELSE 0
    BY <1>5 DEF RegisteredIffRecorded
  <2>1. ours[g] = IF \E i \in DOMAIN loaded :
                       /\ i >= cursor /\ Registered(loaded[i])
                       /\ loaded[i].file = g
                    THEN 1 ELSE 0
    BY <1>2 DEF RegisteredIffRecorded
  <2>2. \A i \in DOMAIN loaded : i >= cursor <=> (i = cursor \/ i >= cursor + 1)
    BY <1>3
  <2>3. CASE Registered(e) /\ e.file = g
    <3>1. \A i \in DOMAIN loaded :
            Registered(loaded[i]) /\ loaded[i].file = g => i = cursor
      BY <1>2, <1>3, <2>3 DEF RecordsOK, Registered, Primary
    <3>2. ours'[g] = 0
      BY <1>3, <1>10, <2>3
    <3>3. ~(cursor >= cursor + 1)
      BY <1>3
    <3>4. ~\E i \in DOMAIN loaded :
             i >= cursor + 1 /\ Registered(loaded[i]) /\ loaded[i].file = g
      BY <3>1, <3>3
    <3>. QED  BY <3>2, <3>4
  <2>4. CASE ~(Registered(e) /\ e.file = g)
    <3>1. ours'[g] = ours[g]
      BY <1>3, <1>10, <1>11, <2>4
    <3>2. \A i \in DOMAIN loaded :
            i >= cursor /\ Registered(loaded[i]) /\ loaded[i].file = g
            <=> i >= cursor + 1 /\ Registered(loaded[i]) /\ loaded[i].file = g
      <4>. SUFFICES ASSUME NEW i \in DOMAIN loaded, i = cursor
                    PROVE  ~(Registered(loaded[i]) /\ loaded[i].file = g)
        BY <2>2
      <4>. QED  BY <2>4
    <3>. QED  BY <2>1, <3>1, <3>2, Zenon
  <2>. QED  BY <2>3, <2>4
<1>17. NoContentTwice'
  <2>1. ASSUME NEW g \in Files PROVE ours'[g] > 0 => ours[g] > 0
    <3>1. CASE Registered(e)
      <4>1. ours' = [ours EXCEPT ![e.file] = 0] /\ e.file \in Files
        BY <1>10, <1>11, <3>1
      <4>. QED  BY <1>3, <4>1
    <3>2. CASE ~Registered(e)
      BY <1>10, <3>2
    <3>. QED  BY <3>1, <3>2
  <2>. QED  BY <1>2, <2>1 DEF NoContentTwice
<1>18. PhaseOK' /\ ScanOK' /\ LateOK'
  BY <1>1, <1>5 DEF PhaseOK, ScanOK, LateOK
<1>19. IInv'
  BY <1>14, <1>15, <1>16, <1>17, <1>18 DEF IInv
<1>. QED  BY <1>5, <1>9, <1>10, <1>11, <1>19

\* When the walk is over, or could not start, nothing of ours is registered.
LEMMA EndUnloadIInv ==
  ASSUME IInv, EndUnload
  PROVE  IInv' /\ UNCHANGED <<ours, late>> /\ \A f \in Files : ours[f] = 0
<1>. USE ConstantsAssumption
<1>1. TypeOK /\ ScanOK /\ LateOK /\ RecordsOK
      /\ RegisteredIffRecorded /\ NoContentTwice
  BY DEF IInv
<1>2. /\ pc' = "idle" /\ loaded' = << >> /\ count' = NoCount /\ cursor' = 1
      /\ UNCHANGED <<index, face, scan, r, result, cap, walkCap, cancelled,
                     ours, others, late>>
      /\ cursor > Len(loaded) \/ (cursor = 1 /\ walkCap = 0)
  BY DEF EndUnload, osVars
<1>3. loaded \in Seq(Entry) /\ cursor \in Nat \ {0}
  BY <1>1 DEF TypeOK
<1>4. \A i \in DOMAIN loaded : ~(i >= cursor /\ Registered(loaded[i]))
  <2>1. CASE cursor > Len(loaded)
    BY <1>3, <2>1
  <2>2. CASE walkCap = 0
    <3>1. \A f \in Files : PathLen[f] \in Nat \ {0}
      OBVIOUS
    <3>2. \A i \in DOMAIN loaded : ~Primary(loaded[i])
      BY <1>1, <2>2, <3>1 DEF RecordsOK
    <3>. QED  BY <3>2 DEF Registered, Primary
  <2>. QED  BY <1>2, <2>1, <2>2
<1>5. \A f \in Files : ours[f] = 0
  BY <1>1, <1>4 DEF RegisteredIffRecorded
<1>6. TypeOK'
  <2>1. loaded' \in Seq(Entry)
    BY <1>2
  <2>2. count' \in [loaded : Int, failed : Int, unmatched : Int]
    BY <1>2 DEF NoCount
  <2>3. cursor' \in Nat \ {0}
    BY <1>2
  <2>. QED  BY <1>1, <1>2, <2>1, <2>2, <2>3 DEF TypeOK
<1>7. RecordsOK' /\ PhaseOK' /\ ScanOK' /\ LateOK'
  BY <1>1, <1>2 DEF RecordsOK, PhaseOK, ScanOK, LateOK
<1>8. RegisteredIffRecorded' /\ NoContentTwice'
  BY <1>1, <1>2, <1>5 DEF RegisteredIffRecorded, NoContentTwice
<1>. QED  BY <1>2, <1>5, <1>6, <1>7, <1>8 DEF IInv

(***************************************************************************)
(* The other thread and the other programs.                                *)
(***************************************************************************)
LEMMA CancelIInv == IInv /\ Cancel => IInv'
<1>. SUFFICES ASSUME IInv, Cancel PROVE IInv'
  OBVIOUS
<1>. USE DEF Cancel, IInv, osVars, loadVars
<1>1. TypeOK'
  BY DEF TypeOK
<1>2. PhaseOK' /\ ScanOK' /\ LateOK'
  BY DEF PhaseOK, ScanOK, LateOK
<1>3. RecordsOK' /\ RegisteredIffRecorded' /\ NoContentTwice'
  BY RecordsFrame
<1>. QED  BY <1>1, <1>2, <1>3

LEMMA OthersIInv ==
  ASSUME IInv, NEW f \in Shared, OtherRegisters(f) \/ OtherUnregisters(f)
  PROVE  IInv' /\ UNCHANGED <<pc, ours, cancelled, late>>
<1>. USE ConstantsAssumption
<1>1. UNCHANGED <<pc, index, face, scan, r, result, loaded, cap, walkCap, count,
                  cursor, cancelled, ours, late>>
  BY DEF OtherRegisters, OtherUnregisters, loadVars
<1>2. others' \in SUBSET Files
  BY DEF OtherRegisters, OtherUnregisters, IInv, TypeOK
<1>3. TypeOK'
  BY <1>1, <1>2 DEF IInv, TypeOK
<1>4. PhaseOK' /\ ScanOK' /\ LateOK'
  BY <1>1 DEF IInv, PhaseOK, ScanOK, LateOK
<1>5. RecordsOK' /\ RegisteredIffRecorded' /\ NoContentTwice'
  BY <1>1, RecordsFrame
<1>. QED  BY <1>1, <1>3, <1>4, <1>5 DEF IInv

LEMMA StutterIInv == IInv /\ UNCHANGED vars => IInv'
<1>. SUFFICES ASSUME IInv, UNCHANGED vars PROVE IInv'
  OBVIOUS
<1>. USE DEF IInv, vars, osVars, loadVars
<1>1. TypeOK'
  BY DEF TypeOK
<1>2. PhaseOK' /\ ScanOK' /\ LateOK'
  BY DEF PhaseOK, ScanOK, LateOK
<1>3. RecordsOK' /\ RegisteredIffRecorded' /\ NoContentTwice'
  BY RecordsFrame
<1>. QED  BY <1>1, <1>2, <1>3

LEMMA NextIInv == IInv /\ [Next]_vars => IInv'
<1>. SUFFICES ASSUME IInv, [Next]_vars PROVE IInv'
  OBVIOUS
<1>1. CASE BeginLoad
  BY <1>1, BeginLoadIInv
<1>2. CASE Load
  <2>1. CASE \E installed \in BOOLEAN : ProbeFace(installed)
    BY <2>1, ProbeFaceIInv
  <2>2. CASE LoadFile
    BY <2>2, LoadFileIInv
  <2>3. CASE ProbeCancelled \/ EndProbe \/ SkipFace \/ MatchFace
    BY <2>3, ProbeCancelledIInv, EndProbeIInv, SkipFaceIInv, MatchFaceIInv
  <2>4. CASE CheckCancel \/ FinishFace \/ EndMatch \/ SortRecords
    BY <2>4, CheckCancelIInv, FinishFaceIInv, EndMatchIInv, SortRecordsIInv
  <2>. QED  BY <1>2, <2>1, <2>2, <2>3, <2>4 DEF Load
<1>3. CASE BeginUnload
  BY <1>3, BeginUnloadIInv
<1>4. CASE Unload
  BY <1>4, UnloadRecordIInv, EndUnloadIInv DEF Unload
<1>5. CASE Environment
  BY <1>5, CancelIInv, OthersIInv DEF Environment
<1>6. CASE UNCHANGED vars
  BY <1>6, StutterIInv
<1>. QED  BY <1>1, <1>2, <1>3, <1>4, <1>5, <1>6 DEF Next

(***************************************************************************)
(* Theorems                                                                *)
(***************************************************************************)
\* The inductive invariant holds in every reachable state.
THEOREM Invariance == Spec => []IInv
BY InitIInv, NextIInv, PTL DEF Spec

\* fl_load_fonts and fl_unload_fonts keep the types of all they write.
THEOREM TypeCorrect == Spec => []TypeOK
<1>1. IInv => TypeOK
  BY DEF IInv
<1>. QED  BY <1>1, Invariance, PTL

\* A file is registered exactly while a record still to be unloaded says so.
THEOREM RegistrationsRecorded == Spec => []RegisteredIffRecorded
<1>1. IInv => RegisteredIffRecorded
  BY DEF IInv
<1>. QED  BY <1>1, Invariance, PTL

\* Two files of the same content are never registered together.
THEOREM ContentOnce == Spec => []NoContentTwice
<1>1. IInv => NoContentTwice
  BY DEF IInv
<1>. QED  BY <1>1, Invariance, PTL

(***************************************************************************)
(* Refinement.  Every step of the code is a step of the lease or leaves it *)
(* unchanged; the theorem also gives StopsSoon.                            *)
(***************************************************************************)
LEMMA HeldFrame == UNCHANGED ours => UNCHANGED Held
BY DEF Held

\* A step that neither changes the phase nor a registration nor the stop flag.
LEMMA StutterLease ==
  ASSUME Phase' = Phase, UNCHANGED <<ours, cancelled, late>>
  PROVE  UNCHANGED Lease!lvars
BY HeldFrame DEF Lease!lvars, Phase, Held

LEMMA InitLease == Init => Lease!LInit
<1>. SUFFICES ASSUME Init PROVE Lease!LInit
  OBVIOUS
<1>1. Held = {} /\ Phase = "idle"
  BY DEF Init, Held, Phase
<1>. QED  BY <1>1 DEF Init, Lease!LInit

LEMMA BeginLoadLease == BeginLoad => Lease!Begin
BY HeldFrame DEF BeginLoad, Lease!Begin, Phase, osVars

LEMMA CancelLease == Cancel => Lease!RequestStop
BY HeldFrame DEF Cancel, Lease!RequestStop, Phase, osVars

\* Passing over a face, or a cancelled or sorted end of the load.
LEMMA LoadLease ==
  ASSUME IInv, Load, ~LoadFile
  PROVE  [Lease!LNext]_(Lease!lvars)
<1>1. /\ pc \in {"probe", "match", "check", "load", "finish", "sort"}
      /\ pc' \in {"probe", "match", "check", "load", "finish", "sort", "done"}
      /\ UNCHANGED <<ours, cancelled, late>>
  <2>1. CASE ProbeCancelled \/ EndProbe \/ SkipFace \/ CheckCancel \/ EndMatch
    BY <2>1 DEF ProbeCancelled, EndProbe, SkipFace, CheckCancel, EndMatch, osVars
  <2>2. CASE \E installed \in BOOLEAN : ProbeFace(installed)
    BY <2>2 DEF ProbeFace, osVars
  <2>3. CASE MatchFace \/ FinishFace \/ SortRecords
    BY <2>3 DEF MatchFace, FinishFace, SortRecords, osVars
  <2>. QED  BY <2>1, <2>2, <2>3 DEF Load
<1>2. CASE pc' = "done"
  <2>1. Lease!Finish
    BY <1>1, <1>2, HeldFrame DEF Lease!Finish, Phase
  <2>. QED  BY <2>1 DEF Lease!LNext
<1>3. CASE pc' # "done"
  <2>1. Phase' = Phase
    BY <1>1, <1>3 DEF Phase
  <2>. QED  BY <1>1, <2>1, StutterLease
<1>. QED  BY <1>2, <1>3

LEMMA LoadFileLease ==
  ASSUME IInv, LoadFile
  PROVE  [Lease!LNext]_(Lease!lvars)
<1>1. /\ pc = "load" /\ pc' \in {"check", "finish"} /\ UNCHANGED cancelled
  BY DEF LoadFile, LoadContent, RegisterFile, FailFile, Outcome
<1>2. Phase = "loading" /\ Phase' = "loading"
  BY <1>1 DEF Phase
<1>3. ~late /\ ours \in [Files -> Nat]
  BY <1>1 DEF IInv, LateOK, TypeOK
<1>4. CASE UNCHANGED <<ours, late>>
  BY <1>1, <1>2, <1>4, StutterLease
<1>5. ASSUME NEW f \in Files, ours[f] = 0, ours' = [ours EXCEPT ![f] = 1],
             late' = cancelled
      PROVE  Lease!LNext
  <2>1. Held' = Held \cup {f} /\ f \notin Held
    BY <1>3, <1>5 DEF Held
  <2>2. Lease!Acquire(f)
    BY <1>1, <1>2, <1>3, <1>5, <2>1 DEF Lease!Acquire
  <2>. QED  BY <2>2 DEF Lease!LNext
<1>. QED  BY <1>4, <1>5, LoadFileIInv

LEMMA UnloadLease ==
  ASSUME IInv, BeginUnload \/ Unload
  PROVE  [Lease!LNext]_(Lease!lvars)
<1>1. ours \in [Files -> Nat]
  BY DEF IInv, TypeOK
<1>2. CASE BeginUnload
  <2>1. Lease!BeginRelease
    BY <1>2, HeldFrame DEF BeginUnload, Lease!BeginRelease, Phase, osVars
  <2>. QED  BY <2>1 DEF Lease!LNext
<1>3. CASE UnloadRecord
  <2>1. /\ pc = "unload" /\ pc' = "unload" /\ UNCHANGED cancelled
        /\ Phase = "releasing" /\ Phase' = "releasing"
    BY <1>3 DEF UnloadRecord, Phase
  <2>2. CASE UNCHANGED <<ours, late>>
    BY <2>1, <2>2, StutterLease
  <2>3. ASSUME NEW f \in Files, ours[f] = 1, ours' = [ours EXCEPT ![f] = 0],
               UNCHANGED late
        PROVE  Lease!LNext
    <3>1. Held' = Held \ {f} /\ f \in Held
      BY <1>1, <2>3 DEF Held
    <3>2. Lease!Release(f)
      BY <2>1, <2>3, <3>1 DEF Lease!Release
    <3>. QED  BY <3>2 DEF Lease!LNext
  <2>. QED  BY <1>3, <2>2, <2>3, UnloadRecordIInv
<1>4. CASE EndUnload
  <2>1. Held = {} /\ UNCHANGED <<ours, late>>
    BY <1>4, EndUnloadIInv DEF Held
  <2>2. Phase = "releasing" /\ Phase' = "idle" /\ UNCHANGED cancelled
    BY <1>4 DEF EndUnload, Phase
  <2>3. Lease!End
    BY <2>1, <2>2, HeldFrame DEF Lease!End
  <2>. QED  BY <2>3 DEF Lease!LNext
<1>. QED  BY <1>2, <1>3, <1>4 DEF Unload

LEMMA NextLease == IInv /\ [Next]_vars => [Lease!LNext]_(Lease!lvars)
<1>. SUFFICES ASSUME IInv, [Next]_vars PROVE [Lease!LNext]_(Lease!lvars)
  OBVIOUS
<1>1. CASE BeginLoad
  BY <1>1, BeginLoadLease DEF Lease!LNext
<1>2. CASE Load
  BY <1>2, LoadLease, LoadFileLease
<1>3. CASE BeginUnload \/ Unload
  BY <1>3, UnloadLease
<1>4. CASE Cancel
  BY <1>4, CancelLease DEF Lease!LNext
<1>5. CASE \E f \in Shared : OtherRegisters(f) \/ OtherUnregisters(f)
  <2>1. UNCHANGED <<pc, ours, cancelled, late>>
    BY <1>5, OthersIInv
  <2>2. Phase' = Phase
    BY <2>1 DEF Phase
  <2>. QED  BY <2>1, <2>2, StutterLease
<1>6. CASE UNCHANGED vars
  <2>1. UNCHANGED <<pc, ours, cancelled, late>>
    BY <1>6 DEF vars, osVars
  <2>2. Phase' = Phase
    BY <2>1 DEF Phase
  <2>. QED  BY <2>1, <2>2, StutterLease
<1>. QED  BY <1>1, <1>2, <1>3, <1>4, <1>5, <1>6 DEF Next, Environment

\* fl_load_fonts and fl_unload_fonts implement the lease.
THEOREM ImplementsLease == Spec => LeaseSpec
<1>1. Init => Lease!LInit
  BY InitLease
<1>2. IInv /\ [Next]_vars => [Lease!LNext]_(Lease!lvars)
  BY NextLease
<1>. QED  BY <1>1, <1>2, Invariance, PTL DEF Spec, LeaseSpec, Lease!LSpec

\* After the registration that followed the cancellation no count goes up.
LEMMA LateStep ==
  ASSUME IInv, [Next]_vars, late
  PROVE  \A f \in Files : ours'[f] <= ours[f]
<1>1. ours \in [Files -> Nat] /\ pc # "load"
  BY DEF IInv, TypeOK, LateOK
<1>2. CASE UnloadRecord
  BY <1>1, <1>2, UnloadRecordIInv
<1>3. CASE ~UnloadRecord
  <2>1. ours' = ours
    <3>1. CASE BeginLoad \/ BeginUnload \/ Cancel \/ UNCHANGED vars
      BY <3>1 DEF BeginLoad, BeginUnload, Cancel, vars, osVars
    <3>2. CASE Load
      <4>1. ~LoadFile
        BY <1>1 DEF LoadFile
      <4>2. CASE ProbeCancelled \/ EndProbe \/ SkipFace \/ CheckCancel \/ EndMatch
        BY <4>2 DEF ProbeCancelled, EndProbe, SkipFace, CheckCancel, EndMatch, osVars
      <4>3. CASE \E installed \in BOOLEAN : ProbeFace(installed)
        BY <4>3 DEF ProbeFace, osVars
      <4>4. CASE MatchFace \/ FinishFace \/ SortRecords
        BY <4>4 DEF MatchFace, FinishFace, SortRecords, osVars
      <4>. QED  BY <3>2, <4>1, <4>2, <4>3, <4>4 DEF Load
    <3>3. CASE EndUnload
      BY <3>3 DEF EndUnload, osVars
    <3>4. CASE \E f \in Shared : OtherRegisters(f) \/ OtherUnregisters(f)
      BY <3>4 DEF OtherRegisters, OtherUnregisters
    <3>. QED  BY <1>3, <3>1, <3>2, <3>3, <3>4 DEF Next, Unload, Environment
  <2>. QED  BY <1>1, <2>1
<1>. QED  BY <1>2, <1>3

\* fl_cancel stops a load after at most one more file.
THEOREM CancelStops == Spec => StopsSoon
<1>1. IInv /\ [Next]_vars => [late => \A f \in Files : ours'[f] <= ours[f]]_vars
  BY LateStep
<1>. QED  BY <1>1, Invariance, PTL DEF Spec, StopsSoon
=============================================================================
