--------------------------- MODULE MacHelperProofs ---------------------------
(***************************************************************************)
(* Proofs about MacHelper, for every set of files and number of subtitles. *)
(***************************************************************************)
EXTENDS MacHelper, FiniteSetTheorems, SequenceTheorems, TLAPS

(***************************************************************************)
(* The inductive invariant: where the loader is at each place of the       *)
(* process.  Every goto cleanup is behind either nothing or a load that    *)
(* has come to its end, and the set is freed only behind an unload.        *)
(***************************************************************************)
PlaceOK ==
  /\ phase = "idle" => held = {}
  /\ pc \in Stages \cup {"init", "freed", "exited"} => phase = "idle"
  /\ pc = "loading" => phase = "loading"
  /\ pc \in {"results", "ready", "wait", "select", "blocked", "unload"} => phase = "loaded"
  /\ pc = "unloading" => phase = "releasing"
  /\ pc = "cleanup" => phase \in {"idle", "loaded"}

LEMMA InitPlace == Init => PlaceOK
BY DEF Init, Loader!LInit, PlaceOK, Stages

(***************************************************************************)
(* What the output does to the place: nothing, or the process is killed.   *)
(***************************************************************************)
LEMMA EmitPlace ==
  ASSUME NEW events, NEW next, Emit(events, next)
  PROVE  pc' \in {next, "killed"}
BY DEF Emit, Write

LEMMA EmitReadyPlace ==
  ASSUME NEW next, EmitReady(next)
  PROVE  pc' \in {next, "killed"}
BY DEF EmitReady, Write

(***************************************************************************)
(* One step for each action.                                               *)
(***************************************************************************)
LEMMA NextPlace == PlaceOK /\ [Next]_vars => PlaceOK'
<1>. SUFFICES ASSUME PlaceOK, [Next]_vars PROVE PlaceOK'
  OBVIOUS
<1>. USE DEF PlaceOK, Stages
<1>1. CASE Start \/ CheckInterrupted
  BY <1>1 DEF Start, CheckInterrupted, lease
<1>2. CASE AddSubtitle \/ SubsDone
  <2>1. pc' \in {"subs", "cleanup", "cache", "killed"}
    BY <1>2, EmitPlace DEF AddSubtitle, SubsDone
  <2>2. phase = "idle" /\ UNCHANGED lease
    BY <1>2 DEF AddSubtitle, SubsDone
  <2>. QED  BY <2>1, <2>2 DEF lease
<1>3. CASE NothingNeeded
  BY <1>3, EmitReadyPlace DEF NothingNeeded, lease
<1>4. CASE LoadCache
  <2>1. hasFaces' \in BOOLEAN /\ pc' \in {"load", "scan", "killed"}
    BY <1>4, EmitPlace DEF LoadCache
  <2>. QED  BY <1>4, <2>1 DEF LoadCache, lease
<1>5. CASE ScanFonts
  BY <1>5, EmitPlace DEF ScanFonts, lease
<1>6. CASE LoadFonts
  BY <1>6, EmitPlace DEF LoadFonts, Loader!Begin
<1>7. CASE \E f \in Files : LoadFile(f)
  BY <1>7 DEF LoadFile, Loader!Acquire
<1>8. CASE EndLoad
  BY <1>8 DEF EndLoad, Loader!Finish
<1>9. CASE Results
  BY <1>9, EmitPlace DEF Results, lease
<1>10. CASE Ready
  <2>1. pc' \in {"cleanup", "wait", "killed"}
    BY <1>10, EmitReadyPlace DEF Ready
  <2>. QED  BY <1>10, <2>1 DEF Ready, lease
<1>11. CASE WaitTest \/ Select \/ ReadStdin
  BY <1>11 DEF WaitTest, Select, ReadStdin, lease
<1>12. CASE BeginUnload
  <2>1. pc' \in {"unloading", "killed"}
    BY <1>12, EmitPlace DEF BeginUnload
  <2>. QED  BY <1>12, <2>1 DEF BeginUnload, Loader!BeginRelease
<1>13. CASE \E f \in Files : UnloadFile(f)
  BY <1>13 DEF UnloadFile, Loader!Release
<1>14. CASE EndUnload
  BY <1>14, EmitPlace DEF EndUnload, Loader!End
<1>15. CASE NothingLoaded \/ Exit
  BY <1>15 DEF NothingLoaded, Exit, Write, lease
<1>16. CASE Signal
  BY <1>16 DEF Signal, Loader!RequestStop, lease
<1>17. CASE CloseStdin \/ TypeOnStdin \/ CloseStdout
  BY <1>17 DEF CloseStdin, TypeOnStdin, CloseStdout, lease
<1>18. CASE UNCHANGED vars
  BY <1>18 DEF vars, lease
<1>. QED
  BY <1>1, <1>2, <1>3, <1>4, <1>5, <1>6, <1>7, <1>8, <1>9,
     <1>10, <1>11, <1>12, <1>13, <1>14, <1>15, <1>16, <1>17, <1>18
  DEF Next, Helper, Parent, Ended

\* No exit leaves a font registered.
THEOREM ExitIsClean == Spec => []ExitUnloads
<1>1. PlaceOK => ExitUnloads
  BY DEF PlaceOK, ExitUnloads
<1>. QED  BY <1>1, InitPlace, NextPlace, PTL DEF Spec

\* The wait is ended by a signal or by the end of stdin only: not by input, and
\* not by a write that nobody reads.
LEMMA WaitStep ==
  ASSUME [Next]_vars, Waiting, ~Waiting'
  PROVE  interrupted \/ stdin = "eof"
<1>. USE DEF Waiting
<1>1. CASE Helper
  <2>1. WaitTest \/ Select \/ ReadStdin
    BY <1>1 DEF Helper, Start, CheckInterrupted, Stages, AddSubtitle, NothingNeeded,
       SubsDone, LoadCache, ScanFonts, LoadFonts, LoadFile, EndLoad, Results, Ready,
       BeginUnload, UnloadFile, EndUnload, NothingLoaded, Exit
  <2>. QED  BY <2>1 DEF WaitTest, Select, ReadStdin
<1>2. CASE Parent
  BY <1>2 DEF Parent, Signal, CloseStdin, TypeOnStdin, CloseStdout
<1>3. CASE UNCHANGED vars
  BY <1>3 DEF vars
<1>. QED  BY <1>1, <1>2, <1>3 DEF Next, Ended

\* Fonts that were reported stay until the parent or a signal asks.
THEOREM HoldsUntilAsked == Spec => FontsStay
<1>1. [Next]_vars => [Waiting /\ ~Waiting' => interrupted \/ stdin = "eof"]_vars
  BY WaitStep
<1>. QED  BY <1>1, PTL DEF Spec, FontsStay

-----------------------------------------------------------------------------
(***************************************************************************)
(* The life of the process.  The ready event goes through stdio's buffer   *)
(* and the pipe at once, so that it is never left in the buffer; what is   *)
(* in the pipe stays there.                                                *)
(***************************************************************************)
HasReady(events) == \E i \in DOMAIN events : events[i].event = "ready"

\* Which places come before the report, and which after it.
ReportOK ==
  /\ ~HasReady(buf)
  /\ Waiting => Reported
  /\ pc \in Stages \cup {"init", "loading", "results", "ready"} => ~Reported /\ r # "oom"
  /\ Reported => r # "oom"

LifeInv == TypeOK /\ ReportOK

LEMMA EventTypes ==
  ASSUME TypeOK
  PROVE  /\ Cardinality(held) \in 0 .. Cardinality(Files)
         /\ Cardinality(Files) \in Nat
         /\ [event |-> "ready", loaded |-> Cardinality(held)] \in Events
         /\ Cardinality(held) > 0 => [event |-> "font", loaded |-> 1] \in Events
<1>1. Cardinality(Files) \in Nat
  BY HelperAssumption, FS_CardinalityType
<1>2. Cardinality(held) \in Nat /\ Cardinality(held) <= Cardinality(Files)
  BY HelperAssumption, FS_Subset, FS_CardinalityType DEF TypeOK
<1>. QED  BY <1>1, <1>2 DEF Events

LEMMA ReadyInConcat ==
  ASSUME NEW s \in Seq(Events), NEW t \in Seq(Events)
  PROVE  HasReady(s \o t) <=> HasReady(s) \/ HasReady(t)
<1>1. /\ Len(s) \in Nat /\ Len(t) \in Nat
      /\ DOMAIN s = 1 .. Len(s) /\ DOMAIN t = 1 .. Len(t)
      /\ DOMAIN (s \o t) = 1 .. Len(s) + Len(t)
      /\ \A i \in 1 .. Len(s) : (s \o t)[i] = s[i]
      /\ \A i \in 1 .. Len(t) : (s \o t)[Len(s) + i] = t[i]
  OBVIOUS
<1>2. ASSUME HasReady(s \o t)
      PROVE  HasReady(s) \/ HasReady(t)
  <2>1. PICK i \in 1 .. Len(s) + Len(t) : (s \o t)[i].event = "ready"
    BY <1>1, <1>2 DEF HasReady
  <2>2. CASE i <= Len(s)
    BY <1>1, <2>1, <2>2 DEF HasReady
  <2>3. CASE i > Len(s)
    <3>1. i - Len(s) \in 1 .. Len(t) /\ i = Len(s) + (i - Len(s))
      BY <1>1, <2>3
    <3>2. (s \o t)[i] = t[i - Len(s)]
      BY <1>1, <3>1
    <3>. QED  BY <1>1, <2>1, <3>1, <3>2 DEF HasReady
  <2>. QED  BY <1>1, <2>2, <2>3
<1>3. HasReady(s) => HasReady(s \o t)
  BY <1>1 DEF HasReady
<1>4. ASSUME HasReady(t)
      PROVE  HasReady(s \o t)
  <2>1. PICK i \in 1 .. Len(t) : t[i].event = "ready"
    BY <1>1, <1>4 DEF HasReady
  <2>2. Len(s) + i \in 1 .. Len(s) + Len(t)
    BY <1>1
  <2>. QED  BY <1>1, <2>1, <2>2 DEF HasReady
<1>. QED  BY <1>2, <1>3, <1>4

(***************************************************************************)
(* What the output does to the report.                                     *)
(***************************************************************************)
\* Events other than ready change nothing of it.
LEMMA EmitQuiet ==
  ASSUME LifeInv, NEW events \in Seq(Events), ~HasReady(events), NEW next, Emit(events, next)
  PROVE  /\ pc' \in {next, "killed"}
         /\ buf' \in Seq(Events) /\ out' \in Seq(Events)
         /\ ~HasReady(buf')
         /\ Reported' <=> Reported
<1>. USE DEF LifeInv, ReportOK, Reported
<1>1. buf \in Seq(Events) /\ out \in Seq(Events)
  BY DEF TypeOK
<1>2. buf \o events \in Seq(Events) /\ ~HasReady(buf \o events)
  BY <1>1, ReadyInConcat
<1>3. /\ out \o (buf \o events) \in Seq(Events)
      /\ HasReady(out \o (buf \o events)) <=> HasReady(out)
  <2>. DEFINE b == buf \o events
  <2>1. b \in Seq(Events) /\ ~HasReady(b)
    BY <1>2
  <2>. HIDE DEF b
  <2>2. out \o b \in Seq(Events) /\ (HasReady(out \o b) <=> HasReady(out))
    BY <1>1, <2>1, ReadyInConcat
  <2>. QED  BY <2>2 DEF b
<1>4. (out \o buf) \o events = out \o (buf \o events)
  BY <1>1, ConcatAssociative
<1>5. ~HasReady(<< >>) /\ << >> \in Seq(Events)
  BY DEF HasReady
<1>6. CASE buf' = buf \o events /\ pc' = next /\ UNCHANGED out
  BY <1>1, <1>2, <1>6 DEF HasReady
<1>7. CASE reader /\ out' = out \o buf \o events /\ buf' = << >> /\ pc' = next
  BY <1>3, <1>4, <1>5, <1>7 DEF HasReady
<1>8. CASE pc' = "killed" /\ UNCHANGED output
  BY <1>1, <1>8 DEF output, HasReady
<1>. QED  BY <1>6, <1>7, <1>8 DEF Emit, Write

\* Nothing written: the buffer may be.
LEMMA NoEvent == << >> \in Seq(Events) /\ ~HasReady(<< >>)
BY DEF HasReady

\* The font events.
LEMMA ResultsQuiet ==
  ASSUME LifeInv, Results
  PROVE  /\ pc' \in {"ready", "killed"}
         /\ buf' \in Seq(Events) /\ out' \in Seq(Events)
         /\ ~HasReady(buf')
         /\ Reported' <=> Reported
<1>. DEFINE fonts == [i \in 1 .. Cardinality(held) |-> [event |-> "font", loaded |-> 1]]
<1>1. Cardinality(held) \in Nat
  BY EventTypes DEF LifeInv
<1>2. \A i \in 1 .. Cardinality(held) : fonts[i] \in Events /\ fonts[i].event = "font"
  BY <1>1, EventTypes DEF LifeInv
<1>3. DOMAIN fonts = 1 .. Cardinality(held) /\ fonts \in [1 .. Cardinality(held) -> Events]
  BY <1>2
<1>4. Emit(fonts, "ready")
  BY DEF Results
<1>. HIDE DEF fonts
<1>5. fonts \in Seq(Events)
  BY <1>1, <1>3, IsASeq
<1>6. ~HasReady(fonts)
  BY <1>2, <1>3 DEF HasReady
<1>. QED  BY <1>4, <1>5, <1>6, EmitQuiet

\* The ready event reports, or the process is killed.
LEMMA EmitReadyReports ==
  ASSUME LifeInv, NEW next, EmitReady(next)
  PROVE  /\ buf' \in Seq(Events) /\ out' \in Seq(Events)
         /\ ~HasReady(buf')
         /\ \/ pc' = next /\ Reported'
            \/ pc' = "killed" /\ (Reported' <=> Reported)
<1>. USE DEF LifeInv, ReportOK, Reported
<1>. DEFINE e == <<[event |-> "ready", loaded |-> Cardinality(held)]>>
<1>1. buf \in Seq(Events) /\ out \in Seq(Events)
  BY DEF TypeOK
<1>2. e \in Seq(Events)
  BY EventTypes
<1>3. HasReady(e)
  BY DEF HasReady
<1>. HIDE DEF e
<1>4. /\ (out \o buf) \o e \in Seq(Events)
      /\ HasReady((out \o buf) \o e)
  <2>. DEFINE b == out \o buf
  <2>1. b \in Seq(Events)
    BY <1>1
  <2>. HIDE DEF b
  <2>2. b \o e \in Seq(Events) /\ HasReady(b \o e)
    BY <1>2, <1>3, <2>1, ReadyInConcat
  <2>. QED  BY <2>2 DEF b
<1>5. CASE reader /\ out' = out \o buf \o e /\ buf' = << >> /\ pc' = next
  BY <1>4, <1>5, NoEvent DEF HasReady
<1>6. CASE pc' = "killed" /\ UNCHANGED output
  BY <1>1, <1>6 DEF output, HasReady
<1>. QED  BY <1>5, <1>6 DEF EmitReady, Write, e

LEMMA InitLifeInv == Init => LifeInv
<1>. SUFFICES ASSUME Init PROVE TypeOK /\ ReportOK
  BY DEF LifeInv
<1>1. 0 \in 0 .. NumSubs
  BY HelperAssumption
<1>2. TypeOK
  BY <1>1, NoEvent DEF Init, Loader!LInit, TypeOK, Stages
<1>3. ~HasReady(buf) /\ ~Reported
  BY NoEvent DEF Init, Reported, HasReady
<1>. QED  BY <1>2, <1>3 DEF Init, ReportOK, Waiting, Stages

(***************************************************************************)
(* One step for each action: what becomes of the output first.             *)
(***************************************************************************)
LEMMA NextLifeInv == LifeInv /\ [Next]_vars => LifeInv'
<1>. SUFFICES ASSUME LifeInv, [Next]_vars PROVE TypeOK' /\ ReportOK'
  BY DEF LifeInv
<1>. DEFINE Quiet == /\ buf' \in Seq(Events) /\ out' \in Seq(Events)
                     /\ ~HasReady(buf') /\ (Reported' <=> Reported)
<1>0. UNCHANGED output => Quiet
  BY DEF LifeInv, TypeOK, ReportOK, Reported, HasReady, output
<1>. HIDE DEF Quiet
<1>1. CASE Start
  <2>1. Quiet
    BY <1>1, <1>0 DEF Start, output
  <2>2. TypeOK'
    BY <1>1, <2>1, HelperAssumption DEF Start, LifeInv, TypeOK, ReportOK, Stages, Waiting, Quiet, Gone, lease, pipes, output, locals
  <2>3. ReportOK'
    BY <1>1, <2>1 DEF Start, LifeInv, TypeOK, ReportOK, Stages, Waiting, Quiet, Gone, lease, pipes, output, locals
  <2>. QED  BY <2>2, <2>3
<1>2. CASE CheckInterrupted
  <2>1. Quiet
    BY <1>2, <1>0 DEF CheckInterrupted, output
  <2>2. TypeOK'
    BY <1>2, <2>1, HelperAssumption DEF CheckInterrupted, LifeInv, TypeOK, ReportOK, Stages, Waiting, Quiet, Gone, lease, pipes, output, locals
  <2>3. ReportOK'
    BY <1>2, <2>1 DEF CheckInterrupted, LifeInv, TypeOK, ReportOK, Stages, Waiting, Quiet, Gone, lease, pipes, output, locals
  <2>. QED  BY <2>2, <2>3
<1>3. CASE \E f \in Files : LoadFile(f)
  <2>1. Quiet
    BY <1>3, <1>0 DEF LoadFile, output
  <2>2. TypeOK'
    BY <1>3, <2>1, HelperAssumption DEF LoadFile, Loader!Acquire, LifeInv, TypeOK, ReportOK, Stages, Waiting, Quiet, Gone, lease, pipes, output, locals
  <2>3. ReportOK'
    BY <1>3, <2>1 DEF LoadFile, Loader!Acquire, LifeInv, TypeOK, ReportOK, Stages, Waiting, Quiet, Gone, lease, pipes, output, locals
  <2>. QED  BY <2>2, <2>3
<1>4. CASE EndLoad
  <2>1. Quiet
    BY <1>4, <1>0 DEF EndLoad, output
  <2>2. TypeOK'
    BY <1>4, <2>1, HelperAssumption DEF EndLoad, Loader!Finish, LifeInv, TypeOK, ReportOK, Stages, Waiting, Quiet, Gone, lease, pipes, output, locals
  <2>3. ReportOK'
    BY <1>4, <2>1 DEF EndLoad, Loader!Finish, LifeInv, TypeOK, ReportOK, Stages, Waiting, Quiet, Gone, lease, pipes, output, locals
  <2>. QED  BY <2>2, <2>3
<1>5. CASE WaitTest
  <2>1. Quiet
    BY <1>5, <1>0 DEF WaitTest, output
  <2>2. TypeOK'
    BY <1>5, <2>1, HelperAssumption DEF WaitTest, LifeInv, TypeOK, ReportOK, Stages, Waiting, Quiet, Gone, lease, pipes, output, locals
  <2>3. ReportOK'
    BY <1>5, <2>1 DEF WaitTest, LifeInv, TypeOK, ReportOK, Stages, Waiting, Quiet, Gone, lease, pipes, output, locals
  <2>. QED  BY <2>2, <2>3
<1>6. CASE Select
  <2>1. Quiet
    BY <1>6, <1>0 DEF Select, output
  <2>2. TypeOK'
    BY <1>6, <2>1, HelperAssumption DEF Select, LifeInv, TypeOK, ReportOK, Stages, Waiting, Quiet, Gone, lease, pipes, output, locals
  <2>3. ReportOK'
    BY <1>6, <2>1 DEF Select, LifeInv, TypeOK, ReportOK, Stages, Waiting, Quiet, Gone, lease, pipes, output, locals
  <2>. QED  BY <2>2, <2>3
<1>7. CASE ReadStdin
  <2>1. Quiet
    BY <1>7, <1>0 DEF ReadStdin, output
  <2>2. TypeOK'
    BY <1>7, <2>1, HelperAssumption DEF ReadStdin, LifeInv, TypeOK, ReportOK, Stages, Waiting, Quiet, Gone, lease, pipes, output, locals
  <2>3. ReportOK'
    BY <1>7, <2>1 DEF ReadStdin, LifeInv, TypeOK, ReportOK, Stages, Waiting, Quiet, Gone, lease, pipes, output, locals
  <2>. QED  BY <2>2, <2>3
<1>8. CASE \E f \in Files : UnloadFile(f)
  <2>1. Quiet
    BY <1>8, <1>0 DEF UnloadFile, output
  <2>2. TypeOK'
    BY <1>8, <2>1, HelperAssumption DEF UnloadFile, Loader!Release, LifeInv, TypeOK, ReportOK, Stages, Waiting, Quiet, Gone, lease, pipes, output, locals
  <2>3. ReportOK'
    BY <1>8, <2>1 DEF UnloadFile, Loader!Release, LifeInv, TypeOK, ReportOK, Stages, Waiting, Quiet, Gone, lease, pipes, output, locals
  <2>. QED  BY <2>2, <2>3
<1>9. CASE NothingLoaded
  <2>1. Quiet
    BY <1>9, <1>0 DEF NothingLoaded, output
  <2>2. TypeOK'
    BY <1>9, <2>1, HelperAssumption DEF NothingLoaded, LifeInv, TypeOK, ReportOK, Stages, Waiting, Quiet, Gone, lease, pipes, output, locals
  <2>3. ReportOK'
    BY <1>9, <2>1 DEF NothingLoaded, LifeInv, TypeOK, ReportOK, Stages, Waiting, Quiet, Gone, lease, pipes, output, locals
  <2>. QED  BY <2>2, <2>3
<1>10. CASE Signal
  <2>1. Quiet
    BY <1>10, <1>0 DEF Signal, output
  <2>2. TypeOK'
    BY <1>10, <2>1, HelperAssumption DEF Signal, Loader!RequestStop, LifeInv, TypeOK, ReportOK, Stages, Waiting, Quiet, Gone, lease, pipes, output, locals
  <2>3. ReportOK'
    BY <1>10, <2>1 DEF Signal, Loader!RequestStop, LifeInv, TypeOK, ReportOK, Stages, Waiting, Quiet, Gone, lease, pipes, output, locals
  <2>. QED  BY <2>2, <2>3
<1>11. CASE CloseStdin
  <2>1. Quiet
    BY <1>11, <1>0 DEF CloseStdin, output
  <2>2. TypeOK'
    BY <1>11, <2>1, HelperAssumption DEF CloseStdin, LifeInv, TypeOK, ReportOK, Stages, Waiting, Quiet, Gone, lease, pipes, output, locals
  <2>3. ReportOK'
    BY <1>11, <2>1 DEF CloseStdin, LifeInv, TypeOK, ReportOK, Stages, Waiting, Quiet, Gone, lease, pipes, output, locals
  <2>. QED  BY <2>2, <2>3
<1>12. CASE TypeOnStdin
  <2>1. Quiet
    BY <1>12, <1>0 DEF TypeOnStdin, output
  <2>2. TypeOK'
    BY <1>12, <2>1, HelperAssumption DEF TypeOnStdin, LifeInv, TypeOK, ReportOK, Stages, Waiting, Quiet, Gone, lease, pipes, output, locals
  <2>3. ReportOK'
    BY <1>12, <2>1 DEF TypeOnStdin, LifeInv, TypeOK, ReportOK, Stages, Waiting, Quiet, Gone, lease, pipes, output, locals
  <2>. QED  BY <2>2, <2>3
<1>13. CASE CloseStdout
  <2>1. Quiet
    BY <1>13, <1>0 DEF CloseStdout, output
  <2>2. TypeOK'
    BY <1>13, <2>1, HelperAssumption DEF CloseStdout, LifeInv, TypeOK, ReportOK, Stages, Waiting, Quiet, Gone, lease, pipes, output, locals
  <2>3. ReportOK'
    BY <1>13, <2>1 DEF CloseStdout, LifeInv, TypeOK, ReportOK, Stages, Waiting, Quiet, Gone, lease, pipes, output, locals
  <2>. QED  BY <2>2, <2>3
<1>14. CASE AddSubtitle
  <2>1. Quiet /\ \/ r' = r /\ pc' \in {"subs", "killed"}
                 \/ r' = "oom" /\ pc' \in {"cleanup", "killed"}
    BY <1>14, EmitQuiet, NoEvent DEF AddSubtitle, Quiet
  <2>2. TypeOK'
    <3>1. sub' \in 0 .. NumSubs
      <4>1. sub \in 0 .. NumSubs /\ sub + 1 \in 0 .. NumSubs
        BY <1>14, HelperAssumption DEF AddSubtitle, LifeInv, TypeOK
      <4>2. sub' = sub \/ sub' = sub + 1
        BY <1>14 DEF AddSubtitle
      <4>. QED  BY <4>1, <4>2, Zenon
    <3>2. wanted' \in BOOLEAN /\ r' \in {"ok", "os", "oom"}
      BY <1>14 DEF AddSubtitle, LifeInv, TypeOK
    <3>3. UNCHANGED <<hasFaces, interrupted, stdin, reader, phase, held, stop, late>>
      BY <1>14 DEF AddSubtitle, pipes, lease
    <3>. QED  BY <2>1, <3>1, <3>2, <3>3 DEF LifeInv, TypeOK, Quiet, Stages
  <2>3. ReportOK'
    BY <1>14, <2>1 DEF AddSubtitle, LifeInv, TypeOK, ReportOK, Stages, Waiting, Quiet, Gone, lease, pipes, locals
  <2>. QED  BY <2>2, <2>3
<1>15. CASE SubsDone
  <2>1. Quiet /\ pc' \in {"cache", "killed"}
    BY <1>15, EmitQuiet, NoEvent DEF SubsDone, Quiet
  <2>2. TypeOK'
    BY <1>15, <2>1 DEF SubsDone, LifeInv, TypeOK, ReportOK, Stages, Waiting, Quiet, Gone, lease, pipes, locals
  <2>3. ReportOK'
    BY <1>15, <2>1 DEF SubsDone, LifeInv, TypeOK, ReportOK, Stages, Waiting, Quiet, Gone, lease, pipes, locals
  <2>. QED  BY <2>2, <2>3
<1>16. CASE LoadCache
  <2>1. Quiet /\ pc' \in {"load", "scan", "killed"}
    BY <1>16, EmitQuiet, NoEvent DEF LoadCache, Quiet
  <2>2. TypeOK'
    BY <1>16, <2>1 DEF LoadCache, LifeInv, TypeOK, ReportOK, Stages, Waiting, Quiet, Gone, lease, pipes, locals
  <2>3. ReportOK'
    BY <1>16, <2>1 DEF LoadCache, LifeInv, TypeOK, ReportOK, Stages, Waiting, Quiet, Gone, lease, pipes, locals
  <2>. QED  BY <2>2, <2>3
<1>17. CASE ScanFonts
  <2>1. Quiet /\ \/ r' = "ok" /\ pc' \in {"load", "killed"}
                 \/ r' \in {"os", "oom"} /\ pc' \in {"cleanup", "killed"}
    BY <1>17, EmitQuiet, NoEvent DEF ScanFonts, Quiet
  <2>2. TypeOK'
    BY <1>17, <2>1 DEF ScanFonts, LifeInv, TypeOK, ReportOK, Stages, Waiting, Quiet, Gone, lease, pipes, locals
  <2>3. ReportOK'
    BY <1>17, <2>1 DEF ScanFonts, LifeInv, TypeOK, ReportOK, Stages, Waiting, Quiet, Gone, lease, pipes, locals
  <2>. QED  BY <2>2, <2>3
<1>18. CASE LoadFonts
  <2>1. Quiet /\ pc' \in {"loading", "killed"}
    BY <1>18, EmitQuiet, NoEvent DEF LoadFonts, Quiet
  <2>2. TypeOK'
    BY <1>18, <2>1 DEF LoadFonts, Loader!Begin, LifeInv, TypeOK, ReportOK, Stages, Waiting, Quiet, Gone, lease, pipes, locals
  <2>3. ReportOK'
    BY <1>18, <2>1 DEF LoadFonts, Loader!Begin, LifeInv, TypeOK, ReportOK, Stages, Waiting, Quiet, Gone, lease, pipes, locals
  <2>. QED  BY <2>2, <2>3
<1>19. CASE EndUnload
  <2>1. Quiet /\ pc' \in {"freed", "killed"}
    BY <1>19, EmitQuiet, NoEvent DEF EndUnload, Quiet
  <2>2. TypeOK'
    BY <1>19, <2>1 DEF EndUnload, Loader!End, LifeInv, TypeOK, ReportOK, Stages, Waiting, Quiet, Gone, lease, pipes, locals
  <2>3. ReportOK'
    BY <1>19, <2>1 DEF EndUnload, Loader!End, LifeInv, TypeOK, ReportOK, Stages, Waiting, Quiet, Gone, lease, pipes, locals
  <2>. QED  BY <2>2, <2>3
<1>20. CASE BeginUnload
  <2>1. Quiet /\ pc' \in {"unloading", "killed"}
    <3>1. CASE pc = "unload"
      BY <1>20, <3>1, EmitQuiet, NoEvent DEF BeginUnload, Quiet
    <3>2. CASE pc # "unload"
      BY <1>20, <3>2, <1>0 DEF BeginUnload
    <3>. QED  BY <3>1, <3>2
  <2>2. TypeOK'
    BY <1>20, <2>1 DEF BeginUnload, Loader!BeginRelease, LifeInv, TypeOK, ReportOK, Stages, Waiting, Quiet, Gone, lease, pipes, locals
  <2>3. ReportOK'
    BY <1>20, <2>1 DEF BeginUnload, Loader!BeginRelease, LifeInv, TypeOK, ReportOK, Stages, Waiting, Quiet, Gone, lease, pipes, locals
  <2>. QED  BY <2>2, <2>3
<1>21. CASE Results
  <2>1. Quiet /\ pc' \in {"ready", "killed"}
    BY <1>21, ResultsQuiet DEF Quiet
  <2>2. TypeOK'
    BY <1>21, <2>1 DEF Results, LifeInv, TypeOK, ReportOK, Stages, Waiting, Quiet, Gone, lease, pipes, locals
  <2>3. ReportOK'
    BY <1>21, <2>1 DEF Results, LifeInv, TypeOK, ReportOK, Stages, Waiting, Quiet, Gone, lease, pipes, locals
  <2>. QED  BY <2>2, <2>3
<1>22. CASE Exit
  <2>1. Quiet /\ pc' \in {"exited", "killed"}
    <3>1. CASE buf = << >>
      BY <1>22, <3>1, <1>0 DEF Exit
    <3>2. CASE Write(<< >>, "exited")
      BY <3>2, EmitQuiet, NoEvent DEF Emit, Quiet
    <3>. QED  BY <1>22, <3>1, <3>2 DEF Exit
  <2>2. TypeOK'
    BY <1>22, <2>1 DEF Exit, LifeInv, TypeOK, ReportOK, Stages, Waiting, Quiet, Gone, lease, pipes, locals
  <2>3. ReportOK'
    BY <1>22, <2>1 DEF Exit, LifeInv, TypeOK, ReportOK, Stages, Waiting, Quiet, Gone, lease, pipes, locals
  <2>. QED  BY <2>2, <2>3
\* The report itself.
<1>23. CASE NothingNeeded \/ Ready
  <2>1. /\ buf' \in Seq(Events) /\ out' \in Seq(Events) /\ ~HasReady(buf')
        /\ \/ pc' \in {"cleanup", "wait"} /\ Reported'
           \/ pc' = "killed" /\ (Reported' <=> Reported)
    BY <1>23, EmitReadyReports DEF NothingNeeded, Ready
  <2>2. TypeOK'
    BY <1>23, <2>1 DEF NothingNeeded, Ready, LifeInv, TypeOK, ReportOK, Stages, Waiting, Quiet, Gone, lease, pipes, locals
  <2>3. ReportOK'
    BY <1>23, <2>1 DEF NothingNeeded, Ready, LifeInv, TypeOK, ReportOK, Stages, Waiting, Quiet, Gone, lease, pipes, locals
  <2>. QED  BY <2>2, <2>3
<1>24. CASE UNCHANGED vars
  <2>1. Quiet
    BY <1>24, <1>0 DEF vars, output
  <2>. QED
    BY <1>24, <2>1 DEF vars, LifeInv, TypeOK, ReportOK, Stages, Waiting, Quiet, Gone, lease, pipes, output, locals
<1>. QED
  BY <1>1, <1>2, <1>3, <1>4, <1>5, <1>6, <1>7, <1>8, <1>9, <1>10, <1>11, <1>12, <1>13, <1>14, <1>15, <1>16, <1>17, <1>18, <1>19, <1>20, <1>21, <1>22, <1>23, <1>24
  DEF Next, Helper, Parent, Ended

\* What life is at each place.
LifeIs ==
  /\ life = Life(life.st, Reported)
  /\ Waiting => life.st = "hold"
  /\ pc = "exited" => life.st = IF r = "oom" THEN "failed" ELSE "done"
  /\ pc = "killed" => life.st = "failed"
  /\ ~Waiting /\ ~Gone => life.st = IF Reported THEN "leave" ELSE "work"

LEMMA LifeFacts == LifeIs /\ LifeIs'
<1>1. LifeIs
  <2>1. life = Life(life.st, Reported)
    BY DEF life, Life
  <2>2. Waiting => life.st = "hold"
    BY DEF life, Life, Waiting
  <2>3. (pc = "exited" /\ r = "oom" => life.st = "failed") /\ (pc = "killed" => life.st = "failed")
    BY DEF life, Life, Waiting
  <2>4. pc = "exited" /\ r # "oom" => life.st = "done"
    BY DEF life, Life, Waiting
  <2>5. ~Waiting /\ ~Gone => life.st = IF Reported THEN "leave" ELSE "work"
    BY DEF life, Life, Waiting, Gone
  <2>. QED  BY <2>1, <2>2, <2>3, <2>4, <2>5 DEF LifeIs
<1>2. LifeIs'
  <2>1. life' = Life(life.st, Reported)'
    BY DEF life, Life
  <2>2. (Waiting => life.st = "hold")'
    BY DEF life, Life, Waiting
  <2>3. (pc = "exited" /\ r = "oom" => life.st = "failed")' /\ (pc = "killed" => life.st = "failed")'
    BY DEF life, Life, Waiting
  <2>4. (pc = "exited" /\ r # "oom" => life.st = "done")'
    BY DEF life, Life, Waiting
  <2>5. (~Waiting /\ ~Gone => life.st = IF Reported THEN "leave" ELSE "work")'
    BY DEF life, Life, Waiting, Gone
  <2>. QED  BY <2>1, <2>2, <2>3, <2>4, <2>5 DEF LifeIs
<1>. QED  BY <1>1, <1>2

\* The steps HelperLife allows, for each life.
LEMMA NextLivesAre ==
  ASSUME NEW l, NEW asked
  PROVE  /\ l.st = "work" => NextLives(l, asked) =
              {Life("hold", TRUE), Life("leave", TRUE), Life("done", FALSE)}
         /\ l.st = "hold" /\ asked => NextLives(l, asked) = {Life("leave", TRUE)}
         /\ l.st = "leave" => NextLives(l, asked) = {Life("done", TRUE)}
<1>1. l.st = "work" => NextLives(l, asked) =
        {Life("hold", TRUE), Life("leave", TRUE), Life("done", FALSE)}
  BY DEF NextLives
<1>2. l.st = "hold" /\ asked => NextLives(l, asked) = {Life("leave", TRUE)}
  BY DEF NextLives
<1>3. l.st = "leave" => NextLives(l, asked) = {Life("done", TRUE)}
  BY DEF NextLives
<1>. QED  BY <1>1, <1>2, <1>3

Asked == interrupted \/ stdin = "eof"
MayBecome == {life, Failed(life)} \cup NextLives(life, Asked)

LEMMA ReportedBoolean == Reported \in BOOLEAN /\ Reported' \in BOOLEAN
BY DEF Reported

\* A place of the same kind, or the end by a signal.
LEMMA StaysOrFails ==
  ASSUME Reported' <=> Reported,
         \/ ~Waiting /\ ~Gone /\ ~Waiting' /\ pc' # "exited"
         \/ Waiting /\ Waiting'
         \/ UNCHANGED <<pc, r>>
  PROVE  life' \in MayBecome
<1>1. Reported' = Reported
  BY ReportedBoolean
<1>2. CASE pc' = "killed" /\ ~Gone
  <2>1. life' = Life("failed", Reported)
    BY <1>1, <1>2, LifeFacts DEF LifeIs
  <2>2. life.reported = Reported
    BY LifeFacts DEF LifeIs, Life
  <2>. QED  BY <2>1, <2>2 DEF MayBecome, Failed
<1>3. CASE ~(pc' = "killed" /\ ~Gone)
  <2>1. life'.st = life.st
    <3>1. CASE Waiting /\ Waiting'
      BY <3>1, LifeFacts DEF LifeIs
    <3>2. CASE ~Waiting /\ ~Gone /\ ~Waiting' /\ ~Gone'
      BY <1>1, <3>2, LifeFacts DEF LifeIs
    <3>3. CASE UNCHANGED <<pc, r>>
      BY <1>1, <3>3, LifeFacts DEF LifeIs, Waiting, Gone
    <3>. QED  BY <1>3, <3>1, <3>2, <3>3 DEF Gone
  <2>2. life' = life
    BY <1>1, <2>1, LifeFacts DEF LifeIs
  <2>. QED  BY <2>2 DEF MayBecome
<1>. QED  BY <1>2, <1>3

\* The report, to wait or to leave; the end of the wait; and the end.
LEMMA Reports ==
  ASSUME ~Reported, ~Waiting, ~Gone, Reported', pc' \in {"wait", "cleanup"}
  PROVE  life' \in MayBecome
<1>1. life.st = "work"
  BY LifeFacts DEF LifeIs
<1>2. Reported' = TRUE
  BY ReportedBoolean
<1>3. life' = Life("hold", TRUE) \/ life' = Life("leave", TRUE)
  BY <1>2, LifeFacts DEF LifeIs, Waiting, Gone
<1>. QED  BY <1>1, <1>3, NextLivesAre DEF MayBecome

LEMMA WaitEnds ==
  ASSUME Reported, Waiting, Reported', pc' = "unload", Asked
  PROVE  life' \in MayBecome
<1>1. life.st = "hold"
  BY LifeFacts DEF LifeIs
<1>2. Reported' = TRUE
  BY ReportedBoolean
<1>3. life' = Life("leave", TRUE)
  BY <1>2, LifeFacts DEF LifeIs, Waiting, Gone
<1>. QED  BY <1>1, <1>3, NextLivesAre DEF MayBecome

LEMMA Ends ==
  ASSUME ReportOK, Reported' <=> Reported, pc = "freed", pc' = "exited", r' = r
  PROVE  life' \in MayBecome
<1>1. Reported' = Reported
  BY ReportedBoolean
<1>2. life.st = IF Reported THEN "leave" ELSE "work"
  BY LifeFacts DEF LifeIs, Waiting, Gone
<1>3. CASE r = "oom"
  <2>1. life' = Life("failed", Reported) /\ life.reported = Reported
    BY <1>1, <1>3, LifeFacts DEF LifeIs, Life
  <2>. QED  BY <2>1 DEF MayBecome, Failed
<1>4. CASE r # "oom"
  <2>1. life' = Life("done", Reported)
    BY <1>1, <1>4, LifeFacts DEF LifeIs
  <2>2. CASE Reported
    <3>1. Reported = TRUE
      BY <2>2, ReportedBoolean
    <3>. QED  BY <1>2, <2>1, <2>2, <3>1, NextLivesAre DEF MayBecome
  <2>3. CASE ~Reported
    <3>1. Reported = FALSE
      BY <2>3, ReportedBoolean
    <3>. QED  BY <1>2, <2>1, <2>3, <3>1, NextLivesAre DEF MayBecome
  <2>. QED  BY <2>2, <2>3
<1>. QED  BY <1>3, <1>4

LEMMA LifeStep == LifeInv /\ [Next]_vars => life' \in MayBecome
<1>. SUFFICES ASSUME LifeInv, [Next]_vars PROVE life' \in MayBecome
  OBVIOUS
<1>0. UNCHANGED output => (Reported' <=> Reported)
  BY DEF Reported, output
\* Places that are no wait and no end, before and after; or the process is killed.
<1>1. CASE Start \/ CheckInterrupted \/ NothingLoaded \/ EndLoad
  <2>1. UNCHANGED output /\ ~Waiting /\ ~Gone /\ ~Waiting' /\ pc' # "exited"
    BY <1>1
    DEF Start, CheckInterrupted, NothingLoaded, EndLoad, Waiting, Gone, Stages, output
  <2>. QED  BY <1>0, <2>1, StaysOrFails
<1>2. CASE AddSubtitle \/ SubsDone \/ LoadCache \/ ScanFonts \/ LoadFonts \/ EndUnload
  <2>1. (Reported' <=> Reported) /\ pc' \in {"subs", "cleanup", "cache", "load", "scan", "loading",
                                              "freed", "killed"}
    BY <1>2, EmitQuiet, NoEvent
    DEF AddSubtitle, SubsDone, LoadCache, ScanFonts, LoadFonts, EndUnload
  <2>2. ~Waiting /\ ~Gone
    BY <1>2 DEF AddSubtitle, SubsDone, LoadCache, ScanFonts, LoadFonts, EndUnload, Waiting, Gone
  <2>. QED  BY <2>1, <2>2, StaysOrFails DEF Waiting
<1>3. CASE BeginUnload
  <2>1. (Reported' <=> Reported) /\ pc' \in {"unloading", "killed"}
    BY <1>0, <1>3, EmitQuiet, NoEvent DEF BeginUnload
  <2>2. ~Waiting /\ ~Gone
    BY <1>3 DEF BeginUnload, Waiting, Gone
  <2>. QED  BY <2>1, <2>2, StaysOrFails DEF Waiting
<1>4. CASE Results
  <2>1. (Reported' <=> Reported) /\ pc' \in {"ready", "killed"}
    BY <1>4, ResultsQuiet
  <2>2. ~Waiting /\ ~Gone
    BY <1>4 DEF Results, Waiting, Gone
  <2>. QED  BY <2>1, <2>2, StaysOrFails DEF Waiting
\* The report.
<1>5. CASE NothingNeeded \/ Ready
  <2>1. ~Reported /\ ~Waiting /\ ~Gone
    BY <1>5 DEF NothingNeeded, Ready, LifeInv, ReportOK, Stages, Waiting, Gone
  <2>2. \/ pc' \in {"wait", "cleanup"} /\ Reported'
        \/ pc' = "killed" /\ (Reported' <=> Reported)
    BY <1>5, EmitReadyReports DEF NothingNeeded, Ready
  <2>3. CASE pc' \in {"wait", "cleanup"} /\ Reported'
    BY <2>1, <2>3, Reports
  <2>4. CASE pc' = "killed" /\ (Reported' <=> Reported)
    BY <2>1, <2>4, StaysOrFails DEF Waiting
  <2>. QED  BY <2>2, <2>3, <2>4
\* The wait.
<1>6. CASE WaitTest \/ Select \/ ReadStdin
  <2>1. UNCHANGED output /\ Waiting
    BY <1>6 DEF WaitTest, Select, ReadStdin, Waiting
  <2>2. Waiting' \/ (pc' = "unload" /\ Asked)
    BY <1>6 DEF WaitTest, Select, ReadStdin, Waiting, Asked
  <2>3. CASE Waiting'
    BY <1>0, <2>1, <2>3, StaysOrFails
  <2>4. CASE pc' = "unload" /\ Asked
    BY <1>0, <2>1, <2>4, WaitEnds DEF LifeInv, ReportOK
  <2>. QED  BY <2>2, <2>3, <2>4
\* The end.
<1>7. CASE Exit
  <2>1. (Reported' <=> Reported) /\ pc' \in {"exited", "killed"}
    <3>1. CASE buf = << >>
      BY <1>0, <1>7, <3>1 DEF Exit
    <3>2. CASE Write(<< >>, "exited")
      BY <3>2, EmitQuiet, NoEvent DEF Emit
    <3>. QED  BY <1>7, <3>1, <3>2 DEF Exit
  <2>2. pc = "freed" /\ r' = r /\ ~Waiting /\ ~Gone
    BY <1>7 DEF Exit, locals, Waiting, Gone
  <2>3. CASE pc' = "exited"
    BY <2>1, <2>2, <2>3, Ends DEF LifeInv
  <2>4. CASE pc' = "killed"
    BY <2>1, <2>2, <2>4, StaysOrFails DEF Waiting
  <2>. QED  BY <2>1, <2>3, <2>4
\* The parent, and steps of the loader.
<1>8. CASE Signal
  <2>1. UNCHANGED output
    BY <1>8 DEF Signal
  <2>2. CASE pc' = "killed"
    BY <1>0, <1>8, <2>1, <2>2, StaysOrFails DEF Signal, Waiting, Gone
  <2>3. CASE pc = "blocked" /\ pc' = "wait"
    BY <1>0, <2>1, <2>3, StaysOrFails DEF Waiting
  <2>4. CASE UNCHANGED <<pc, r>>
    BY <1>0, <2>1, <2>4, StaysOrFails
  <2>. QED  BY <1>8, <2>2, <2>3, <2>4 DEF Signal, locals
<1>9. CASE \/ \E f \in Files : LoadFile(f) \/ UnloadFile(f)
           \/ CloseStdin \/ TypeOnStdin \/ CloseStdout \/ UNCHANGED vars
  <2>1. UNCHANGED <<pc, r>> /\ UNCHANGED output
    BY <1>9 DEF LoadFile, UnloadFile, CloseStdin, TypeOnStdin, CloseStdout, vars, locals
  <2>. QED  BY <1>0, <2>1, StaysOrFails
<1>. QED
  BY <1>1, <1>2, <1>3, <1>4, <1>5, <1>6, <1>7, <1>8, <1>9 DEF Next, Helper, Parent, Ended

\* Types, for any number of subtitles and files.
THEOREM HelperTypeCorrect == Spec => []TypeOK
<1>1. LifeInv => TypeOK
  BY DEF LifeInv
<1>. QED  BY <1>1, InitLifeInv, NextLifeInv, PTL DEF Spec

\* MacHelper implements the life of HelperLife: main_mac.c keeps to what FLManager.m
\* relies on, wherever signals, a closed stdin or a lost reader interrupt it.
THEOREM HelperKeepsLife == Spec => KeepsLife
<1>1. Init => life = Life("work", FALSE)
  <2>. SUFFICES ASSUME Init PROVE life = Life("work", FALSE)
    OBVIOUS
  <2>1. ~Reported /\ ~Waiting /\ ~Gone
    BY DEF Init, Reported, Waiting, Gone
  <2>2. Reported = FALSE
    BY <2>1, ReportedBoolean
  <2>. QED  BY <2>1, <2>2, LifeFacts DEF LifeIs
<1>2. LifeInv /\ [Next]_vars =>
        [life' \in {life, Failed(life)} \cup NextLives(life, interrupted \/ stdin = "eof")]_vars
  BY LifeStep DEF MayBecome, Asked
<1>. QED  BY <1>1, <1>2, InitLifeInv, NextLifeInv, PTL DEF Spec, KeepsLife
=============================================================================
