-------------------------- MODULE MacSessionProofs --------------------------
(***************************************************************************)
(* Theorems about MacSession, for any number of loads.                     *)
(***************************************************************************)
EXTENDS MacSession, SequenceTheorems, FiniteSetTheorems, TLAPS

Parsing == INSTANCE FoldFacts WITH Op <- AddPart
Telling == INSTANCE FoldFacts WITH Op <- TellEvent

-----------------------------------------------------------------------------
(***************************************************************************)
(* What the operators on data return                                       *)
(***************************************************************************)
Parsed == [open : Seq(PartsOf), events : Seq(Events)]

\* Parsing gives complete events, and keeps parts of a line.
LEMMA ParseType ==
  ASSUME NEW open \in Seq(PartsOf), NEW data \in Seq(PartsOf)
  PROVE  Parse(open, data) \in Parsed
<1> DEFINE base == [open |-> open, events |-> << >>]
<1>1. base \in Parsed
  BY DEF Parsed
<1>2. ASSUME NEW acc \in Parsed, NEW part \in PartsOf  PROVE AddPart(acc, part) \in Parsed
  <2>1. acc.open \in Seq(PartsOf) /\ acc.events \in Seq(Events) /\ part.event \in Events
    BY DEF Parsed, PartsOf
  <2>2. CASE part.nl
    <3> DEFINE said == IF acc.open = <<Part(part.event, FALSE)>>
                         THEN Append(acc.events, part.event) ELSE acc.events
    <3>1. Append(acc.events, part.event) \in Seq(Events) /\ << >> \in Seq(PartsOf)
      BY <2>1
    <3>2. said \in Seq(Events)
      BY <2>1, <3>1
    <3>3. AddPart(acc, part) = [open |-> << >>, events |-> said]
      BY <2>2 DEF AddPart
    <3>. HIDE DEF said
    <3>. QED  BY <3>1, <3>2, <3>3 DEF Parsed
  <2>3. CASE ~part.nl
    <3>1. Append(acc.open, part) \in Seq(PartsOf)
      BY <2>1
    <3>2. AddPart(acc, part) = [acc EXCEPT !.open = Append(acc.open, part)]
      BY <2>3 DEF AddPart
    <3>. QED  BY <2>1, <3>1, <3>2 DEF Parsed
  <2>. QED  BY <2>2, <2>3
<1>3. Parsing!Fold(base, data) \in Parsed
  <2>. HIDE DEF base
  <2>. QED  BY <1>1, <1>2, Parsing!FoldKeeps
<1>4. Parse(open, data) = Parsing!Fold(base, data)
  BY DEF Parse, Parsing!Fold, FoldLeft, Parsing!FoldLeft, MapThenFoldSet,
         Parsing!MapThenFoldSet, Max, Parsing!Max
<1>. QED  BY <1>3, <1>4

Telltale == [fonts : Seq(Events), readies : Seq(Events), loaded : Nat]

\* What events tell: the fonts, the reports of being ready, and a number.
LEMMA ToldType ==
  ASSUME NEW n \in Nat, NEW events \in Seq(Events)
  PROVE  Told(n, events) \in Telltale
<1> DEFINE base == [fonts |-> << >>, readies |-> << >>, loaded |-> n]
<1>1. base \in Telltale
  BY DEF Telltale
<1>2. ASSUME NEW told \in Telltale, NEW event \in Events
      PROVE  TellEvent(told, event) \in Telltale
  <2>1. /\ told.fonts \in Seq(Events) /\ told.readies \in Seq(Events) /\ told.loaded \in Nat
        /\ event.loaded \in Nat
    BY DEF Telltale, Events
  <2>2. /\ Append(told.fonts, event) \in Seq(Events) /\ Append(told.readies, event) \in Seq(Events)
        /\ told.loaded + event.loaded \in Nat
    BY <2>1
  <2>3. CASE event.event = "font"
    <3>1. TellEvent(told, event) = [told EXCEPT !.fonts = Append(told.fonts, event),
                                                !.loaded = told.loaded + event.loaded]
      BY <2>3 DEF TellEvent
    <3>. QED  BY <2>1, <2>2, <3>1 DEF Telltale
  <2>4. CASE event.event # "font"
    <3>1. TellEvent(told, event) = [told EXCEPT !.readies = Append(told.readies, event),
                                                !.loaded = event.loaded]
      BY <2>4 DEF TellEvent
    <3>. QED  BY <2>1, <2>2, <3>1 DEF Telltale
  <2>. QED  BY <2>3, <2>4
<1>3. Telling!Fold(base, events) \in Telltale
  <2>. HIDE DEF base
  <2>. QED  BY <1>1, <1>2, Telling!FoldKeeps
<1>4. Told(n, events) = Telling!Fold(base, events)
  BY DEF Told, Telling!Fold, FoldLeft, Telling!FoldLeft, MapThenFoldSet,
         Telling!MapThenFoldSet, Max, Telling!Max
<1>. QED  BY <1>3, <1>4

\* A report is made of parts.
LEMMA PartsType ==
  ASSUME NEW events \in Seq(Events)
  PROVE  Parts(events) \in Seq(PartsOf)
<1>1. Len(events) \in Nat /\ 2 * Len(events) \in Nat
  OBVIOUS
<1>2. ASSUME NEW i \in 1 .. 2 * Len(events)
      PROVE  Part(events[(i + 1) \div 2], i % 2 = 0) \in PartsOf
  <2>1. (i + 1) \div 2 \in 1 .. Len(events)
    BY <1>1
  <2>2. events[(i + 1) \div 2] \in Events
    BY <2>1
  <2>. QED  BY <2>2 DEF Part, PartsOf
<1>. QED  BY <1>1, <1>2 DEF Parts

LEMMA ReportsType ==
  ASSUME NEW life \in Lives, NEW said \in Reports(life)
  PROVE  said \in Seq(PartsOf)
<1>1. Font(1) \in Events /\ ReadyEvent(1) \in Events /\ ReadyEvent(0) \in Events
  BY DEF Font, ReadyEvent, Events
<1>2. /\ <<Font(1), ReadyEvent(1)>> \in Seq(Events)
      /\ <<ReadyEvent(0)>> \in Seq(Events)
  BY <1>1
<1>3. /\ Parts(<<Font(1), ReadyEvent(1)>>) \in Seq(PartsOf)
      /\ Parts(<<ReadyEvent(0)>>) \in Seq(PartsOf)
      /\ Len(Parts(<<Font(1), ReadyEvent(1)>>)) = 4
  <2>1. Len(<<Font(1), ReadyEvent(1)>>) = 2
    OBVIOUS
  <2>2. Len(Parts(<<Font(1), ReadyEvent(1)>>)) = 2 * 2
    BY <2>1 DEF Parts
  <2>3. \A events \in Seq(Events) : Parts(events) \in Seq(PartsOf)
    BY PartsType
  <2>. QED  BY <1>2, <2>2, <2>3, 2 * 2 = 4, Zenon
<1>4. \A n \in {0, 3} : SubSeq(Parts(<<Font(1), ReadyEvent(1)>>), 1, n) \in Seq(PartsOf)
  BY <1>3
<1>5. CASE life.st = "hold"
  BY <1>3, <1>5 DEF Reports
<1>6. CASE life.st = "leave"
  BY <1>3, <1>6 DEF Reports
<1>7. CASE life.st = "failed"
  BY <1>4, <1>7 DEF Reports
<1>8. CASE life.st \notin {"hold", "leave", "failed"}
  <2>1. said \in {<< >>}
    BY <1>8 DEF Reports
  <2>. QED  BY <2>1
<1>. QED  BY <1>5, <1>6, <1>7, <1>8

\* A load is completed at most once.
LEMMA CompletionIs ==
  ASSUME NEW g \in Gens, NEW readies \in Seq(Events), NEW n \in Nat, NEW last \in BOOLEAN
  PROVE  \/ Completion(g, readies, n, last) = << >>
         \/ /\ g \notin sent
            /\ \E r \in Results : r.gen = g /\ Completion(g, readies, n, last) = <<r>>
<1>1. \A result \in {"loaded", "failed"}, k \in Nat :
        Finish(g, result, k) \in Results /\ Finish(g, result, k).gen = g
  BY DEF Finish, Results
<1>2. CASE g \in sent
  BY <1>2 DEF Completion
<1>3. CASE g \notin sent /\ readies # << >>
  <2>1. Head(readies).loaded \in Nat
    <3>1. Head(readies) \in Events
      BY <1>3
    <3>. QED  BY <3>1 DEF Events
  <2>2. Completion(g, readies, n, last) = <<Finish(g, "loaded", Head(readies).loaded)>>
    BY <1>3 DEF Completion
  <2>. QED  BY <1>1, <1>3, <2>1, <2>2
<1>4. CASE g \notin sent /\ readies = << >> /\ last /\ ~ready
  <2>1. Completion(g, readies, n, last) = ByStatus(g, n)
    BY <1>4 DEF Completion
  <2>2. \/ ByStatus(g, n) = <<Finish(g, "loaded", n)>>
        \/ ByStatus(g, n) = <<Finish(g, "failed", 0)>>
    BY DEF ByStatus
  <2>. QED  BY <1>1, <1>4, <2>1, <2>2
<1>5. CASE g \notin sent /\ readies = << >> /\ ~(last /\ ~ready)
  BY <1>5 DEF Completion
<1>. QED  BY <1>2, <1>3, <1>4, <1>5

Lines(g) == [gen : {g}, event : Events]

\* A block that processes output adds lines of its own load, and at most the one
\* result of that load.
LEMMA ProcessIs ==
  ASSUME TypeOK, NEW g \in Gens, NEW events \in Seq(Events), NEW last \in BOOLEAN,
         Process(g, events, last)
  PROVE  /\ \E new \in Seq(Lines(g)) : details' = details \o new
         /\ \/ mainQueue' = mainQueue /\ sent' = sent
            \/ /\ g \notin sent /\ sent' = sent \cup {g}
               /\ \E r \in Results : r.gen = g /\ mainQueue' = Append(mainQueue, r)
         /\ last => ClearTask
         /\ ~last => counted' \in Nat /\ ready' \in BOOLEAN /\ status' = status
         /\ block' = NoBlock
         /\ UNCHANGED <<generation, state, numLoaded, mainThread, helper, inHand>>
<1> DEFINE told == Told(counted, events)
           done == Completion(g, told.readies, told.loaded, last)
           new == [i \in DOMAIN told.fonts |-> [gen |-> g, event |-> told.fonts[i]]]
<1>1. told \in Telltale
  BY ToldType DEF TypeOK
<1>2. /\ told.fonts \in Seq(Events) /\ told.readies \in Seq(Events) /\ told.loaded \in Nat
  BY <1>1 DEF Telltale
<1>3. new \in Seq(Lines(g))
  <2>1. \A i \in 1 .. Len(told.fonts) : [gen |-> g, event |-> told.fonts[i]] \in Lines(g)
    BY <1>2 DEF Lines
  <2>2. DOMAIN told.fonts = 1 .. Len(told.fonts) /\ Len(told.fonts) \in Nat
    BY <1>2
  <2>. HIDE DEF told
  <2>. QED  BY <2>1, <2>2
<1>4. \/ done = << >>
      \/ g \notin sent /\ \E r \in Results : r.gen = g /\ done = <<r>>
  <2>. HIDE DEF told
  <2>. QED  BY <1>2, CompletionIs
<1>5. /\ details' = details \o new
      /\ IF last THEN ClearTask
         ELSE counted' = told.loaded /\ ready' = (ready \/ told.readies # << >>) /\ UNCHANGED status
      /\ sent' = IF done = << >> THEN sent ELSE sent \cup {g}
      /\ mainQueue' = mainQueue \o done
      /\ block' = NoBlock
      /\ UNCHANGED <<generation, state, numLoaded, mainThread, helper, inHand>>
  BY Zenon DEF Process
<1>6. ready \in BOOLEAN /\ mainQueue \in Seq(Results)
  BY DEF TypeOK
<1>. HIDE DEF told, done, new
<1>7. CASE done = << >>
  <2>1. mainQueue' = mainQueue /\ sent' = sent
    BY <1>5, <1>6, <1>7
  <2>. QED  BY <1>2, <1>3, <1>5, <1>6, <2>1
<1>8. CASE g \notin sent /\ \E r \in Results : r.gen = g /\ done = <<r>>
  <2>1. PICK r \in Results : r.gen = g /\ done = <<r>>
    BY <1>8
  <2>2. mainQueue \o <<r>> = Append(mainQueue, r) /\ <<r>> # << >>
    BY <1>6
  <2>3. mainQueue' = Append(mainQueue, r) /\ sent' = sent \cup {g}
    BY <1>5, <2>1, <2>2
  <2>. QED  BY <1>2, <1>3, <1>5, <1>6, <1>8, <2>1, <2>3
<1>. QED  BY <1>4, <1>7, <1>8

\* A sequence over a set is one over a larger set.
LEMMA SeqOfMore ==
  ASSUME NEW S, NEW T, S \subseteq T, NEW s \in Seq(S)
  PROVE  s \in Seq(T)
<1>1. \A i \in 1 .. Len(s) : s[i] \in T
  OBVIOUS
<1>. QED  BY <1>1

\* What such a block writes has the right type.
LEMMA ProcessType ==
  ASSUME TypeOK, NEW g \in Gens, NEW events \in Seq(Events), NEW last \in BOOLEAN,
         Process(g, events, last)
  PROVE  /\ details' \in Seq([gen : Gens, event : Events])
         /\ mainQueue' \in Seq(Results) /\ sent' \subseteq Gens
         /\ ~last => counted' \in Nat /\ ready' \in BOOLEAN /\ status' = status
<1>1. /\ \E new \in Seq(Lines(g)) : details' = details \o new
      /\ \/ mainQueue' = mainQueue /\ sent' = sent
         \/ /\ g \notin sent /\ sent' = sent \cup {g}
            /\ \E r \in Results : r.gen = g /\ mainQueue' = Append(mainQueue, r)
      /\ ~last => counted' \in Nat /\ ready' \in BOOLEAN /\ status' = status
  BY ProcessIs
<1>2. /\ details \in Seq([gen : Gens, event : Events])
      /\ mainQueue \in Seq(Results) /\ sent \subseteq Gens
  BY DEF TypeOK
<1>3. PICK new \in Seq(Lines(g)) : details' = details \o new
  BY <1>1
<1>4. new \in Seq([gen : Gens, event : Events])
  <2>1. Lines(g) \subseteq [gen : Gens, event : Events]
    BY DEF Lines
  <2>. QED  BY <2>1, SeqOfMore
<1>5. details' \in Seq([gen : Gens, event : Events])
  BY <1>2, <1>3, <1>4
<1>6. mainQueue' \in Seq(Results) /\ sent' \subseteq Gens
  <2>1. CASE mainQueue' = mainQueue /\ sent' = sent
    BY <1>2, <2>1
  <2>2. CASE /\ sent' = sent \cup {g}
             /\ \E r \in Results : mainQueue' = Append(mainQueue, r)
    BY <1>2, <2>2
  <2>. QED  BY <1>1, <2>1, <2>2
<1>. QED  BY <1>1, <1>5, <1>6

-----------------------------------------------------------------------------
(***************************************************************************)
(* The inductive invariant.  It speaks of blocks by their kind and their   *)
(* load, wherever they are: on the queue, running, or about to be          *)
(* dispatched.                                                             *)
(***************************************************************************)
Is(b, kinds, g) == b.kind \in kinds /\ b.gen = g
Holds(q, kinds, g) == \E i \in DOMAIN q : Is(q[i], kinds, g)
Waits(kinds, g) == Holds(queue, kinds, g) \/ Is(block, kinds, g) \/ Is(inHand, kinds, g)

TaskKinds == {"chunk", "term", "drain"}

Pending(g) == Waits({"load"}, g)
Ending(g) == Waits({"term", "drain"}, g)

\* What a load has left once its helper has been started.
Traces(g) == Waits(TaskKinds, g) \/ helper[g].st # "none" \/ task = g

\* b may come before c: loads are in order, nothing is loaded behind a stop, and
\* a task ends once.
Precedes(b, c) ==
  /\ b.kind = "load" /\ c.kind = "load" => b.gen < c.gen
  /\ b.kind = "stop" => c.kind \notin {"load", "stop"}
  /\ b.kind \in {"term", "drain"} /\ c.kind \in {"term", "drain"} => b.gen # c.gen
Ordered(q) == \A i, j \in DOMAIN q : i < j => Precedes(q[i], q[j])
Follows(b, q) == \A j \in DOMAIN q : Precedes(b, q[j])

QueueOK == Ordered(queue) /\ Follows(block, queue)

\* Only the blocks of unloadFonts and cancel have no load.
KindsOK ==
  /\ inHand = NoBlock \/ inHand.kind = "chunk"
  /\ ~Waits(TaskKinds \cup {"load"}, 0)
  /\ \A g \in Gens : ~Waits({"stop"}, g)

\* A load leaves traces only after its block has run, and blocks run in order: the
\* task is of the last load that left any.
OrderOK ==
  /\ \A g \in Gens : Pending(g) \/ Traces(g) => g <= loads
  /\ \A g, p \in Gens : Traces(g) /\ Pending(p) => g < p
  /\ task # 0 => \A g \in Gens : Traces(g) => g <= task

\* The helper of the task is the only one that runs, its end is told once, and a
\* block that works for a task works for the one that is there.
HelperOK ==
  /\ \A g \in Gens : Runs(helper[g]) => g = task
  /\ \A g \in Gens : Ending(g) => helper[g].st = "none"
  /\ block.kind \in TaskKinds => block.gen = task

\* The task of the last load is there until its last block; when the main thread
\* waits or has ended, no load is the last one.
CurrentOK ==
  /\ \A g \in Gens : g = generation /\ (Ending(g) \/ helper[g].st # "none") => task = g
  /\ main # "idle" => generation = 0

\* Only a main thread that waits has a block to wait for ...
StopOK == main # "sync" => ~Waits({"stop"}, 0)

\* ... and when that has run, there is nothing left until the next load.
QuietOK ==
  main \in {"after", "gone"} \/ (main = "idle" /\ state = "idle") =>
    \A g \in Gens : ~Runs(helper[g]) /\ ~Pending(g)

\* Nothing more will be told of load g.
Settled(g) ==
  /\ g <= loads
  /\ \A p \in Gens : Pending(p) => g < p
  /\ g \in sent \/ ~Traces(g)

ResultOK ==
  /\ \A i \in DOMAIN mainQueue : \A g \in Gens : mainQueue[i].gen = g => Settled(g)
  /\ \A i \in DOMAIN mainQueue : mainQueue[i].state = "loaded" => mainQueue[i].gen \in sent
  /\ \A i, j \in DOMAIN mainQueue : i < j => mainQueue[i].gen # mainQueue[j].gen

ShownOK ==
  main = "idle" /\ state \in {"loaded", "failed"} =>
    /\ generation # 0
    /\ \A g \in Gens : generation = g => Settled(g)
    /\ \A i \in DOMAIN mainQueue : mainQueue[i].gen # generation
    /\ state = "loaded" => generation \in sent

Protocol ==
  /\ KindsOK /\ QueueOK /\ OrderOK /\ HelperOK /\ CurrentOK
  /\ StopOK /\ QuietOK /\ ResultOK /\ ShownOK

IInv == TypeOK /\ Protocol

\* The block that runs belongs to a load or stops one.
LEMMA BlockIs ==
  ASSUME TypeOK, KindsOK, HelperOK
  PROVE  /\ block.kind \in TaskKinds => block \in Blocks /\ block.gen \in Gens /\ task = block.gen
         /\ block.kind = "load" => block \in Blocks /\ block.gen \in Gens
         /\ block.kind = "stop" => block \in Blocks /\ block.gen = 0
         /\ inHand # NoBlock => inHand \in Blocks /\ inHand.gen \in Gens /\ inHand.kind = "chunk"
         /\ \A i \in 1 .. Len(queue) :
              /\ queue[i] \in Blocks
              /\ queue[i].kind \in TaskKinds \cup {"load"} => queue[i].gen \in Gens
              /\ queue[i].kind = "stop" => queue[i].gen = 0
<1>1. /\ block \in Blocks \cup {NoBlock} /\ inHand \in Blocks \cup {NoBlock}
      /\ queue \in Seq(Blocks)
  BY DEF TypeOK
<1>2. \A b \in Blocks : b.gen \in Gens \cup {0}
  BY DEF Blocks
<1>3. /\ NoBlock.kind = "none" /\ "none" \notin TaskKinds \cup {"load", "stop"}
      /\ "chunk" \in TaskKinds
  BY DEF NoBlock, TaskKinds
<1>4. \A i \in 1 .. Len(queue) : queue[i] \in Blocks /\ i \in DOMAIN queue
  BY <1>1
<1>5. block.kind \in TaskKinds => block.gen = task
  BY DEF HelperOK
<1>6. /\ inHand = NoBlock \/ inHand.kind = "chunk"
      /\ ~Is(block, TaskKinds \cup {"load"}, 0) /\ ~Is(inHand, TaskKinds \cup {"load"}, 0)
      /\ \A i \in DOMAIN queue : ~Is(queue[i], TaskKinds \cup {"load"}, 0)
      /\ \A g \in Gens : ~Is(block, {"stop"}, g)
      /\ \A g \in Gens : \A i \in DOMAIN queue : ~Is(queue[i], {"stop"}, g)
  BY DEF KindsOK, Waits, Holds
<1>. QED  BY <1>1, <1>2, <1>3, <1>4, <1>5, <1>6 DEF Is

-----------------------------------------------------------------------------
(***************************************************************************)
(* Type correctness                                                        *)
(***************************************************************************)
\* The blocks that the code makes.
LEMMA BlockType ==
  /\ \A kind \in {"load", "stop", "chunk", "term", "drain"}, g \in Gens \cup {0},
        data \in Seq(PartsOf) : Block(kind, g, data) \in Blocks
  /\ << >> \in Seq(PartsOf)
  BY DEF Block, Blocks

\* The lives a helper takes up are lives.
LEMMA LivesType ==
  /\ \A life \in Lives, asked \in BOOLEAN : NextLives(life, asked) \subseteq Lives
  /\ \A life \in Lives : Failed(life) \in Lives
  /\ \A reported \in BOOLEAN : Life("work", reported) \in Lives /\ Life("none", reported) \in Lives
<1>1. \A st \in LifeStates, reported \in BOOLEAN : Life(st, reported) \in Lives
  BY DEF Life, Lives
<1>2. ASSUME NEW life \in Lives, NEW asked \in BOOLEAN
      PROVE  NextLives(life, asked) \subseteq Lives
  <2>1. /\ Life("hold", TRUE) \in Lives /\ Life("leave", TRUE) \in Lives
        /\ Life("done", TRUE) \in Lives /\ Life("done", FALSE) \in Lives
    BY <1>1 DEF LifeStates
  <2>2. CASE life.st = "work"
    BY <2>1, <2>2 DEF NextLives
  <2>3. CASE life.st = "hold"
    BY <2>1, <2>3 DEF NextLives
  <2>4. CASE life.st = "leave"
    BY <2>1, <2>4 DEF NextLives
  <2>5. CASE life.st \notin {"work", "hold", "leave"}
    BY <2>5 DEF NextLives
  <2>. QED  BY <2>2, <2>3, <2>4, <2>5
<1>. QED  BY <1>1, <1>2 DEF Failed, LifeStates, Lives

\* Becoming something else changes the life of the helper and what its pipe holds.
LEMMA BecomeType ==
  ASSUME TypeOK, NEW g \in Gens, NEW life \in Lives, Become(g, life)
  PROVE  /\ helper' = [helper EXCEPT ![g] = life]
         /\ helper' \in [Gens -> Lives] /\ pipe' \in [Gens -> Seq(PartsOf)]
         /\ UNCHANGED <<public, mainThread, mainQueue, queue, block, taskVars, blockVars, inHand>>
<1>1. helper \in [Gens -> Lives] /\ pipe \in [Gens -> Seq(PartsOf)]
  BY DEF TypeOK
<1>2. PICK said \in IF helper[g].st = "work" THEN Reports(life) ELSE {<< >>} :
        pipe' = [pipe EXCEPT ![g] = @ \o said]
  BY DEF Become
<1>3. said \in Seq(PartsOf)
  <2>1. CASE helper[g].st = "work"
    BY <1>2, <2>1, ReportsType
  <2>2. CASE helper[g].st # "work"
    BY <1>2, <2>2
  <2>. QED  BY <2>1, <2>2
<1>4. pipe[g] \o said \in Seq(PartsOf)
  BY <1>1, <1>3
<1>. QED  BY <1>1, <1>2, <1>4 DEF Become

\* What is left in the buffer is an event, or none.
LEMMA DrainEvents ==
  ASSUME TypeOK, NEW events \in {<< >>} \cup {<<part.event>> : part \in Range(buffer)}
  PROVE  events \in Seq(Events)
<1>1. \A i \in DOMAIN buffer : buffer[i] \in PartsOf
  BY DEF TypeOK
<1>2. ASSUME NEW part \in Range(buffer)  PROVE <<part.event>> \in Seq(Events)
  <2>1. part.event \in Events
    BY <1>1 DEF Range, PartsOf
  <2>. QED  BY <2>1
<1>3. CASE events = << >>
  BY <1>3
<1>4. CASE events \in {<<part.event>> : part \in Range(buffer)}
  <2>1. PICK part \in Range(buffer) : events = <<part.event>>
    BY <1>4
  <2>. QED  BY <1>2, <2>1, Zenon
<1>. QED  BY <1>3, <1>4

\* A step keeps the types.
LEMMA NextTypeOK ==
  ASSUME TypeOK, KindsOK, HelperOK, [Next]_vars
  PROVE  TypeOK'
<1>. USE SessionAssumption
<1>0. /\ queue \in Seq(Blocks) /\ mainQueue \in Seq(Results)
      /\ block \in Blocks \cup {NoBlock} /\ inHand \in Blocks \cup {NoBlock}
      /\ details \in Seq([gen : Gens, event : Events])
      /\ buffer \in Seq(PartsOf) /\ pipe \in [Gens -> Seq(PartsOf)]
      /\ helper \in [Gens -> Lives] /\ task \in Gens \cup {0}
      /\ loads \in 0 .. MaxLoads /\ generation \in {0, loads} /\ numLoaded \in Nat
  BY DEF TypeOK
<1>1. ASSUME BeginLoad, UNCHANGED <<mainQueue, block, taskVars, blockVars, process, inHand>>,
             main' \in {"idle", "gone"}
      PROVE  TypeOK'
  <2>1. loads' \in Gens /\ loads' \in 0 .. MaxLoads /\ generation' = loads'
    BY <1>0, <1>1 DEF BeginLoad, Gens
  <2>2. Block("load", generation', << >>) \in Blocks
    BY <2>1, BlockType
  <2>3. queue' \in Seq(Blocks)
    BY <1>0, <1>1, <2>2 DEF BeginLoad
  <2>. QED  BY <1>1, <2>1, <2>3
            DEF TypeOK, BeginLoad, taskVars, blockVars, process
<1>2. CASE Load
  BY <1>1, <1>2 DEF Load
<1>3. CASE Unload
  <2>1. queue' \in Seq(Blocks)
    <3>1. Block("stop", 0, << >>) \in Blocks
      BY BlockType
    <3>. QED  BY <1>0, <1>3, <3>1 DEF Unload
  <2>. QED  BY <1>3, <2>1 DEF TypeOK, Unload, taskVars, blockVars, process
<1>4. CASE Unloaded
  <2>1. CASE /\ main' \in {"idle", "gone"}
             /\ state' = "idle" /\ numLoaded' = 0
             /\ UNCHANGED <<generation, details, loads, queue>>
    BY <1>4, <2>1 DEF TypeOK, Unloaded, taskVars, blockVars, process
  <2>. QED  BY <1>1, <1>4, <2>1 DEF Unloaded
<1>5. CASE RunFinish
  <2>1. /\ Head(mainQueue) \in Results /\ mainQueue' \in Seq(Results)
    BY <1>0, <1>5 DEF RunFinish
  <2>2. /\ state' \in {"idle", "loading", "loaded", "failed"} /\ numLoaded' \in Nat
    BY <1>5, <2>1 DEF RunFinish, Results, TypeOK
  <2>. QED  BY <1>5, <2>1, <2>2 DEF TypeOK, RunFinish, taskVars, blockVars, process, mainThread
<1>6. CASE Read
  <2>1. task \in Gens
    BY <1>6 DEF Read, TypeOK
  <2>2. PICK n \in 1 .. Len(pipe[task]) :
          /\ inHand' = Block("chunk", task, SubSeq(pipe[task], 1, n))
          /\ pipe' = [pipe EXCEPT ![task] = SubSeq(@, n + 1, Len(@))]
    BY <1>6 DEF Read
  <2>3. /\ SubSeq(pipe[task], 1, n) \in Seq(PartsOf)
        /\ SubSeq(pipe[task], n + 1, Len(pipe[task])) \in Seq(PartsOf)
    BY <1>0, <2>1
  <2>4. inHand' \in Blocks
    BY <2>1, <2>2, <2>3, BlockType
  <2>5. pipe' \in [Gens -> Seq(PartsOf)]
    BY <1>0, <2>2, <2>3
  <2>. QED  BY <1>6, <2>4, <2>5 DEF TypeOK, Read, public, mainThread, blockVars
<1>7. CASE Dispatch
  <2>1. queue' \in Seq(Blocks)
    BY <1>0, <1>7 DEF Dispatch
  <2>. QED  BY <1>7, <2>1
            DEF TypeOK, Dispatch, public, mainThread, taskVars, blockVars, process
<1>8. ASSUME NEW g \in Gens, TerminationHandler(g)  PROVE TypeOK'
  <2>1. helper[g] \in Lives /\ helper[g].reported \in BOOLEAN
    BY <1>0 DEF Lives
  <2>2. helper' \in [Gens -> Lives]
    BY <1>0, <1>8, <2>1, LivesType DEF TerminationHandler
  <2>3. queue' \in Seq(Blocks)
    <3>1. Block("term", g, << >>) \in Blocks
      BY BlockType
    <3>. QED  BY <1>0, <1>8, <3>1 DEF TerminationHandler
  <2>4. status' \in {"none", "done", "failed"}
    BY <1>8 DEF TerminationHandler, HasEnded, TypeOK
  <2>. QED  BY <1>8, <2>2, <2>3, <2>4 DEF TypeOK, TerminationHandler, public, mainThread, blockVars
<1>9. CASE TakeBlock
  <2>1. Head(queue) \in Blocks /\ queue' \in Seq(Blocks)
    BY <1>0, <1>9 DEF TakeBlock, Queue
  <2>2. block' \in Blocks \cup {NoBlock}
    BY <1>9, <2>1 DEF TakeBlock
  <2>. QED  BY <1>9, <2>1, <2>2
            DEF TypeOK, TakeBlock, public, mainThread, taskVars, blockVars, process
<1>10. CASE AppendChunk
  <2> DEFINE parsed == Parse(buffer, block.data)
  <2>1. block \in Blocks /\ task = block.gen /\ block.gen \in Gens
    BY <1>10, BlockIs DEF AppendChunk, TaskKinds
  <2>2. block.gen \in Gens /\ block.data \in Seq(PartsOf) /\ task # 0
    BY <2>1 DEF Blocks, Gens
  <2>3. parsed.events \in Seq(Events) /\ parsed.open \in Seq(PartsOf)
    BY <1>0, <2>2, ParseType DEF Parsed
  <2>4. /\ Process(block.gen, parsed.events, FALSE) /\ buffer' = parsed.open
        /\ UNCHANGED <<queue, task, reading, cut, pipe>>
    BY <1>10 DEF AppendChunk
  <2>. HIDE DEF parsed
  <2>5. /\ details' \in Seq([gen : Gens, event : Events])
        /\ mainQueue' \in Seq(Results) /\ sent' \subseteq Gens
        /\ counted' \in Nat /\ ready' \in BOOLEAN /\ status' = status
    BY <2>2, <2>3, <2>4, ProcessType
  <2>6. /\ block' = NoBlock
        /\ UNCHANGED <<generation, state, numLoaded, mainThread, helper, inHand>>
    BY <2>4 DEF Process
  <2>. QED  BY <2>2, <2>3, <2>4, <2>5, <2>6 DEF TypeOK, mainThread
<1>11. CASE ReadRest
  <2> DEFINE parsed == Parse(buffer, pipe[block.gen])
  <2>1. block \in Blocks /\ task = block.gen /\ block.gen \in Gens
    BY <1>11, BlockIs DEF ReadRest, TaskKinds
  <2>2. block.gen \in Gens /\ pipe[block.gen] \in Seq(PartsOf) /\ task # 0
    BY <1>0, <2>1 DEF Gens
  <2>3. parsed.events \in Seq(Events) /\ parsed.open \in Seq(PartsOf)
    BY <1>0, <2>2, ParseType DEF Parsed
  <2>4. /\ Process(block.gen, parsed.events, FALSE) /\ buffer' = parsed.open
        /\ pipe' = [pipe EXCEPT ![block.gen] = << >>]
        /\ reading' = FALSE
        /\ queue' = Append(queue, Block("drain", block.gen, << >>))
        /\ UNCHANGED <<task, cut>>
    BY <1>11 DEF ReadRest
  <2>. HIDE DEF parsed
  <2>5. /\ details' \in Seq([gen : Gens, event : Events])
        /\ mainQueue' \in Seq(Results) /\ sent' \subseteq Gens
        /\ counted' \in Nat /\ ready' \in BOOLEAN /\ status' = status
    BY <2>2, <2>3, <2>4, ProcessType
  <2>6. /\ block' = NoBlock
        /\ UNCHANGED <<generation, state, numLoaded, mainThread, helper, inHand>>
    BY <2>4 DEF Process
  <2>7. queue' \in Seq(Blocks)
    <3>1. Block("drain", block.gen, << >>) \in Blocks
      BY <2>2, BlockType
    <3>. QED  BY <1>0, <2>4, <3>1
  <2>8. pipe' \in [Gens -> Seq(PartsOf)]
    BY <1>0, <2>2, <2>4, BlockType
  <2>. QED  BY <2>2, <2>3, <2>4, <2>5, <2>6, <2>7, <2>8 DEF TypeOK, mainThread
<1>12. ASSUME ClearTask
       PROVE  /\ task' = 0 /\ reading' = FALSE /\ cut' = FALSE /\ buffer' = << >>
              /\ ready' = FALSE /\ counted' = 0 /\ status' = "none"
              /\ pipe' \in [Gens -> Seq(PartsOf)]
  BY <1>12, BlockType DEF ClearTask
<1>13. CASE Drain
  <2>1. block \in Blocks /\ block.gen \in Gens
    BY <1>13, BlockIs DEF Drain, TaskKinds
  <2>2. PICK events \in {<< >>} \cup {<<part.event>> : part \in Range(buffer)} :
          Process(block.gen, events, TRUE)
    BY <1>13 DEF Drain
  <2>3. events \in Seq(Events)
    BY <2>2, DrainEvents
  <2>4. /\ details' \in Seq([gen : Gens, event : Events])
        /\ mainQueue' \in Seq(Results) /\ sent' \subseteq Gens
    BY <2>1, <2>2, <2>3, ProcessType
  <2>5. /\ block' = NoBlock /\ ClearTask
        /\ UNCHANGED <<generation, state, numLoaded, mainThread, helper, inHand>>
    BY <2>1, <2>2, <2>3, ProcessIs
  <2>6. queue' = queue
    BY <1>13 DEF Drain
  <2>. QED  BY <1>12, <2>4, <2>5, <2>6 DEF TypeOK, mainThread
<1>14. CASE BeginTerminate
  <2>1. Head(queue) \in Blocks /\ queue' \in Seq(Blocks)
    BY <1>0, <1>14 DEF BeginTerminate, Queue
  <2>2. block' \in Blocks
    BY <1>14, <2>1 DEF BeginTerminate, Blocks
  <2>. QED  BY <1>14, <2>1, <2>2
            DEF TypeOK, BeginTerminate, public, mainThread, taskVars, blockVars
<1>15. CASE Escalate
  <2>1. block \in Blocks
    BY <1>0, <1>15 DEF Escalate, NoBlock
  <2>2. block' \in Blocks
    BY <1>15, <2>1 DEF Escalate, Blocks
  <2>. QED  BY <1>15, <2>2
            DEF TypeOK, Escalate, public, mainThread, taskVars, blockVars, process
<1>16. ASSUME NEW g \in Gens, NEW life \in Lives, Become(g, life)  PROVE TypeOK'
  <2>1. /\ helper' \in [Gens -> Lives] /\ pipe' \in [Gens -> Seq(PartsOf)]
        /\ UNCHANGED <<public, mainThread, mainQueue, queue, block, taskVars, blockVars, inHand>>
    BY <1>16, BecomeType
  <2>. QED  BY <2>1 DEF TypeOK, public, mainThread, taskVars, blockVars
<1>17. CASE Kill
  <2>1. task \in Gens /\ helper[task] \in Lives /\ Become(task, Failed(helper[task]))
    BY <1>0, <1>17 DEF Kill, HelperRuns
  <2>. QED  BY <1>16, <2>1, LivesType
<1>18. CASE Stop
  <2>1. ClearTask
    BY <1>18 DEF Stop
  <2>. QED  BY <1>12, <1>18, <2>1 DEF TypeOK, Stop
<1>19. CASE Launch
  <2>1. block \in Blocks /\ block.gen \in Gens
    BY <1>19, BlockIs DEF Launch
  <2>2. /\ block' = NoBlock
        /\ UNCHANGED <<public, mainThread, queue, sent, inHand>>
    BY <1>19 DEF Launch
  <2>3. CASE /\ task' = block.gen /\ reading' = TRUE
             /\ cut' = FALSE /\ buffer' = << >> /\ ready' = FALSE
             /\ counted' = 0 /\ status' = "none"
             /\ pipe' = [g \in Gens |-> << >>]
             /\ helper' = [helper EXCEPT ![block.gen] = Life("work", FALSE)]
             /\ UNCHANGED mainQueue
    <3>1. helper' \in [Gens -> Lives]
      BY <1>0, <2>1, <2>3, LivesType
    <3>2. pipe' \in [Gens -> Seq(PartsOf)]
      BY <2>3, BlockType
    <3>3. task' # 0
      BY <2>1, <2>3 DEF Gens
    <3>. QED  BY <2>1, <2>2, <2>3, <3>1, <3>2, <3>3 DEF TypeOK, public, mainThread
  <2>4. CASE /\ ClearTask
             /\ mainQueue' = Append(mainQueue, Finish(block.gen, "failed", 0))
             /\ UNCHANGED helper
    <3>1. Finish(block.gen, "failed", 0) \in Results
      BY <2>1 DEF Finish, Results
    <3>2. mainQueue' \in Seq(Results)
      BY <1>0, <2>4, <3>1
    <3>. QED  BY <1>12, <2>2, <2>4, <3>2 DEF TypeOK, public, mainThread
  <2>. QED  BY <1>19, <2>3, <2>4 DEF Launch
<1>20. ASSUME NEW g \in Gens, HelperStep(g)  PROVE TypeOK'
  <2>1. PICK life \in NextLives(helper[g], Asked(g)) : Become(g, life)
    BY <1>20 DEF HelperStep
  <2>2. life \in Lives
    <3>1. helper[g] \in Lives /\ Asked(g) \in BOOLEAN
      BY <1>0 DEF Asked
    <3>. QED  BY <3>1, LivesType
  <2>. QED  BY <1>16, <2>1, <2>2
<1>21. ASSUME NEW g \in Gens, Crash(g)  PROVE TypeOK'
  <2>1. helper[g] \in Lives /\ Become(g, Failed(helper[g]))
    BY <1>0, <1>21 DEF Crash
  <2>. QED  BY <1>16, <2>1, LivesType
<1>22. CASE UNCHANGED vars
  BY <1>22 DEF TypeOK, vars, public, mainThread, taskVars, blockVars, process
<1>. QED
  BY <1>2, <1>3, <1>4, <1>5, <1>6, <1>7, <1>8, <1>9, <1>10, <1>11, <1>13, <1>14, <1>15,
     <1>17, <1>18, <1>19, <1>20, <1>21, <1>22
     DEF Next, Main, Handler, QueueThread, Helper, Ended

-----------------------------------------------------------------------------
(***************************************************************************)
(* Blocks that wait                                                        *)
(***************************************************************************)
LEMMA HoldsAppend ==
  ASSUME NEW q \in Seq(Blocks), NEW b \in Blocks
  PROVE  \A kinds, g : Holds(Append(q, b), kinds, g) <=> Holds(q, kinds, g) \/ Is(b, kinds, g)
<1>1. /\ Append(q, b) \in Seq(Blocks) /\ DOMAIN q = 1 .. Len(q) /\ Len(q) \in Nat
      /\ DOMAIN Append(q, b) = 1 .. Len(q) + 1
      /\ Append(q, b)[Len(q) + 1] = b
      /\ \A i \in 1 .. Len(q) : Append(q, b)[i] = q[i]
  OBVIOUS
<1>2. \A i \in 1 .. Len(q) + 1 : i \in 1 .. Len(q) \/ i = Len(q) + 1
  BY <1>1
<1>3. 1 .. Len(q) \subseteq 1 .. Len(q) + 1 /\ Len(q) + 1 \in 1 .. Len(q) + 1
  BY <1>1
<1>. QED  BY <1>1, <1>2, <1>3, Zenon DEF Holds

LEMMA HoldsTail ==
  ASSUME NEW q \in Seq(Blocks), q # << >>
  PROVE  \A kinds, g : Holds(q, kinds, g) <=> Is(Head(q), kinds, g) \/ Holds(Tail(q), kinds, g)
<1>1. /\ Tail(q) \in Seq(Blocks) /\ DOMAIN q = 1 .. Len(q) /\ Len(q) \in Nat \ {0}
      /\ DOMAIN Tail(q) = 1 .. Len(q) - 1
      /\ Head(q) = q[1]
      /\ \A i \in 1 .. Len(q) - 1 : Tail(q)[i] = q[i + 1]
  OBVIOUS
<1>2. \A i \in 1 .. Len(q) : i = 1 \/ (i - 1 \in 1 .. Len(q) - 1 /\ Tail(q)[i - 1] = q[i])
  BY <1>1
<1>3. 1 \in 1 .. Len(q) /\ \A i \in 1 .. Len(q) - 1 : i + 1 \in 1 .. Len(q)
  BY <1>1
<1>. QED  BY <1>1, <1>2, <1>3, Zenon DEF Holds

LEMMA OrderedAppend ==
  ASSUME NEW q \in Seq(Blocks), NEW b \in Blocks, Ordered(q),
         \A i \in 1 .. Len(q) : Precedes(q[i], b)
  PROVE  Ordered(Append(q, b))
<1>. SUFFICES ASSUME NEW i \in DOMAIN Append(q, b), NEW j \in DOMAIN Append(q, b), i < j
              PROVE  Precedes(Append(q, b)[i], Append(q, b)[j])
  BY DEF Ordered
<1>1. i \in 1 .. Len(q) /\ Append(q, b)[i] = q[i]
  OBVIOUS
<1>2. CASE j \in 1 .. Len(q)
  BY <1>1, <1>2 DEF Ordered
<1>3. CASE j = Len(q) + 1
  BY <1>1, <1>3
<1>. QED  BY <1>2, <1>3

LEMMA OrderedTail ==
  ASSUME NEW q \in Seq(Blocks), q # << >>, Ordered(q)
  PROVE  Ordered(Tail(q)) /\ Follows(Head(q), Tail(q))
<1>1. \A i \in DOMAIN Tail(q) : i + 1 \in DOMAIN q /\ Tail(q)[i] = q[i + 1] /\ i \in Int /\ 1 < i + 1
  OBVIOUS
<1>2. Head(q) = q[1] /\ 1 \in DOMAIN q
  OBVIOUS
<1>3. Follows(Head(q), Tail(q))
  BY <1>1, <1>2 DEF Ordered, Follows
<1>4. ASSUME NEW i \in DOMAIN Tail(q), NEW j \in DOMAIN Tail(q), i < j
      PROVE  Precedes(Tail(q)[i], Tail(q)[j])
  <2>1. i + 1 < j + 1
    BY <1>1, <1>4
  <2>. QED  BY <1>1, <2>1 DEF Ordered
<1>. QED  BY <1>3, <1>4 DEF Ordered

LEMMA FollowsAppend ==
  ASSUME NEW q \in Seq(Blocks), NEW b \in Blocks, NEW c, Follows(c, q), Precedes(c, b)
  PROVE  Follows(c, Append(q, b))
<1>. SUFFICES ASSUME NEW j \in DOMAIN Append(q, b)  PROVE Precedes(c, Append(q, b)[j])
  BY DEF Follows
<1>1. CASE j \in 1 .. Len(q)
  BY <1>1 DEF Follows
<1>2. CASE j = Len(q) + 1
  BY <1>2
<1>. QED  BY <1>1, <1>2

\* The kinds the invariant speaks of.
KindSets == {{"load"}, {"stop"}, {"term", "drain"}, TaskKinds, TaskKinds \cup {"load"}}

\* No block is no block of any kind.
LEMMA NoBlockIs ==
  /\ \A kinds, g : "none" \notin kinds => ~Is(NoBlock, kinds, g)
  /\ \A b : Precedes(NoBlock, b) /\ Precedes(b, NoBlock)
  /\ \A q : Follows(NoBlock, q)
  /\ \A kinds \in KindSets : "none" \notin kinds
  /\ NoBlock.kind = "none" /\ NoBlock.gen = 0
  BY DEF NoBlock, Is, Precedes, Follows, TaskKinds, KindSets

\* What is asked of blocks in the invariant, when there are no more of any kind ...
Fewer == \A kinds \in KindSets, g \in Gens \cup {0} : Waits(kinds, g)' => Waits(kinds, g)

\* ... or there is one more of some kind.
OneMore(kind, n) ==
  \A kinds \in KindSets, g \in Gens \cup {0} :
    Waits(kinds, g)' => Waits(kinds, g) \/ (kind \in kinds /\ g = n)

\* A block put on the queue.
LEMMA Appended ==
  ASSUME TypeOK, QueueOK, NEW b \in Blocks,
         queue' = Append(queue, b), block' \in {block, NoBlock}, inHand' = inHand,
         \A i \in 1 .. Len(queue) : Precedes(queue[i], b),
         block' = block => Precedes(block, b)
  PROVE  OneMore(b.kind, b.gen) /\ QueueOK'
<1>1. queue \in Seq(Blocks)
  BY DEF TypeOK
<1>2. \A kinds, g : Holds(queue', kinds, g) <=> Holds(queue, kinds, g) \/ Is(b, kinds, g)
  BY <1>1, HoldsAppend
<1>3. Ordered(queue') /\ (block' = block => Follows(block, queue'))
  BY <1>1, OrderedAppend, FollowsAppend DEF QueueOK
<1>4. OneMore(b.kind, b.gen)
  BY <1>2, NoBlockIs DEF OneMore, Waits, Is
<1>. QED  BY <1>3, <1>4, NoBlockIs DEF QueueOK

-----------------------------------------------------------------------------
(***************************************************************************)
(* What keeps the parts of the invariant                                   *)
(***************************************************************************)
\* No load is pending and none has left traces that was not or had not before.
Less == \A g \in Gens : (Pending(g)' => Pending(g)) /\ (Traces(g)' => Traces(g))

LEMMA OrderKept ==
  ASSUME OrderOK, Less, loads' = loads, task' \in {task, 0}
  PROVE  OrderOK'
  BY DEF OrderOK, Less

\* What was settled stays settled.
SettledStay == \A g \in Gens : Settled(g) => Settled(g)'

LEMMA SettledKept ==
  ASSUME Less, loads' = loads, sent \subseteq sent'
  PROVE  SettledStay
  BY DEF Settled, SettledStay, Less

LEMMA ResultsKept ==
  ASSUME ResultOK, ShownOK, mainQueue' = mainQueue, sent \subseteq sent', SettledStay
  PROVE  /\ ResultOK'
         /\ UNCHANGED <<main, state, generation>> => ShownOK'
<1>1. ResultOK'
  BY DEF ResultOK, SettledStay
<1>2. ASSUME UNCHANGED <<main, state, generation>>  PROVE ShownOK'
  BY <1>2 DEF ShownOK, SettledStay
<1>. QED  BY <1>1, <1>2

\* With fewer blocks, and no helper that takes up work, the rest stays as well.
LEMMA FewerKept ==
  ASSUME KindsOK, OrderOK, HelperOK, CurrentOK, StopOK, QuietOK, Fewer,
         inHand' = NoBlock \/ inHand'.kind = "chunk",
         UNCHANGED <<generation, main, loads, task>>,
         \A g \in Gens : /\ helper'[g].st # "none" => helper[g].st # "none"
                         /\ Runs(helper'[g]) => Runs(helper[g]),
         state' = "idle" => state = "idle",
         block'.kind \in TaskKinds => block'.gen = task
  PROVE  KindsOK' /\ OrderOK' /\ HelperOK' /\ CurrentOK' /\ StopOK' /\ QuietOK' /\ Less
<1>1. \A g \in Gens \cup {0} :
        /\ Waits({"load"}, g)' => Waits({"load"}, g)
        /\ Waits({"stop"}, g)' => Waits({"stop"}, g)
        /\ Waits({"term", "drain"}, g)' => Waits({"term", "drain"}, g)
        /\ Waits(TaskKinds, g)' => Waits(TaskKinds, g)
        /\ Waits(TaskKinds \cup {"load"}, g)' => Waits(TaskKinds \cup {"load"}, g)
  BY DEF Fewer, KindSets
<1>2. \A g \in Gens : /\ Pending(g)' => Pending(g)
                      /\ Ending(g)' => Ending(g)
                      /\ Traces(g)' => Traces(g)
  <2>. TAKE g \in Gens
  <2>1. Pending(g)' => Pending(g)
    BY <1>1 DEF Pending
  <2>2. Ending(g)' => Ending(g)
    BY <1>1 DEF Ending
  <2>3. Traces(g)' => Traces(g)
    BY <1>1 DEF Traces
  <2>. QED  BY <2>1, <2>2, <2>3
<1>3. Less
  BY <1>2 DEF Less
<1>4. KindsOK'
  BY <1>1 DEF KindsOK
<1>5. HelperOK'
  BY <1>2 DEF HelperOK
<1>6. CurrentOK'
  BY <1>2 DEF CurrentOK
<1>7. StopOK'
  BY <1>1 DEF StopOK
<1>8. QuietOK'
  BY <1>2 DEF QuietOK
<1>. QED  BY <1>3, <1>4, <1>5, <1>6, <1>7, <1>8, OrderKept

\* A result of a load that was not settled and is now.
LEMMA ResultAdded ==
  ASSUME TypeOK, ResultOK, ShownOK, NEW g \in Gens, ~Settled(g), Settled(g)',
         SettledStay, sent \subseteq sent',
         NEW r \in Results, r.gen = g, mainQueue' = Append(mainQueue, r),
         r.state = "loaded" => g \in sent',
         UNCHANGED <<generation, state, main>>
  PROVE  ResultOK' /\ ShownOK'
<1>1. mainQueue \in Seq(Results)
  BY DEF TypeOK
<1>2. /\ DOMAIN mainQueue = 1 .. Len(mainQueue) /\ Len(mainQueue) \in Nat
      /\ DOMAIN mainQueue' = 1 .. Len(mainQueue) + 1
      /\ mainQueue'[Len(mainQueue) + 1] = r
      /\ \A i \in 1 .. Len(mainQueue) : mainQueue'[i] = mainQueue[i]
  BY <1>1
<1>3. \A i \in DOMAIN mainQueue' :
        /\ \A h \in Gens : mainQueue'[i].gen = h => Settled(h)'
        /\ mainQueue'[i].state = "loaded" => mainQueue'[i].gen \in sent'
  <2>1. \A i \in 1 .. Len(mainQueue) :
          /\ \A h \in Gens : mainQueue'[i].gen = h => Settled(h)'
          /\ mainQueue'[i].state = "loaded" => mainQueue'[i].gen \in sent'
    BY <1>2 DEF ResultOK, SettledStay
  <2>2. /\ \A h \in Gens : r.gen = h => Settled(h)'
        /\ r.state = "loaded" => r.gen \in sent'
    OBVIOUS
  <2>3. \A i \in DOMAIN mainQueue' : i \in 1 .. Len(mainQueue) \/ mainQueue'[i] = r
    BY <1>2
  <2>. QED  BY <2>1, <2>2, <2>3, Zenon
<1>4. ASSUME NEW i \in DOMAIN mainQueue', NEW j \in DOMAIN mainQueue', i < j
      PROVE  mainQueue'[i].gen # mainQueue'[j].gen
  <2>1. i \in 1 .. Len(mainQueue) /\ mainQueue'[i] = mainQueue[i]
    BY <1>2, <1>4
  <2>2. CASE j \in 1 .. Len(mainQueue)
    BY <1>2, <1>4, <2>1, <2>2 DEF ResultOK
  <2>3. CASE j = Len(mainQueue) + 1
    BY <1>2, <2>1, <2>3 DEF ResultOK
  <2>. QED  BY <1>2, <2>2, <2>3
<1>5. ResultOK'
  BY <1>3, <1>4 DEF ResultOK
<1>6. ShownOK'
  <2>. SUFFICES ASSUME main = "idle", state \in {"loaded", "failed"}
                PROVE  /\ generation # 0
                       /\ \A h \in Gens : generation = h => Settled(h)'
                       /\ \A i \in DOMAIN mainQueue' : mainQueue'[i].gen # generation
                       /\ state = "loaded" => generation \in sent'
    BY DEF ShownOK
  <2>1. /\ generation # 0
        /\ \A h \in Gens : generation = h => Settled(h)
        /\ \A i \in DOMAIN mainQueue : mainQueue[i].gen # generation
        /\ state = "loaded" => generation \in sent
    BY DEF ShownOK
  <2>2. g # generation
    BY <2>1
  <2>3. \A h \in Gens : generation = h => Settled(h)'
    BY <2>1 DEF SettledStay
  <2>4. \A i \in DOMAIN mainQueue' : mainQueue'[i].gen # generation
    <3>1. \A i \in 1 .. Len(mainQueue) : mainQueue'[i].gen # generation
      BY <1>2, <2>1
    <3>2. \A i \in DOMAIN mainQueue' : i \in 1 .. Len(mainQueue) \/ mainQueue'[i] = r
      BY <1>2
    <3>. QED  BY <2>2, <3>1, <3>2, Zenon
  <2>. QED  BY <2>1, <2>3, <2>4
<1>. QED  BY <1>5, <1>6

\* A load is not settled while a block works for it and its result is not sent.
LEMMA ProcessKeepsResults ==
  ASSUME TypeOK, OrderOK, ResultOK, ShownOK, NEW g \in Gens, Traces(g),
         \/ mainQueue' = mainQueue /\ sent' = sent
         \/ /\ g \notin sent /\ sent' = sent \cup {g}
            /\ \E r \in Results : r.gen = g /\ mainQueue' = Append(mainQueue, r),
         Less, UNCHANGED <<generation, state, main, loads>>
  PROVE  ResultOK' /\ ShownOK'
<1>1. SettledStay /\ sent \subseteq sent'
  BY SettledKept
<1>2. CASE mainQueue' = mainQueue /\ sent' = sent
  BY <1>1, <1>2, ResultsKept
<1>3. ASSUME g \notin sent, sent' = sent \cup {g},
             NEW r \in Results, r.gen = g, mainQueue' = Append(mainQueue, r)
      PROVE  ResultOK' /\ ShownOK'
  <2>1. ~Settled(g)
    BY <1>3 DEF Settled
  <2>2. Settled(g)'
    BY <1>3 DEF Settled, OrderOK, Less
  <2>. QED  BY <1>1, <1>3, <2>1, <2>2, ResultAdded
<1>. QED  BY <1>2, <1>3

\* One more block, for the kinds the invariant names.
LEMMA OneMoreIs ==
  ASSUME NEW kind, NEW n, OneMore(kind, n)
  PROVE  \A g \in Gens \cup {0} :
           /\ Waits({"load"}, g)' => Waits({"load"}, g) \/ (kind = "load" /\ g = n)
           /\ Waits({"stop"}, g)' => Waits({"stop"}, g) \/ (kind = "stop" /\ g = n)
           /\ Waits({"term", "drain"}, g)' =>
                Waits({"term", "drain"}, g) \/ (kind \in {"term", "drain"} /\ g = n)
           /\ Waits(TaskKinds, g)' => Waits(TaskKinds, g) \/ (kind \in TaskKinds /\ g = n)
           /\ Waits(TaskKinds \cup {"load"}, g)' =>
                Waits(TaskKinds \cup {"load"}, g) \/ (kind \in TaskKinds \cup {"load"} /\ g = n)
  BY DEF OneMore, KindSets

\* Each block on the queue waits.
LEMMA QueuedWaits ==
  ASSUME TypeOK, KindsOK, HelperOK, NEW i \in 1 .. Len(queue)
  PROVE  /\ queue[i].kind = "load" => queue[i].gen \in Gens /\ Pending(queue[i].gen)
         /\ queue[i].kind = "stop" => Waits({"stop"}, 0)
         /\ queue[i].kind \in {"term", "drain"} => queue[i].gen \in Gens /\ Ending(queue[i].gen)
<1>1. i \in DOMAIN queue
  BY DEF TypeOK
<1>2. /\ queue[i].kind \in TaskKinds \cup {"load"} => queue[i].gen \in Gens
      /\ queue[i].kind = "stop" => queue[i].gen = 0
  BY BlockIs
<1>. QED  BY <1>1, <1>2 DEF Pending, Ending, Waits, Holds, Is, TaskKinds

\* The same of the block that runs.
LEMMA RunningWaits ==
  ASSUME TypeOK, KindsOK, HelperOK
  PROVE  /\ block.kind = "load" => block.gen \in Gens /\ Pending(block.gen)
         /\ block.kind = "stop" => Waits({"stop"}, 0)
         /\ block.kind \in {"term", "drain"} => Ending(block.gen)
         /\ block.kind \in TaskKinds => task \in Gens /\ block.gen = task
  BY BlockIs DEF Pending, Ending, Waits, Is, TaskKinds

-----------------------------------------------------------------------------
(***************************************************************************)
(* The main thread                                                         *)
(***************************************************************************)
LEMMA BeginLoadStep ==
  ASSUME IInv, TypeOK', BeginLoad, main \in {"idle", "after"}, main' = "idle",
         UNCHANGED <<mainQueue, block, taskVars, blockVars, process, inHand>>
  PROVE  Protocol'
<1> DEFINE n == loads + 1
<1>0. /\ TypeOK /\ KindsOK /\ QueueOK /\ OrderOK /\ HelperOK /\ CurrentOK
      /\ StopOK /\ QuietOK /\ ResultOK /\ ShownOK
  BY DEF IInv, Protocol
<1>1. /\ loads' = n /\ generation' = n /\ n \in Gens /\ loads \in Nat
      /\ queue' = Append(queue, Block("load", n, << >>)) /\ state' = "loading"
      /\ task' = task /\ helper' = helper /\ sent' = sent
  BY <1>0 DEF BeginLoad, TypeOK, Gens, taskVars, blockVars, process
<1>2. \A g \in Gens : g \in Nat
  BY DEF Gens
<1>. HIDE DEF n
<1>3. \A g \in Gens : Pending(g) \/ Traces(g) => g < n
  BY <1>0, <1>1, <1>2 DEF OrderOK, n
<1>4. ~Waits({"stop"}, 0)
  BY <1>0 DEF StopOK
<1>5. Block("load", n, << >>) \in Blocks
  BY <1>1, BlockType
<1>6. Block("load", n, << >>).kind = "load" /\ Block("load", n, << >>).gen = n
  BY DEF Block
<1>7. ASSUME NEW i \in 1 .. Len(queue)
      PROVE  Precedes(queue[i], Block("load", n, << >>))
  <2>1. /\ queue[i].kind = "load" => queue[i].gen < n
        /\ queue[i].kind # "stop"
    BY <1>0, <1>3, <1>4, QueuedWaits
  <2>. QED  BY <1>6, <2>1 DEF Precedes
<1>8. Precedes(block, Block("load", n, << >>))
  <2>1. /\ block.kind = "load" => block.gen < n
        /\ block.kind # "stop"
    BY <1>0, <1>3, <1>4, RunningWaits
  <2>. QED  BY <1>6, <2>1 DEF Precedes
<1>9. OneMore("load", n) /\ QueueOK'
  BY <1>0, <1>1, <1>5, <1>6, <1>7, <1>8, Appended
<1>10. "load" \notin {"stop"} /\ "load" \notin {"term", "drain"} /\ "load" \notin TaskKinds
  BY DEF TaskKinds
<1>11. \A g \in Gens \cup {0} :
        /\ Waits({"load"}, g)' => Waits({"load"}, g) \/ g = n
        /\ Waits({"stop"}, g)' => Waits({"stop"}, g)
        /\ Waits({"term", "drain"}, g)' => Waits({"term", "drain"}, g)
        /\ Waits(TaskKinds, g)' => Waits(TaskKinds, g)
        /\ Waits(TaskKinds \cup {"load"}, g)' => Waits(TaskKinds \cup {"load"}, g) \/ g = n
  BY <1>9, <1>10, OneMoreIs
<1>12. \A g \in Gens : Pending(g)' => Pending(g) \/ g = n
  BY <1>11 DEF Pending
<1>13. \A g \in Gens : Ending(g)' => Ending(g)
  BY <1>11 DEF Ending
<1>14. \A g \in Gens : Traces(g)' => Traces(g)
  BY <1>1, <1>11 DEF Traces
<1>15. KindsOK'
  <2>1. n # 0
    BY <1>1 DEF Gens
  <2>. QED  BY <1>0, <1>11, <2>1 DEF KindsOK
<1>16. OrderOK'
  <2>1. loads < n /\ \A g \in Gens : g <= loads => g <= n
    BY <1>1, <1>2 DEF n
  <2>. QED  BY <1>0, <1>1, <1>2, <1>3, <1>12, <1>14, <2>1 DEF OrderOK
<1>17. HelperOK'
  BY <1>0, <1>1, <1>13 DEF HelperOK
<1>18. CurrentOK'
  <2>1. \A g \in Gens : Ending(g) \/ helper[g].st # "none" => Traces(g)
    BY DEF Ending, Traces, Waits, Holds, Is, TaskKinds
  <2>2. ~(n < n)
    BY <1>1, <1>2
  <2>. QED  BY <1>1, <1>3, <1>13, <2>1, <2>2 DEF CurrentOK
<1>19. StopOK' /\ QuietOK' /\ ShownOK'
  BY <1>1, <1>4, <1>11 DEF StopOK, QuietOK, ShownOK
<1>20. SettledStay
  <2>1. \A g \in Gens : g <= loads => g <= n /\ g < n
    BY <1>1, <1>2 DEF n
  <2>. QED  BY <1>1, <1>12, <1>14, <2>1 DEF Settled, SettledStay
<1>21. ResultOK'
  BY <1>0, <1>1, <1>20, ResultsKept
<1>. QED  BY <1>9, <1>15, <1>16, <1>17, <1>18, <1>19, <1>21 DEF Protocol

LEMMA UnloadStep ==
  ASSUME IInv, Unload
  PROVE  Protocol'
<1>0. /\ TypeOK /\ KindsOK /\ QueueOK /\ OrderOK /\ HelperOK /\ CurrentOK
      /\ StopOK /\ QuietOK /\ ResultOK /\ ShownOK
  BY DEF IInv, Protocol
<1>1. /\ main = "idle" /\ main' = "sync" /\ generation' = 0
      /\ queue' = Append(queue, Block("stop", 0, << >>))
      /\ block' = block /\ inHand' = inHand /\ loads' = loads
      /\ task' = task /\ helper' = helper /\ sent' = sent /\ mainQueue' = mainQueue
  BY DEF Unload, taskVars, blockVars, process
<1>2. ~Waits({"stop"}, 0) /\ 0 \notin Gens
  BY <1>0, <1>1 DEF StopOK, Gens
<1>3. /\ Block("stop", 0, << >>) \in Blocks
      /\ Block("stop", 0, << >>).kind = "stop" /\ Block("stop", 0, << >>).gen = 0
  BY BlockType DEF Block
<1>4. ASSUME NEW i \in 1 .. Len(queue)
      PROVE  Precedes(queue[i], Block("stop", 0, << >>))
  <2>1. queue[i].kind # "stop"
    BY <1>0, <1>2, QueuedWaits
  <2>. QED  BY <1>3, <2>1 DEF Precedes
<1>5. Precedes(block, Block("stop", 0, << >>))
  <2>1. block.kind # "stop"
    BY <1>0, <1>2, RunningWaits
  <2>. QED  BY <1>3, <2>1 DEF Precedes
<1>6. OneMore("stop", 0) /\ QueueOK'
  BY <1>0, <1>1, <1>3, <1>4, <1>5, Appended
<1>7. "stop" \notin {"load"} /\ "stop" \notin {"term", "drain"} /\ "stop" \notin TaskKinds \cup {"load"}
  BY DEF TaskKinds
<1>8. \A g \in Gens \cup {0} :
        /\ Waits({"load"}, g)' => Waits({"load"}, g)
        /\ Waits({"stop"}, g)' => Waits({"stop"}, g) \/ g = 0
        /\ Waits({"term", "drain"}, g)' => Waits({"term", "drain"}, g)
        /\ Waits(TaskKinds, g)' => Waits(TaskKinds, g)
        /\ Waits(TaskKinds \cup {"load"}, g)' => Waits(TaskKinds \cup {"load"}, g)
  BY <1>6, <1>7, OneMoreIs
<1>9. \A g \in Gens : Ending(g)' => Ending(g)
  BY <1>8 DEF Ending
<1>10. Less
  BY <1>1, <1>8 DEF Less, Pending, Traces
<1>11. KindsOK'
  BY <1>0, <1>1, <1>2, <1>8 DEF KindsOK
<1>12. HelperOK'
  BY <1>0, <1>1, <1>9 DEF HelperOK
<1>13. CurrentOK' /\ StopOK' /\ QuietOK' /\ ShownOK'
  BY <1>1, <1>2 DEF CurrentOK, StopOK, QuietOK, ShownOK
<1>14. OrderOK' /\ ResultOK'
  BY <1>0, <1>1, <1>10, OrderKept, SettledKept, ResultsKept
<1>. QED  BY <1>6, <1>11, <1>12, <1>13, <1>14 DEF Protocol

LEMMA UnloadedStep ==
  ASSUME IInv, main = "after", main' \in {"idle", "gone"}, state' = "idle",
         UNCHANGED <<generation, loads, queue, mainQueue, block, taskVars, blockVars, process,
                     inHand>>
  PROVE  Protocol'
<1>0. /\ TypeOK /\ KindsOK /\ QueueOK /\ OrderOK /\ HelperOK /\ CurrentOK
      /\ StopOK /\ QuietOK /\ ResultOK /\ ShownOK
  BY DEF IInv, Protocol
<1>1. /\ task' = task /\ helper' = helper /\ sent' = sent
      /\ UNCHANGED <<generation, loads, queue, mainQueue, block, inHand>>
  BY DEF taskVars, blockVars, process
<1>2. \A kinds, g : Waits(kinds, g)' <=> Waits(kinds, g)
  BY <1>1 DEF Waits
<1>3. \A g \in Gens : /\ Pending(g)' <=> Pending(g)
                      /\ Ending(g)' <=> Ending(g)
                      /\ Traces(g)' <=> Traces(g)
  BY <1>1, <1>2 DEF Pending, Ending, Traces
<1>4. Less
  BY <1>3 DEF Less
<1>5. KindsOK' /\ QueueOK' /\ StopOK'
  BY <1>0, <1>1, <1>2 DEF KindsOK, QueueOK, StopOK
<1>6. HelperOK'
  BY <1>0, <1>1, <1>3 DEF HelperOK
<1>7. CurrentOK'
  BY <1>0, <1>1, <1>3 DEF CurrentOK
<1>8. QuietOK'
  BY <1>0, <1>1, <1>3 DEF QuietOK
<1>9. ShownOK'
  BY DEF ShownOK
<1>10. OrderOK' /\ ResultOK'
  BY <1>0, <1>1, <1>4, OrderKept, SettledKept, ResultsKept
<1>. QED  BY <1>5, <1>6, <1>7, <1>8, <1>9, <1>10 DEF Protocol

LEMMA RunFinishStep ==
  ASSUME IInv, RunFinish
  PROVE  Protocol'
<1>0. /\ TypeOK /\ KindsOK /\ QueueOK /\ OrderOK /\ HelperOK /\ CurrentOK
      /\ StopOK /\ QuietOK /\ ResultOK /\ ShownOK
  BY DEF IInv, Protocol
<1>1. /\ main = "idle" /\ mainQueue # << >> /\ mainQueue' = Tail(mainQueue)
      /\ UNCHANGED <<generation, main, loads, task, helper, sent, queue, block, inHand>>
  BY DEF RunFinish, mainThread, taskVars, blockVars, process
<1>2. \A kinds, g : Waits(kinds, g)' <=> Waits(kinds, g)
  BY <1>1 DEF Waits
<1>3. Fewer
  BY <1>2 DEF Fewer
<1>4. mainQueue \in Seq(Results)
  BY <1>0 DEF TypeOK
<1>5. /\ Head(mainQueue) = mainQueue[1] /\ 1 \in DOMAIN mainQueue
      /\ Head(mainQueue) \in Results
      /\ \A i \in DOMAIN mainQueue' :
           /\ i + 1 \in DOMAIN mainQueue /\ mainQueue'[i] = mainQueue[i + 1]
           /\ i \in Nat /\ 1 < i + 1
  BY <1>1, <1>4
<1>6. Head(mainQueue).gen \in Gens /\ Head(mainQueue).state \in {"loaded", "failed"}
  BY <1>5 DEF Results
<1>7. state' = state \/ (Head(mainQueue).gen = generation /\ state' = Head(mainQueue).state)
  BY DEF RunFinish
<1>8. KindsOK' /\ OrderOK' /\ HelperOK' /\ CurrentOK' /\ StopOK' /\ QuietOK' /\ Less
  <2>1. state' = "idle" => state = "idle"
    BY <1>6, <1>7
  <2>2. inHand' = NoBlock \/ inHand'.kind = "chunk"
    BY <1>0, <1>1 DEF KindsOK
  <2>3. block'.kind \in TaskKinds => block'.gen = task
    BY <1>0, <1>1 DEF HelperOK
  <2>. QED  BY <1>0, <1>1, <1>3, <2>1, <2>2, <2>3, FewerKept
<1>9. QueueOK'
  BY <1>0, <1>1 DEF QueueOK
<1>10. SettledStay
  BY <1>1, <1>8, SettledKept
<1>11. ResultOK'
  <2>1. \A i \in DOMAIN mainQueue' :
          /\ \A g \in Gens : mainQueue'[i].gen = g => Settled(g)'
          /\ mainQueue'[i].state = "loaded" => mainQueue'[i].gen \in sent'
    BY <1>0, <1>1, <1>5, <1>10 DEF ResultOK, SettledStay
  <2>2. ASSUME NEW i \in DOMAIN mainQueue', NEW j \in DOMAIN mainQueue', i < j
        PROVE  mainQueue'[i].gen # mainQueue'[j].gen
    <3>1. i + 1 < j + 1
      BY <1>5, <2>2
    <3>. QED  BY <1>0, <1>5, <3>1 DEF ResultOK
  <2>. QED  BY <2>1, <2>2 DEF ResultOK
<1>12. ShownOK'
  <2>. SUFFICES ASSUME state' \in {"loaded", "failed"}
                PROVE  /\ generation # 0
                       /\ \A g \in Gens : generation = g => Settled(g)'
                       /\ \A i \in DOMAIN mainQueue' : mainQueue'[i].gen # generation
                       /\ state' = "loaded" => generation \in sent
    BY <1>1 DEF ShownOK
  <2>1. CASE state' = state
    <3>1. /\ generation # 0
          /\ \A g \in Gens : generation = g => Settled(g)
          /\ \A i \in DOMAIN mainQueue : mainQueue[i].gen # generation
          /\ state = "loaded" => generation \in sent
      BY <1>0, <1>1, <2>1 DEF ShownOK
    <3>. QED  BY <1>5, <1>10, <2>1, <3>1 DEF SettledStay
  <2>2. CASE Head(mainQueue).gen = generation /\ state' = Head(mainQueue).state
    <3>1. generation # 0 /\ \A g \in Gens : generation = g => Settled(g)'
      BY <1>0, <1>5, <1>6, <1>10, <2>2 DEF ResultOK, SettledStay, Gens
    <3>2. \A i \in DOMAIN mainQueue' : mainQueue'[i].gen # generation
      BY <1>0, <1>5, <2>2 DEF ResultOK
    <3>3. state' = "loaded" => generation \in sent
      BY <1>0, <1>5, <2>2 DEF ResultOK
    <3>. QED  BY <3>1, <3>2, <3>3
  <2>. QED  BY <1>7, <2>1, <2>2
<1>. QED  BY <1>8, <1>9, <1>11, <1>12 DEF Protocol

-----------------------------------------------------------------------------
(***************************************************************************)
(* The handlers of a task                                                  *)
(***************************************************************************)
LEMMA ReadStep ==
  ASSUME IInv, Read
  PROVE  Protocol'
<1>0. /\ TypeOK /\ KindsOK /\ QueueOK /\ OrderOK /\ HelperOK /\ CurrentOK
      /\ StopOK /\ QuietOK /\ ResultOK /\ ShownOK
  BY DEF IInv, Protocol
<1>1. /\ task \in Gens /\ task # 0 /\ inHand = NoBlock
      /\ inHand'.kind = "chunk" /\ inHand'.gen = task
      /\ UNCHANGED <<generation, state, main, loads, mainQueue, queue, block, task, sent, helper>>
  BY <1>0 DEF Read, TypeOK, Block, public, mainThread, blockVars, Gens
<1>2. /\ "chunk" \notin {"load"} /\ "chunk" \notin {"stop"} /\ "chunk" \notin {"term", "drain"}
      /\ "chunk" \in TaskKinds
  BY DEF TaskKinds
<1>3. \A kinds, g : Waits(kinds, g)' => Waits(kinds, g) \/ ("chunk" \in kinds /\ g = task)
  BY <1>1 DEF Waits, Is
<1>4. \A g \in Gens : /\ Pending(g)' => Pending(g)
                      /\ Ending(g)' => Ending(g)
                      /\ Traces(g)' => Traces(g)
  <2>. TAKE g \in Gens
  <2>1. Pending(g)' => Pending(g)
    BY <1>2, <1>3 DEF Pending
  <2>2. Ending(g)' => Ending(g)
    BY <1>2, <1>3 DEF Ending
  <2>3. Traces(g)' => Traces(g)
    BY <1>1, <1>3 DEF Traces
  <2>. QED  BY <2>1, <2>2, <2>3
<1>5. Less
  BY <1>4 DEF Less
<1>6. KindsOK'
  <2>1. inHand' = NoBlock \/ inHand'.kind = "chunk"
    BY <1>1
  <2>2. ~Waits(TaskKinds \cup {"load"}, 0)'
    BY <1>0, <1>1, <1>3 DEF KindsOK
  <2>3. \A g \in Gens : ~Waits({"stop"}, g)'
    BY <1>0, <1>2, <1>3 DEF KindsOK
  <2>. QED  BY <2>1, <2>2, <2>3 DEF KindsOK
<1>7. QueueOK'
  BY <1>0, <1>1 DEF QueueOK
<1>8. HelperOK'
  BY <1>0, <1>1, <1>4 DEF HelperOK
<1>9. CurrentOK'
  BY <1>0, <1>1, <1>4 DEF CurrentOK
<1>10. StopOK'
  BY <1>0, <1>1, <1>2, <1>3 DEF StopOK
<1>11. QuietOK'
  BY <1>0, <1>1, <1>4 DEF QuietOK
<1>12. OrderOK' /\ ResultOK' /\ ShownOK'
  BY <1>0, <1>1, <1>5, OrderKept, SettledKept, ResultsKept
<1>. QED  BY <1>6, <1>7, <1>8, <1>9, <1>10, <1>11, <1>12 DEF Protocol

\* A step that leaves the results alone, with fewer blocks.
LEMMA FewerStep ==
  ASSUME IInv, Fewer, QueueOK',
         inHand' = NoBlock \/ inHand'.kind = "chunk",
         UNCHANGED <<generation, state, main, loads, mainQueue, task, sent>>,
         \A g \in Gens : /\ helper'[g].st # "none" => helper[g].st # "none"
                         /\ Runs(helper'[g]) => Runs(helper[g]),
         block'.kind \in TaskKinds => block'.gen = task
  PROVE  Protocol'
<1>0. /\ TypeOK /\ KindsOK /\ QueueOK /\ OrderOK /\ HelperOK /\ CurrentOK
      /\ StopOK /\ QuietOK /\ ResultOK /\ ShownOK
  BY DEF IInv, Protocol
<1>1. KindsOK' /\ OrderOK' /\ HelperOK' /\ CurrentOK' /\ StopOK' /\ QuietOK' /\ Less
  BY <1>0, FewerKept
<1>2. ResultOK' /\ ShownOK'
  BY <1>0, <1>1, SettledKept, ResultsKept
<1>. QED  BY <1>1, <1>2 DEF Protocol

LEMMA DispatchStep ==
  ASSUME IInv, Dispatch
  PROVE  Protocol'
<1>0. TypeOK /\ KindsOK /\ QueueOK /\ HelperOK
  BY DEF IInv, Protocol
<1>1. /\ inHand # NoBlock /\ queue' = Append(queue, inHand) /\ inHand' = NoBlock
      /\ UNCHANGED <<generation, state, main, loads, mainQueue, task, sent, helper, block>>
  BY DEF Dispatch, public, mainThread, taskVars, blockVars, process
<1>2. inHand \in Blocks /\ inHand.kind = "chunk" /\ queue \in Seq(Blocks)
  BY <1>0, <1>1, BlockIs DEF TypeOK
<1>3. \A b : Precedes(b, inHand)
  BY <1>2 DEF Precedes
<1>4. QueueOK'
  BY <1>0, <1>1, <1>2, <1>3, OrderedAppend, FollowsAppend DEF QueueOK
<1>5. Fewer
  <2>1. \A kinds, g : Holds(queue', kinds, g) <=> Holds(queue, kinds, g) \/ Is(inHand, kinds, g)
    BY <1>1, <1>2, HoldsAppend
  <2>. QED  BY <1>1, <2>1, NoBlockIs DEF Fewer, Waits
<1>6. block'.kind \in TaskKinds => block'.gen = task
  BY <1>0, <1>1 DEF HelperOK
<1>. QED  BY <1>1, <1>4, <1>5, <1>6, FewerStep

LEMMA TerminationStep ==
  ASSUME IInv, NEW n \in Gens, TerminationHandler(n)
  PROVE  Protocol'
<1>0. /\ TypeOK /\ KindsOK /\ QueueOK /\ OrderOK /\ HelperOK /\ CurrentOK
      /\ StopOK /\ QuietOK /\ ResultOK /\ ShownOK
  BY DEF IInv, Protocol
<1>1. /\ HasEnded(helper[n])
      /\ helper' = [helper EXCEPT ![n] = Life("none", helper[n].reported)]
      /\ queue' = Append(queue, Block("term", n, << >>))
      /\ UNCHANGED <<generation, state, main, loads, mainQueue, block, task, sent, inHand>>
  BY DEF TerminationHandler, public, mainThread, blockVars
<1>2. helper[n].st # "none" /\ helper \in [Gens -> Lives]
  BY <1>0, <1>1 DEF HasEnded, TypeOK
<1>3. /\ helper'[n].st = "none" /\ ~Runs(helper'[n])
      /\ \A g \in Gens : g # n => helper'[g] = helper[g]
  BY <1>1, <1>2 DEF Life, Runs
<1>4. ~Ending(n) /\ Traces(n)
  BY <1>0, <1>2 DEF HelperOK, Traces
<1>5. /\ Block("term", n, << >>) \in Blocks
      /\ Block("term", n, << >>).kind = "term" /\ Block("term", n, << >>).gen = n
  BY BlockType DEF Block
<1>6. ASSUME NEW i \in 1 .. Len(queue)
      PROVE  Precedes(queue[i], Block("term", n, << >>))
  <2>1. queue[i].kind \in {"term", "drain"} => queue[i].gen # n
    BY <1>0, <1>4, QueuedWaits
  <2>. QED  BY <1>5, <2>1 DEF Precedes
<1>7. Precedes(block, Block("term", n, << >>))
  <2>1. block.kind \in {"term", "drain"} => block.gen # n
    BY <1>0, <1>4, RunningWaits
  <2>. QED  BY <1>5, <2>1 DEF Precedes
<1>8. OneMore("term", n) /\ QueueOK'
  BY <1>0, <1>1, <1>5, <1>6, <1>7, Appended
<1>9. "term" \notin {"load"} /\ "term" \notin {"stop"}
  OBVIOUS
<1>10. \A g \in Gens \cup {0} :
        /\ Waits({"load"}, g)' => Waits({"load"}, g)
        /\ Waits({"stop"}, g)' => Waits({"stop"}, g)
        /\ Waits({"term", "drain"}, g)' => Waits({"term", "drain"}, g) \/ g = n
        /\ Waits(TaskKinds, g)' => Waits(TaskKinds, g) \/ g = n
        /\ Waits(TaskKinds \cup {"load"}, g)' => Waits(TaskKinds \cup {"load"}, g) \/ g = n
  BY <1>8, <1>9, OneMoreIs
<1>11. \A g \in Gens : /\ Pending(g)' => Pending(g)
                       /\ Ending(g)' => Ending(g) \/ g = n
                       /\ Traces(g)' => Traces(g)
                       /\ Runs(helper'[g]) => Runs(helper[g])
  <2>. TAKE g \in Gens
  <2>1. Pending(g)' => Pending(g)
    BY <1>10 DEF Pending
  <2>2. Ending(g)' => Ending(g) \/ g = n
    BY <1>10 DEF Ending
  <2>3. Traces(g)' => Traces(g)
    <3>1. CASE g = n
      BY <1>4, <3>1
    <3>2. CASE g # n
      BY <1>1, <1>3, <1>10, <3>2 DEF Traces
    <3>. QED  BY <3>1, <3>2
  <2>4. Runs(helper'[g]) => Runs(helper[g])
    BY <1>3
  <2>. QED  BY <2>1, <2>2, <2>3, <2>4
<1>12. Less
  BY <1>11 DEF Less
<1>13. KindsOK'
  <2>1. n # 0
    BY DEF Gens
  <2>2. /\ ~Waits(TaskKinds \cup {"load"}, 0)'
        /\ \A g \in Gens : ~Waits({"stop"}, g)'
    BY <1>0, <1>10, <2>1 DEF KindsOK
  <2>. QED  BY <1>0, <1>1, <2>2 DEF KindsOK
<1>14. HelperOK'
  BY <1>0, <1>1, <1>3, <1>11 DEF HelperOK
<1>15. CurrentOK'
  <2>1. n = generation => task = n
    BY <1>0, <1>2 DEF CurrentOK
  <2>. QED  BY <1>0, <1>1, <1>3, <1>11, <2>1 DEF CurrentOK
<1>16. StopOK' /\ QuietOK'
  <2>1. StopOK'
    BY <1>0, <1>1, <1>10 DEF StopOK
  <2>2. QuietOK'
    BY <1>0, <1>1, <1>11 DEF QuietOK
  <2>. QED  BY <2>1, <2>2
<1>17. OrderOK' /\ ResultOK' /\ ShownOK'
  BY <1>0, <1>1, <1>12, OrderKept, SettledKept, ResultsKept
<1>. QED  BY <1>8, <1>13, <1>14, <1>15, <1>16, <1>17 DEF Protocol

-----------------------------------------------------------------------------
(***************************************************************************)
(* The blocks on _queue                                                    *)
(***************************************************************************)
\* The block at the head of the queue is taken, and may run.
LEMMA Taken ==
  ASSUME TypeOK, QueueOK, queue # << >>, queue' = Tail(queue), inHand' = inHand,
         \/ block' = NoBlock
         \/ block'.kind = Head(queue).kind /\ block'.gen = Head(queue).gen
  PROVE  Fewer /\ QueueOK'
<1>1. queue \in Seq(Blocks)
  BY DEF TypeOK
<1>2. \A kinds, g : Holds(queue, kinds, g) <=> Is(Head(queue), kinds, g) \/ Holds(queue', kinds, g)
  BY <1>1, HoldsTail
<1>3. Ordered(queue') /\ Follows(Head(queue), queue')
  BY <1>1, OrderedTail DEF QueueOK
<1>4. CASE block' = NoBlock
  <2>1. Fewer
    BY <1>2, <1>4, NoBlockIs DEF Fewer, Waits
  <2>. QED  BY <1>3, <1>4, <2>1, NoBlockIs DEF QueueOK
<1>5. CASE block'.kind = Head(queue).kind /\ block'.gen = Head(queue).gen
  <2>1. \A kinds, g : Is(block', kinds, g) <=> Is(Head(queue), kinds, g)
    BY <1>5 DEF Is
  <2>2. Fewer
    BY <1>2, <2>1 DEF Fewer, Waits
  <2>3. Follows(block', queue')
    BY <1>3, <1>5 DEF Follows, Precedes
  <2>. QED  BY <1>3, <2>2, <2>3 DEF QueueOK
<1>. QED  BY <1>4, <1>5

LEMMA TakeBlockStep ==
  ASSUME IInv, TakeBlock
  PROVE  Protocol'
<1> DEFINE b == Head(queue)
<1>0. TypeOK /\ KindsOK /\ QueueOK /\ OrderOK /\ HelperOK /\ CurrentOK
  BY DEF IInv, Protocol
<1>1. /\ queue # << >> /\ queue' = Tail(queue) /\ b.kind \in TaskKinds
      /\ block' = NoBlock \/ (block' = b /\ ~Stale(b))
      /\ UNCHANGED <<generation, state, main, loads, mainQueue, task, sent, helper, inHand>>
  BY DEF TakeBlock, Queue, TaskKinds, public, mainThread, taskVars, blockVars, process
<1>2. b = queue[1] /\ 1 \in 1 .. Len(queue) /\ 1 \in DOMAIN queue
  BY <1>0, <1>1 DEF TypeOK
<1>3. b.gen \in Gens /\ Waits(TaskKinds, b.gen)
  BY <1>0, <1>1, <1>2, BlockIs DEF Waits, Holds, Is
<1>4. Fewer /\ QueueOK'
  <2>1. \/ block' = NoBlock
        \/ block'.kind = Head(queue).kind /\ block'.gen = Head(queue).gen
    BY <1>1
  <2>. QED  BY <1>0, <1>1, <2>1, Taken
<1>5. ASSUME ~Stale(b)  PROVE b.gen = task
  <2>1. b.gen = generation /\ (b.kind = "chunk" => task # 0)
    BY <1>5 DEF Stale
  <2>2. CASE b.kind = "chunk"
    <3>1. generation = loads /\ task \in Gens
      BY <1>0, <1>3, <2>1, <2>2 DEF TypeOK, Gens
    <3>2. Traces(b.gen) /\ Traces(task)
      BY <1>3 DEF Traces
    <3>3. b.gen <= task /\ task <= b.gen
      BY <1>0, <1>3, <2>1, <3>1, <3>2 DEF OrderOK, Gens
    <3>. QED  BY <1>3, <3>1, <3>3 DEF Gens
  <2>3. CASE b.kind \in {"term", "drain"}
    <3>1. Ending(b.gen)
      BY <1>0, <1>2, <2>3, QueuedWaits
    <3>. QED  BY <1>0, <1>3, <2>1, <3>1 DEF CurrentOK
  <2>. QED  BY <1>1, <2>2, <2>3 DEF TaskKinds
<1>6. block'.kind \in TaskKinds => block'.gen = task
  BY <1>1, <1>5, NoBlockIs DEF TaskKinds
<1>7. inHand' = NoBlock \/ inHand'.kind = "chunk"
  BY <1>0, <1>1 DEF KindsOK
<1>8. \A g \in Gens : /\ helper'[g].st # "none" => helper[g].st # "none"
                      /\ Runs(helper'[g]) => Runs(helper[g])
  BY <1>1
<1>. HIDE DEF b
<1>. QED  BY <1>1, <1>4, <1>6, <1>7, <1>8, FewerStep

LEMMA BeginTerminateStep ==
  ASSUME IInv, BeginTerminate
  PROVE  Protocol'
<1>0. TypeOK /\ KindsOK /\ QueueOK
  BY DEF IInv, Protocol
<1>1. /\ queue # << >> /\ queue' = Tail(queue) /\ Head(queue).kind \in {"load", "stop"}
      /\ block' = [Head(queue) EXCEPT !.at = "grace"]
      /\ UNCHANGED <<generation, state, main, loads, mainQueue, task, sent, helper, inHand>>
  BY DEF BeginTerminate, Queue, public, mainThread, taskVars, blockVars
<1>2. Head(queue) \in Blocks
  BY <1>0, <1>1 DEF TypeOK
<1>3. block'.kind = Head(queue).kind /\ block'.gen = Head(queue).gen
  BY <1>1, <1>2 DEF Blocks
<1>4. Fewer /\ QueueOK'
  BY <1>0, <1>1, <1>3, Taken
<1>5. block'.kind \notin TaskKinds
  BY <1>1, <1>3 DEF TaskKinds
<1>. QED  BY <1>0, <1>1, <1>4, <1>5, FewerStep DEF KindsOK

LEMMA EscalateStep ==
  ASSUME IInv, Escalate
  PROVE  Protocol'
<1>0. TypeOK /\ KindsOK /\ QueueOK /\ HelperOK
  BY DEF IInv, Protocol
<1>1. /\ block.at = "grace" /\ block' = [block EXCEPT !.at = "term"]
      /\ UNCHANGED <<generation, state, main, loads, mainQueue, task, sent, helper, inHand, queue>>
  BY DEF Escalate, public, mainThread, taskVars, blockVars, process
<1>2. block \in Blocks
  BY <1>0, <1>1 DEF TypeOK, NoBlock
<1>3. block'.kind = block.kind /\ block'.gen = block.gen
  BY <1>1, <1>2 DEF Blocks
<1>4. Fewer
  BY <1>1, <1>3 DEF Fewer, Waits, Is
<1>5. QueueOK'
  BY <1>0, <1>1, <1>3 DEF QueueOK, Follows, Precedes
<1>6. block'.kind \in TaskKinds => block'.gen = task
  BY <1>0, <1>3 DEF HelperOK
<1>. QED  BY <1>0, <1>1, <1>4, <1>5, <1>6, FewerStep DEF KindsOK

\* A helper that runs takes up another life.
LEMMA BecomeStep ==
  ASSUME IInv, NEW n \in Gens, NEW life \in Lives, Runs(helper[n]), Become(n, life)
  PROVE  Protocol'
<1>0. TypeOK /\ KindsOK /\ QueueOK /\ HelperOK
  BY DEF IInv, Protocol
<1>1. /\ helper' = [helper EXCEPT ![n] = life]
      /\ UNCHANGED <<generation, state, main, loads, mainQueue, task, sent, inHand, queue, block>>
  BY <1>0, BecomeType DEF public, mainThread, taskVars, blockVars
<1>2. helper[n].st # "none" /\ helper \in [Gens -> Lives]
  BY <1>0 DEF Runs, TypeOK
<1>3. \A g \in Gens : /\ helper'[g].st # "none" => helper[g].st # "none"
                      /\ Runs(helper'[g]) => Runs(helper[g])
  BY <1>1, <1>2
<1>4. Fewer
  BY <1>1 DEF Fewer, Waits
<1>5. QueueOK'
  BY <1>0, <1>1 DEF QueueOK
<1>6. block'.kind \in TaskKinds => block'.gen = task
  BY <1>0, <1>1 DEF HelperOK
<1>. QED  BY <1>0, <1>1, <1>3, <1>4, <1>5, <1>6, FewerStep DEF KindsOK

LEMMA KillStep ==
  ASSUME IInv, Kill
  PROVE  Protocol'
<1>1. TypeOK
  BY DEF IInv
<1>2. task \in Gens /\ Runs(helper[task]) /\ Become(task, Failed(helper[task]))
  BY <1>1 DEF Kill, HelperRuns, TypeOK
<1>3. Failed(helper[task]) \in Lives
  BY <1>1, <1>2, LivesType DEF TypeOK
<1>. QED  BY <1>2, <1>3, BecomeStep

LEMMA CrashStep ==
  ASSUME IInv, NEW n \in Gens, Crash(n)
  PROVE  Protocol'
<1>1. TypeOK
  BY DEF IInv
<1>2. Runs(helper[n]) /\ Become(n, Failed(helper[n]))
  BY DEF Crash
<1>3. Failed(helper[n]) \in Lives
  BY <1>1, LivesType DEF TypeOK
<1>. QED  BY <1>2, <1>3, BecomeStep

LEMMA HelperStepStep ==
  ASSUME IInv, NEW n \in Gens, HelperStep(n)
  PROVE  Protocol'
<1>1. TypeOK
  BY DEF IInv
<1>2. PICK life \in NextLives(helper[n], Asked(n)) : Become(n, life)
  BY DEF HelperStep
<1>3. life \in Lives
  <2>1. helper[n] \in Lives /\ Asked(n) \in BOOLEAN
    BY <1>1 DEF Asked, TypeOK
  <2>. QED  BY <1>2, <2>1, LivesType
<1>4. Runs(helper[n])
  <2>1. CASE helper[n].st \in {"work", "hold", "leave"}
    BY <2>1 DEF Runs
  <2>2. CASE helper[n].st \notin {"work", "hold", "leave"}
    BY <1>2, <2>2 DEF NextLives
  <2>. QED  BY <2>1, <2>2
<1>. QED  BY <1>2, <1>3, <1>4, BecomeStep

\* A block has processed output, and the task goes on.
LEMMA ProcessedStep ==
  ASSUME IInv, Fewer, QueueOK', task' = task, NEW events \in Seq(Events),
         block.kind \in TaskKinds, Process(block.gen, events, FALSE)
  PROVE  Protocol'
<1>0. /\ TypeOK /\ KindsOK /\ QueueOK /\ OrderOK /\ HelperOK /\ CurrentOK
      /\ StopOK /\ QuietOK /\ ResultOK /\ ShownOK
  BY DEF IInv, Protocol
<1> DEFINE g == block.gen
<1>1. g \in Gens /\ task = g /\ Traces(g)
  BY <1>0, BlockIs DEF Traces
<1>2. /\ \/ mainQueue' = mainQueue /\ sent' = sent
         \/ /\ g \notin sent /\ sent' = sent \cup {g}
            /\ \E r \in Results : r.gen = g /\ mainQueue' = Append(mainQueue, r)
      /\ block' = NoBlock
      /\ UNCHANGED <<generation, state, main, loads, helper, inHand>>
  BY <1>0, <1>1, ProcessIs DEF mainThread
<1>. HIDE DEF g
<1>3. KindsOK' /\ OrderOK' /\ HelperOK' /\ CurrentOK' /\ StopOK' /\ QuietOK' /\ Less
  <2>1. inHand' = NoBlock \/ inHand'.kind = "chunk"
    BY <1>0, <1>2 DEF KindsOK
  <2>2. block'.kind \in TaskKinds => block'.gen = task
    BY <1>2, NoBlockIs DEF TaskKinds
  <2>. QED  BY <1>0, <1>2, <2>1, <2>2, FewerKept
<1>4. ResultOK' /\ ShownOK'
  BY <1>0, <1>1, <1>2, <1>3, ProcessKeepsResults
<1>. QED  BY <1>3, <1>4 DEF Protocol

LEMMA AppendChunkStep ==
  ASSUME IInv, AppendChunk
  PROVE  Protocol'
<1> DEFINE parsed == Parse(buffer, block.data)
<1>0. TypeOK /\ KindsOK /\ QueueOK /\ HelperOK
  BY DEF IInv, Protocol
<1>1. block.kind \in TaskKinds /\ block \in Blocks /\ block.gen \in Gens
  BY <1>0, BlockIs DEF AppendChunk, TaskKinds
<1>2. parsed.events \in Seq(Events)
  <2>1. block.data \in Seq(PartsOf) /\ buffer \in Seq(PartsOf)
    BY <1>0, <1>1 DEF Blocks, TypeOK
  <2>. QED  BY <2>1, ParseType DEF Parsed
<1>3. Process(block.gen, parsed.events, FALSE) /\ UNCHANGED <<queue, task>>
  BY DEF AppendChunk
<1>. HIDE DEF parsed
<1>4. block' = NoBlock /\ inHand' = inHand
  BY <1>3 DEF Process
<1>5. Fewer
  BY <1>3, <1>4, NoBlockIs DEF Fewer, Waits
<1>6. QueueOK'
  BY <1>0, <1>3, <1>4, NoBlockIs DEF QueueOK
<1>. QED  BY <1>1, <1>2, <1>3, <1>5, <1>6, ProcessedStep

LEMMA ReadRestStep ==
  ASSUME IInv, ReadRest
  PROVE  Protocol'
<1> DEFINE parsed == Parse(buffer, pipe[block.gen])
           drain == Block("drain", block.gen, << >>)
<1>0. TypeOK /\ KindsOK /\ QueueOK /\ HelperOK
  BY DEF IInv, Protocol
<1>1. /\ block.kind = "term" /\ block.kind \in TaskKinds
      /\ block \in Blocks /\ block.gen \in Gens
  BY <1>0, BlockIs DEF ReadRest, TaskKinds
<1>2. parsed.events \in Seq(Events)
  <2>1. pipe[block.gen] \in Seq(PartsOf) /\ buffer \in Seq(PartsOf)
    BY <1>0, <1>1 DEF TypeOK
  <2>. QED  BY <2>1, ParseType DEF Parsed
<1>3. /\ Process(block.gen, parsed.events, FALSE) /\ task' = task
      /\ queue' = Append(queue, drain)
  BY DEF ReadRest
<1>4. drain \in Blocks /\ drain.kind = "drain" /\ drain.gen = block.gen
  BY <1>1, BlockType DEF Block
<1>. HIDE DEF parsed, drain
<1>5. block' = NoBlock /\ inHand' = inHand
  BY <1>3 DEF Process
<1>6. queue \in Seq(Blocks)
  BY <1>0 DEF TypeOK
<1>7. ASSUME NEW i \in 1 .. Len(queue)
      PROVE  Precedes(queue[i], drain)
  <2>1. i \in DOMAIN queue
    BY <1>6
  <2>2. queue[i].kind \in {"term", "drain"} => queue[i].gen # block.gen
    BY <1>0, <1>1, <2>1 DEF QueueOK, Follows, Precedes
  <2>. QED  BY <1>4, <2>2 DEF Precedes
<1>8. QueueOK'
  <2>1. Ordered(queue')
    BY <1>0, <1>3, <1>4, <1>6, <1>7, OrderedAppend DEF QueueOK
  <2>. QED  BY <1>5, <2>1, NoBlockIs DEF QueueOK
<1>9. Fewer
  <2>1. \A kinds, n : Holds(queue', kinds, n) <=> Holds(queue, kinds, n) \/ Is(drain, kinds, n)
    BY <1>3, <1>4, <1>6, HoldsAppend
  <2>2. \A kinds \in KindSets : "drain" \in kinds => "term" \in kinds
    BY DEF KindSets, TaskKinds
  <2>3. \A kinds \in KindSets : \A n : Is(drain, kinds, n) => Is(block, kinds, n)
    BY <1>1, <1>4, <2>2 DEF Is
  <2>. QED  BY <1>5, <2>1, <2>3, NoBlockIs DEF Fewer, Waits
<1>. QED  BY <1>1, <1>2, <1>3, <1>8, <1>9, ProcessedStep

\* A block has run: what waited behind it waits, and follows it.
LEMMA BlockGone ==
  ASSUME TypeOK, KindsOK, QueueOK, HelperOK, queue' = queue, inHand' = inHand, block' = NoBlock
  PROVE  /\ Fewer /\ QueueOK'
         /\ \A g \in Gens : /\ Pending(g)' => Pending(g)
                            /\ Ending(g)' => Ending(g)
                            /\ Waits(TaskKinds, g)' => Waits(TaskKinds, g)
         /\ block.kind = "load" => \A g \in Gens : Pending(g)' => block.gen < g
         /\ block.kind = "stop" => ~Waits({"stop"}, 0)' /\ \A g \in Gens : ~Pending(g)'
         /\ block.kind = "drain" => \A g \in Gens : g = block.gen => ~Ending(g)'
<1>1. Fewer
  BY NoBlockIs DEF Fewer, Waits
<1>2. QueueOK'
  BY NoBlockIs DEF QueueOK
<1>3. \A g \in Gens : /\ Waits({"load"}, g)' => Waits({"load"}, g)
                      /\ Waits({"term", "drain"}, g)' => Waits({"term", "drain"}, g)
                      /\ Waits(TaskKinds, g)' => Waits(TaskKinds, g)
  BY <1>1 DEF Fewer, KindSets
<1>4. inHand = NoBlock \/ inHand.kind = "chunk"
  BY DEF KindsOK
<1>5. \A kinds, g :
        "chunk" \notin kinds /\ "none" \notin kinds /\ Waits(kinds, g)' =>
          \E i \in DOMAIN queue : Is(queue[i], kinds, g) /\ Precedes(block, queue[i])
  BY <1>4, NoBlockIs DEF Waits, Holds, Is, QueueOK, Follows
<1>6. ASSUME block.kind = "load", NEW g \in Gens, Pending(g)'  PROVE block.gen < g
  <2>1. PICK i \in DOMAIN queue : Is(queue[i], {"load"}, g) /\ Precedes(block, queue[i])
    BY <1>5, <1>6 DEF Pending
  <2>. QED  BY <1>6, <2>1 DEF Is, Precedes
<1>7. ASSUME block.kind = "stop"  PROVE ~Waits({"stop"}, 0)' /\ \A g \in Gens : ~Pending(g)'
  <2>1. \A i \in DOMAIN queue : Precedes(block, queue[i]) => queue[i].kind \notin {"load", "stop"}
    BY <1>7 DEF Precedes
  <2>2. \A g \in Gens : ~Waits({"load"}, g)'
    BY <1>5, <2>1 DEF Is
  <2>3. ~Waits({"stop"}, 0)'
    BY <1>5, <2>1 DEF Is
  <2>. QED  BY <2>2, <2>3 DEF Pending
<1>8. ASSUME block.kind = "drain", NEW g \in Gens, g = block.gen  PROVE ~Ending(g)'
  <2>1. \A i \in DOMAIN queue :
          Precedes(block, queue[i]) => ~Is(queue[i], {"term", "drain"}, g)
    BY <1>8 DEF Precedes, Is
  <2>2. ~Waits({"term", "drain"}, g)'
    BY <1>5, <2>1
  <2>. QED  BY <2>2 DEF Ending
<1>. QED  BY <1>1, <1>2, <1>3, <1>6, <1>7, <1>8 DEF Pending, Ending

LEMMA DrainStep ==
  ASSUME IInv, Drain
  PROVE  Protocol'
<1> DEFINE n == block.gen
<1>0. /\ TypeOK /\ KindsOK /\ QueueOK /\ OrderOK /\ HelperOK /\ CurrentOK
      /\ StopOK /\ QuietOK /\ ResultOK /\ ShownOK
  BY DEF IInv, Protocol
<1>1. block.kind = "drain" /\ n \in Gens /\ task = n /\ n # 0
  BY <1>0, BlockIs DEF Drain, TaskKinds, Gens
<1>2. PICK events \in {<< >>} \cup {<<part.event>> : part \in Range(buffer)} :
        Process(block.gen, events, TRUE)
  BY DEF Drain
<1>3. events \in Seq(Events)
  BY <1>0, <1>2, DrainEvents
<1>4. /\ \/ mainQueue' = mainQueue /\ sent' = sent
         \/ /\ n \notin sent /\ sent' = sent \cup {n}
            /\ \E r \in Results : r.gen = n /\ mainQueue' = Append(mainQueue, r)
      /\ ClearTask /\ block' = NoBlock
      /\ UNCHANGED <<generation, state, main, loads, helper, inHand>>
  BY <1>0, <1>1, <1>2, <1>3, ProcessIs DEF mainThread
<1>5. queue' = queue /\ task' = 0
  BY <1>4 DEF Drain, ClearTask
<1>6. /\ Fewer /\ QueueOK'
      /\ \A g \in Gens : /\ Pending(g)' => Pending(g)
                         /\ Ending(g)' => Ending(g)
                         /\ Waits(TaskKinds, g)' => Waits(TaskKinds, g)
      /\ \A g \in Gens : g = n => ~Ending(g)'
  BY <1>0, <1>1, <1>4, <1>5, BlockGone
<1>7. Ending(n)
  BY <1>0, <1>1, RunningWaits
<1>. HIDE DEF n
<1>8. Less
  BY <1>4, <1>5, <1>6 DEF Less, Traces, Gens
<1>9. helper[n].st = "none" /\ \A g \in Gens : ~Runs(helper[g])
  <2>1. helper[n].st = "none"
    BY <1>0, <1>1, <1>7 DEF HelperOK
  <2>. QED  BY <1>0, <1>1, <2>1 DEF HelperOK, Runs
<1>10. KindsOK'
  <2>1. ~Waits(TaskKinds \cup {"load"}, 0)' /\ \A g \in Gens : ~Waits({"stop"}, g)'
    BY <1>0, <1>6 DEF KindsOK, Fewer, KindSets
  <2>. QED  BY <1>0, <1>4, <2>1 DEF KindsOK
<1>11. HelperOK'
  BY <1>0, <1>4, <1>6, <1>9, NoBlockIs DEF HelperOK, TaskKinds
<1>12. CurrentOK'
  <2>1. ASSUME NEW g \in Gens, g = generation, Ending(g)' \/ helper[g].st # "none"
        PROVE  FALSE
    <3>1. task = g
      BY <1>0, <1>6, <2>1 DEF CurrentOK
    <3>. QED  BY <1>1, <1>6, <1>9, <2>1, <3>1
  <2>. QED  BY <1>0, <1>4, <2>1 DEF CurrentOK
<1>13. StopOK'
  BY <1>0, <1>4, <1>6 DEF StopOK, Fewer, KindSets
<1>14. QuietOK'
  BY <1>0, <1>4, <1>6 DEF QuietOK
<1>15. OrderOK'
  BY <1>0, <1>4, <1>5, <1>8, OrderKept
<1>16. ResultOK' /\ ShownOK'
  <2>1. Traces(n)
    BY <1>1 DEF Traces
  <2>. QED  BY <1>0, <1>1, <1>4, <1>8, <2>1, ProcessKeepsResults
<1>. QED  BY <1>6, <1>10, <1>11, <1>12, <1>13, <1>14, <1>15, <1>16 DEF Protocol

LEMMA StopStep ==
  ASSUME IInv, Stop
  PROVE  Protocol'
<1>0. /\ TypeOK /\ KindsOK /\ QueueOK /\ OrderOK /\ HelperOK /\ CurrentOK
      /\ StopOK /\ QuietOK /\ ResultOK /\ ShownOK
  BY DEF IInv, Protocol
<1>1. /\ block.kind = "stop" /\ ~HelperRuns /\ task' = 0
      /\ main' = "after" /\ block' = NoBlock
      /\ UNCHANGED <<generation, state, loads, mainQueue, queue, sent, helper, inHand>>
  BY DEF Stop, Terminated, ClearTask
<1>2. main = "sync" /\ generation = 0
  BY <1>0, <1>1, RunningWaits DEF StopOK, CurrentOK
<1>3. \A g \in Gens : ~Runs(helper[g])
  BY <1>0, <1>1 DEF HelperOK, HelperRuns, Gens
<1>4. /\ Fewer /\ QueueOK'
      /\ \A g \in Gens : /\ Pending(g)' => Pending(g)
                         /\ Ending(g)' => Ending(g)
                         /\ Waits(TaskKinds, g)' => Waits(TaskKinds, g)
      /\ ~Waits({"stop"}, 0)' /\ \A g \in Gens : ~Pending(g)'
  BY <1>0, <1>1, BlockGone
<1>5. Less
  BY <1>1, <1>4 DEF Less, Traces, Gens
<1>6. KindsOK'
  <2>1. ~Waits(TaskKinds \cup {"load"}, 0)' /\ \A g \in Gens : ~Waits({"stop"}, g)'
    BY <1>0, <1>4 DEF KindsOK, Fewer, KindSets
  <2>. QED  BY <1>0, <1>1, <2>1 DEF KindsOK
<1>7. HelperOK'
  BY <1>0, <1>1, <1>3, <1>4, NoBlockIs DEF HelperOK, TaskKinds
<1>8. CurrentOK'
  BY <1>1, <1>2 DEF CurrentOK, Gens
<1>9. StopOK' /\ ShownOK'
  BY <1>1, <1>4 DEF StopOK, ShownOK
<1>10. QuietOK'
  BY <1>1, <1>3, <1>4 DEF QuietOK
<1>11. OrderOK' /\ ResultOK'
  BY <1>0, <1>1, <1>5, OrderKept, SettledKept, ResultsKept
<1>. QED  BY <1>4, <1>6, <1>7, <1>8, <1>9, <1>10, <1>11 DEF Protocol

\* Every load that has left traces was begun before the one whose block runs.
LEMMA BeforeLaunch ==
  ASSUME IInv, NEW n \in Gens, n = block.gen, block.kind = "load", ~HelperRuns
  PROVE  /\ Pending(n) /\ n <= loads
         /\ \A g \in Gens : Traces(g) => g < n
         /\ \A g \in Gens : Settled(g) => g < n
         /\ \A g \in Gens : ~Runs(helper[g])
         /\ \A g \in Gens : Traces(g) => g # generation
         /\ ~Traces(n) /\ ~Settled(n)
<1>0. TypeOK /\ KindsOK /\ OrderOK /\ HelperOK
  BY DEF IInv, Protocol
<1>1. Pending(n) /\ n <= loads
  BY <1>0, RunningWaits DEF OrderOK
<1>2. \A g \in Gens : (Traces(g) => g < n) /\ (Settled(g) => g < n)
  BY <1>0, <1>1 DEF OrderOK, Settled
<1>3. \A g \in Gens : ~Runs(helper[g])
  BY <1>0 DEF HelperOK, HelperRuns, Gens
<1>4. \A g \in Gens : Traces(g) => g # generation
  <2>1. generation \in {0, loads} /\ loads \in Nat
    BY <1>0 DEF TypeOK
  <2>. QED  BY <1>1, <1>2, <2>1 DEF Gens
<1>5. ~(n < n)
  BY DEF Gens
<1>. QED  BY <1>1, <1>2, <1>3, <1>4, <1>5

LEMMA LaunchStep ==
  ASSUME IInv, Launch
  PROVE  Protocol'
<1>0. /\ TypeOK /\ KindsOK /\ QueueOK /\ OrderOK /\ HelperOK /\ CurrentOK
      /\ StopOK /\ QuietOK /\ ResultOK /\ ShownOK
  BY DEF IInv, Protocol
<1>1. /\ block.kind = "load" /\ ~HelperRuns /\ block' = NoBlock
      /\ UNCHANGED <<generation, state, main, loads, queue, sent, inHand>>
  BY DEF Launch, Terminated, public, mainThread
<1>2. PICK n \in Gens : n = block.gen
  BY <1>0, <1>1, BlockIs
<1>3. /\ Pending(n) /\ n <= loads
      /\ \A g \in Gens : Traces(g) => g < n
      /\ \A g \in Gens : Settled(g) => g < n
      /\ \A g \in Gens : ~Runs(helper[g])
      /\ \A g \in Gens : Traces(g) => g # generation
      /\ ~Traces(n) /\ ~Settled(n)
  BY <1>1, <1>2, BeforeLaunch
<1>4. /\ Fewer /\ QueueOK'
      /\ \A g \in Gens : /\ Pending(g)' => Pending(g)
                         /\ Ending(g)' => Ending(g)
                         /\ Waits(TaskKinds, g)' => Waits(TaskKinds, g)
      /\ \A g \in Gens : Pending(g)' => n < g
  BY <1>0, <1>1, <1>2, BlockGone
<1>5. KindsOK'
  <2>1. ~Waits(TaskKinds \cup {"load"}, 0)' /\ \A g \in Gens : ~Waits({"stop"}, g)'
    BY <1>0, <1>4 DEF KindsOK, Fewer, KindSets
  <2>. QED  BY <1>0, <1>1, <2>1 DEF KindsOK
<1>6. StopOK'
  BY <1>0, <1>1, <1>4 DEF StopOK, Fewer, KindSets
<1>7. QuietOK'
  BY <1>0, <1>1, <1>2, <1>3 DEF QuietOK
<1>8. \A g \in Gens : Ending(g) \/ helper[g].st # "none" => Traces(g)
  BY DEF Ending, Traces, Waits, Holds, Is, TaskKinds
<1>9. \/ /\ task' = n /\ mainQueue' = mainQueue
         /\ helper' = [helper EXCEPT ![n] = Life("work", FALSE)]
      \/ /\ task' = 0 /\ helper' = helper
         /\ mainQueue' = Append(mainQueue, Finish(n, "failed", 0))
  BY <1>2 DEF Launch, ClearTask
<1>10. CASE /\ task' = n /\ mainQueue' = mainQueue
            /\ helper' = [helper EXCEPT ![n] = Life("work", FALSE)]
  <2>1. \A g \in Gens : g # n => helper'[g] = helper[g]
    BY <1>10
  <2>2. \A g \in Gens : Traces(g)' => Traces(g) \/ g = n
    BY <1>4, <1>10, <2>1 DEF Traces
  <2>3. OrderOK'
    <3>1. \A g \in Gens : Traces(g)' => g <= n
      BY <1>2, <1>3, <2>2 DEF Gens
    <3>2. \A g \in Gens : Pending(g)' \/ Traces(g)' => g <= loads
      BY <1>0, <1>3, <1>4, <2>2 DEF OrderOK
    <3>3. \A g, p \in Gens : Traces(g)' /\ Pending(p)' => g < p
      BY <1>0, <1>4, <2>2 DEF OrderOK
    <3>. QED  BY <1>1, <1>10, <3>1, <3>2, <3>3 DEF OrderOK
  <2>4. HelperOK'
    <3>1. \A g \in Gens : Runs(helper'[g]) => g = n
      BY <1>3, <2>1
    <3>2. \A g \in Gens : Ending(g)' => helper'[g].st = "none"
      BY <1>0, <1>3, <1>4, <1>8, <2>1 DEF HelperOK
    <3>. QED  BY <1>1, <1>10, <3>1, <3>2, NoBlockIs DEF HelperOK, TaskKinds
  <2>5. CurrentOK'
    <3>1. ASSUME NEW g \in Gens, g = generation, Ending(g)' \/ helper'[g].st # "none"
          PROVE  g = n
      <4>1. ASSUME g # n  PROVE Traces(g)
        BY <1>4, <1>8, <2>1, <3>1, <4>1
      <4>. QED  BY <1>3, <3>1, <4>1
    <3>. QED  BY <1>0, <1>1, <1>10, <3>1 DEF CurrentOK
  <2>6. SettledStay
    BY <1>1, <1>3, <1>4, <2>2 DEF SettledStay, Settled
  <2>7. ResultOK' /\ ShownOK'
    BY <1>0, <1>1, <1>10, <2>6, ResultsKept
  <2>. QED  BY <1>4, <1>5, <1>6, <1>7, <2>3, <2>4, <2>5, <2>7 DEF Protocol
<1>11. CASE /\ task' = 0 /\ helper' = helper
            /\ mainQueue' = Append(mainQueue, Finish(n, "failed", 0))
  <2>1. Less
    BY <1>4, <1>11 DEF Less, Traces, Gens
  <2>2. OrderOK' /\ SettledStay
    BY <1>0, <1>1, <1>11, <2>1, OrderKept, SettledKept
  <2>3. HelperOK'
    BY <1>0, <1>1, <1>3, <1>4, <1>11, NoBlockIs DEF HelperOK, TaskKinds
  <2>4. CurrentOK'
    BY <1>0, <1>1, <1>3, <1>4, <1>8, <1>11 DEF CurrentOK
  <2>5. Settled(n)'
    BY <1>1, <1>2, <1>3, <1>4, <2>1 DEF Settled, Less
  <2>6. /\ Finish(n, "failed", 0) \in Results
        /\ Finish(n, "failed", 0).gen = n /\ Finish(n, "failed", 0).state # "loaded"
    BY <1>2 DEF Finish, Results
  <2>7. ResultOK' /\ ShownOK'
    BY <1>0, <1>1, <1>2, <1>3, <1>11, <2>2, <2>5, <2>6, ResultAdded
  <2>. QED  BY <1>4, <1>5, <1>6, <1>7, <2>2, <2>3, <2>4, <2>7 DEF Protocol
<1>. QED  BY <1>9, <1>10, <1>11

-----------------------------------------------------------------------------
LEMMA InitIInv ==
  ASSUME Init
  PROVE  IInv
<1>. USE SessionAssumption
<1>1. TypeOK
  <2>1. helper \in [Gens -> Lives]
    <3>1. Life("none", FALSE) \in Lives
      BY LivesType
    <3>. QED  BY <3>1 DEF Init
  <2>2. pipe \in [Gens -> Seq(PartsOf)] /\ buffer \in Seq(PartsOf)
    BY BlockType DEF Init
  <2>3. /\ details \in Seq([gen : Gens, event : Events])
        /\ mainQueue \in Seq(Results) /\ queue \in Seq(Blocks)
    BY DEF Init
  <2>4. /\ {block, inHand} \subseteq Blocks \cup {NoBlock}
        /\ {reading, cut, ready} \subseteq BOOLEAN /\ sent \subseteq Gens
    BY DEF Init
  <2>5. /\ generation \in {0, loads} /\ loads \in 0 .. MaxLoads
        /\ numLoaded \in Nat /\ counted \in Nat
        /\ task \in Gens \cup {0} /\ (task = 0 => ~reading /\ buffer = << >>)
        /\ state = "idle" /\ main = "idle" /\ status = "none"
    BY DEF Init
  <2>. QED  BY <2>1, <2>2, <2>3, <2>4, <2>5 DEF TypeOK
<1>2. \A kinds, g : "none" \notin kinds => ~Waits(kinds, g)
  BY NoBlockIs DEF Init, Waits, Holds
<1>3. \A g \in Gens : ~Pending(g) /\ ~Ending(g) /\ ~Traces(g) /\ helper[g].st = "none"
  BY <1>2 DEF Init, Pending, Ending, Traces, TaskKinds, Life, Gens
<1>4. KindsOK /\ StopOK
  BY <1>2 DEF Init, KindsOK, StopOK, TaskKinds
<1>5. QueueOK
  BY NoBlockIs DEF Init, QueueOK, Ordered
<1>6. OrderOK /\ HelperOK
  BY <1>3, NoBlockIs DEF Init, OrderOK, HelperOK, Runs, TaskKinds
<1>7. CurrentOK /\ QuietOK
  BY <1>3 DEF Init, CurrentOK, QuietOK, Runs
<1>8. ResultOK /\ ShownOK
  BY DEF Init, ResultOK, ShownOK
<1>. QED  BY <1>1, <1>4, <1>5, <1>6, <1>7, <1>8 DEF IInv, Protocol

LEMMA NextIInv ==
  ASSUME IInv, [Next]_vars
  PROVE  IInv'
<1>0. TypeOK /\ KindsOK /\ QueueOK /\ HelperOK
  BY DEF IInv, Protocol
<1>1. TypeOK'
  BY <1>0, NextTypeOK
<1>2. CASE Load
  <2>1. BeginLoad /\ main = "idle" /\ main' = "idle"
    BY <1>2 DEF Load
  <2>. QED  BY <1>1, <1>2, <2>1, BeginLoadStep DEF IInv, Load
<1>3. CASE Unload
  BY <1>1, <1>3, UnloadStep DEF IInv
<1>4. CASE Unloaded
  <2>1. /\ main = "after"
        /\ UNCHANGED <<mainQueue, block, taskVars, blockVars, process, inHand>>
    BY <1>4 DEF Unloaded
  <2>2. CASE /\ main' \in {"idle", "gone"} /\ state' = "idle" /\ numLoaded' = 0
             /\ UNCHANGED <<generation, details, loads, queue>>
    BY <1>1, <2>1, <2>2, UnloadedStep DEF IInv
  <2>3. CASE loads > 0 /\ main' = "idle" /\ BeginLoad
    BY <1>1, <2>1, <2>3, BeginLoadStep DEF IInv
  <2>. QED  BY <1>4, <2>2, <2>3 DEF Unloaded
<1>5. CASE RunFinish
  BY <1>1, <1>5, RunFinishStep DEF IInv
<1>6. CASE Handler
  BY <1>1, <1>6, ReadStep, DispatchStep, TerminationStep DEF IInv, Handler
<1>7. CASE QueueThread
  BY <1>1, <1>7, TakeBlockStep, AppendChunkStep, ReadRestStep, DrainStep, BeginTerminateStep,
     EscalateStep, KillStep, StopStep, LaunchStep DEF IInv, QueueThread
<1>8. CASE Helper
  BY <1>1, <1>8, HelperStepStep DEF IInv, Helper
<1>9. CASE \E g \in Gens : Crash(g)
  BY <1>1, <1>9, CrashStep DEF IInv
<1>10. CASE UNCHANGED vars
  <2>1. /\ UNCHANGED <<generation, state, main, loads, mainQueue, task, sent, helper>>
        /\ UNCHANGED <<queue, block, inHand>>
    BY <1>10 DEF vars, public, mainThread, taskVars, blockVars, process
  <2>2. Fewer /\ QueueOK'
    BY <1>0, <2>1 DEF Fewer, Waits, QueueOK
  <2>3. inHand' = NoBlock \/ inHand'.kind = "chunk"
    BY <1>0, <2>1 DEF KindsOK
  <2>4. block'.kind \in TaskKinds => block'.gen = task
    BY <1>0, <2>1 DEF HelperOK
  <2>5. \A g \in Gens : /\ helper'[g].st # "none" => helper[g].st # "none"
                        /\ Runs(helper'[g]) => Runs(helper[g])
    BY <2>1
  <2>6. Protocol'
    BY <2>1, <2>2, <2>3, <2>4, <2>5, FewerStep
  <2>. QED  BY <1>1, <2>6 DEF IInv
<1>. QED  BY <1>2, <1>3, <1>4, <1>5, <1>6, <1>7, <1>8, <1>9, <1>10 DEF Next, Main, Ended

\* The invariant holds throughout every behaviour, for any number of loads.
THEOREM Invariance == Spec => []IInv
<1>1. Init => IInv
  BY InitIInv
<1>2. IInv /\ [Next]_vars => IInv'
  BY NextIInv
<1>. QED  BY <1>1, <1>2, PTL DEF Spec

-----------------------------------------------------------------------------
(***************************************************************************)
(* What follows from the invariant                                         *)
(***************************************************************************)
\* The manager's variables keep their types: a task, its buffer and its handler
\* come and go together, and what is parsed, counted and queued is well formed.
THEOREM SessionTypeCorrect == Spec => []TypeOK
<1>1. IInv => TypeOK
  BY DEF IInv
<1>. QED  BY <1>1, Invariance, PTL

\* Whatever the order of loads, unloads and answers: one helper runs at a time, for
\* a load starts its helper only after the old one has ended; and when unloadFonts
\* has returned, none runs and no queued load will start one.
THEOREM OneHelperRuns == Spec => []OneHelper
<1>1. IInv => OneHelper
  <2>. SUFFICES ASSUME IInv  PROVE OneHelper
    OBVIOUS
  <2>0. TypeOK /\ KindsOK /\ HelperOK /\ QuietOK
    BY DEF IInv, Protocol
  <2>1. \A g, h \in Running : g = h
    BY <2>0 DEF HelperOK, Running
  <2>2. ASSUME (main = "idle" /\ state = "idle") \/ main = "gone"
        PROVE  Running = {} /\ (\A i \in DOMAIN queue : queue[i].kind # "load") /\ block.kind # "load"
    <3>1. \A g \in Gens : ~Runs(helper[g]) /\ ~Pending(g)
      BY <2>0, <2>2 DEF QuietOK
    <3>2. Running = {}
      BY <3>1 DEF Running
    <3>3. ASSUME NEW i \in DOMAIN queue  PROVE queue[i].kind # "load"
      <4>1. i \in 1 .. Len(queue)
        BY <2>0 DEF TypeOK
      <4>. QED  BY <2>0, <3>1, <4>1, QueuedWaits
    <3>4. block.kind # "load"
      BY <2>0, <3>1, RunningWaits
    <3>. QED  BY <3>2, <3>3, <3>4
  <2>. QED  BY <2>1, <2>2 DEF OneHelper, IdleMeansNone
<1>. QED  BY <1>1, Invariance, PTL

\* What is shown as loaded is the load asked for last: a late answer for an earlier
\* one is not shown.
THEOREM LatestIsShown == Spec => []LoadedIsLatest
<1>1. IInv => LoadedIsLatest
  BY DEF IInv, Protocol, ShownOK, LoadedIsLatest
<1>. QED  BY <1>1, Invariance, PTL

\* A result is shown once: a failure after a success, a second ready event or the
\* end of the helper does not replace what the user sees.
THEOREM ShownResultStays == Spec => ResultStays
<1>1. ASSUME IInv, [Next]_vars, main = "idle", state \in {"loaded", "failed"},
             generation' = generation
      PROVE  state' = state /\ numLoaded' = numLoaded
  <2>0. TypeOK /\ KindsOK /\ HelperOK /\ StopOK /\ ShownOK
    BY <1>1 DEF IInv, Protocol
  <2>1. ~BeginLoad
    <3>1. generation \in {0, loads} /\ loads \in Nat
      BY <2>0, SessionAssumption DEF TypeOK
    <3>. QED  BY <1>1, <3>1 DEF BeginLoad
  <2>2. CASE Load
    BY <2>1, <2>2 DEF Load
  <2>3. CASE Unload
    BY <2>3 DEF Unload
  <2>4. CASE Unloaded
    BY <1>1, <2>4 DEF Unloaded
  <2>5. CASE RunFinish
    <3>1. 1 \in DOMAIN mainQueue /\ Head(mainQueue) = mainQueue[1]
      BY <2>0, <2>5 DEF RunFinish, TypeOK
    <3>2. Head(mainQueue).gen # generation
      BY <1>1, <2>0, <3>1 DEF ShownOK
    <3>. QED  BY <2>5, <3>2 DEF RunFinish
  <2>6. CASE Handler
    BY <2>6 DEF Handler, Read, Dispatch, TerminationHandler, public
  <2>7. CASE QueueThread
    <3>0. ASSUME NEW g, NEW events, NEW last, Process(g, events, last)
          PROVE  state' = state /\ numLoaded' = numLoaded
      BY <3>0 DEF Process
    <3>1. CASE TakeBlock \/ BeginTerminate \/ Escalate
      <4>1. public' = public
        BY <3>1 DEF TakeBlock, BeginTerminate, Escalate
      <4>. QED  BY <4>1 DEF public
    <3>2. CASE AppendChunk \/ ReadRest \/ Drain
      <4>1. CASE AppendChunk
        BY <3>0, <4>1 DEF AppendChunk
      <4>2. CASE ReadRest
        BY <3>0, <4>2 DEF ReadRest
      <4>3. CASE Drain
        BY <3>0, <4>3 DEF Drain
      <4>. QED  BY <3>2, <4>1, <4>2, <4>3
    <3>3. CASE Kill
      BY <3>3 DEF Kill, Become, public
    <3>4. CASE Launch
      BY <3>4 DEF Launch, public
    <3>5. CASE Stop
      BY <1>1, <2>0, <3>5, RunningWaits DEF Stop, StopOK
    <3>. QED  BY <2>7, <3>1, <3>2, <3>3, <3>4, <3>5 DEF QueueThread
  <2>8. CASE Helper \/ \E g \in Gens : Crash(g)
    BY <2>8 DEF Helper, HelperStep, Crash, Become, public
  <2>9. CASE UNCHANGED vars
    BY <2>9 DEF vars, public
  <2>. QED  BY <1>1, <2>2, <2>3, <2>4, <2>5, <2>6, <2>7, <2>8, <2>9 DEF Next, Main, Ended
<1>2. IInv /\ [Next]_vars =>
        [main = "idle" /\ state \in {"loaded", "failed"} /\ generation' = generation
           => state' = state /\ numLoaded' = numLoaded]_vars
  BY <1>1
<1>. QED  BY <1>2, Invariance, PTL DEF Spec, ResultStays

\* Once the task is that of the last load, the lines that are added are its own:
\* blocks of an earlier helper add none.
THEOREM OldLinesHaveEnded == Spec => OldLinesEnd
<1>1. ASSUME IInv, NEW events \in Seq(Events), NEW last \in BOOLEAN,
             block.kind \in TaskKinds, Process(block.gen, events, last),
             Len(details') > Len(details), task = generation
      PROVE  details'[Len(details')].gen = generation
  <2>0. TypeOK /\ KindsOK /\ HelperOK
    BY <1>1 DEF IInv, Protocol
  <2>1. block.gen \in Gens /\ block.gen = generation
    BY <1>1, <2>0, BlockIs
  <2>2. PICK new \in Seq(Lines(block.gen)) : details' = details \o new
    BY <1>1, <2>0, <2>1, ProcessIs
  <2>3. details \in Seq([gen : Gens, event : Events])
    BY <2>0 DEF TypeOK
  <2>4. Len(new) > 0 /\ details'[Len(details')] = new[Len(new)]
    BY <1>1, <2>2, <2>3
  <2>5. new[Len(new)] \in Lines(block.gen)
    BY <2>4
  <2>. QED  BY <2>1, <2>4, <2>5 DEF Lines
<1>2. ASSUME IInv, [Next]_vars, Len(details') > Len(details), generation # 0, task = generation
      PROVE  details'[Len(details')].gen = generation
  <2>0. TypeOK /\ KindsOK /\ HelperOK
    BY <1>2 DEF IInv, Protocol
  <2>1. Len(details) \in Nat /\ details' # details /\ details' # << >>
    BY <1>2, <2>0 DEF TypeOK
  <2>2. CASE AppendChunk
    <3>1. Parse(buffer, block.data).events \in Seq(Events)
      <4>1. block \in Blocks
        BY <2>0, <2>2, BlockIs DEF AppendChunk, TaskKinds
      <4>2. block.data \in Seq(PartsOf) /\ buffer \in Seq(PartsOf)
        BY <2>0, <4>1 DEF Blocks, TypeOK
      <4>. QED  BY <4>2, ParseType DEF Parsed
    <3>. QED  BY <1>1, <1>2, <2>2, <3>1 DEF AppendChunk, TaskKinds
  <2>3. CASE ReadRest
    <3>1. Parse(buffer, pipe[block.gen]).events \in Seq(Events)
      <4>1. block.gen \in Gens
        BY <2>0, <2>3, BlockIs DEF ReadRest, TaskKinds
      <4>2. pipe[block.gen] \in Seq(PartsOf) /\ buffer \in Seq(PartsOf)
        BY <2>0, <4>1 DEF TypeOK
      <4>. QED  BY <4>2, ParseType DEF Parsed
    <3>. QED  BY <1>1, <1>2, <2>3, <3>1 DEF ReadRest, TaskKinds
  <2>4. CASE Drain
    <3>1. PICK events \in {<< >>} \cup {<<part.event>> : part \in Range(buffer)} :
            Process(block.gen, events, TRUE)
      BY <2>4 DEF Drain
    <3>. QED  BY <1>1, <1>2, <2>0, <2>4, <3>1, DrainEvents DEF Drain, TaskKinds
  <2>5. CASE Load \/ Unload \/ Main
    BY <2>1, <2>5 DEF Load, Unload, Main, Unloaded, RunFinish, BeginLoad
  <2>6. CASE Handler
    BY <2>1, <2>6 DEF Handler, Read, Dispatch, TerminationHandler, public
  <2>7. CASE TakeBlock \/ BeginTerminate \/ Escalate \/ Kill \/ Stop \/ Launch
    BY <2>1, <2>7 DEF TakeBlock, BeginTerminate, Escalate, Kill, Become, Stop, Launch, public
  <2>8. CASE Helper \/ \E g \in Gens : Crash(g)
    BY <2>1, <2>8 DEF Helper, HelperStep, Crash, Become, public
  <2>9. CASE UNCHANGED vars
    BY <2>1, <2>9 DEF vars, public
  <2>. QED  BY <1>2, <2>2, <2>3, <2>4, <2>5, <2>6, <2>7, <2>8, <2>9
            DEF Next, QueueThread, Ended
<1>3. IInv /\ [Next]_vars =>
        [Len(details') > Len(details) /\ generation # 0 /\ task = generation
           => details'[Len(details')].gen = generation]_vars
  BY <1>2
<1>. QED  BY <1>3, Invariance, PTL DEF Spec, OldLinesEnd

-----------------------------------------------------------------------------
(***************************************************************************)
(* What the report becomes on its way.  A helper that holds its fonts has  *)
(* written four parts: the two of its font line and the two of its ready   *)
(* line.                                                                   *)
(***************************************************************************)
Whole == Parts(<<Font(1), ReadyEvent(1)>>)

\* The parts after the first m, up to the n-th.
Middle(m, n) == SubSeq(Whole, m + 1, n)

\* What is left in the buffer when n parts have been taken, and the events of the
\* lines that end among the parts of Middle(m, n).
OpenAt(n) == IF n \in {1, 3} THEN <<Whole[n]>> ELSE << >>
FontsIn(m, n) == IF m < 2 /\ n >= 2 THEN <<Font(1)>> ELSE << >>
ReadiesIn(m, n) == IF m < 4 /\ n >= 4 THEN <<ReadyEvent(1)>> ELSE << >>
SaidIn(m, n) == FontsIn(m, n) \o ReadiesIn(m, n)

LEMMA EventsAre ==
  /\ Font(1) \in Events /\ ReadyEvent(1) \in Events
  /\ Font(1).event = "font" /\ ReadyEvent(1).event = "ready"
  /\ Font(1).loaded = 1 /\ ReadyEvent(1).loaded = 1
  BY DEF Font, ReadyEvent, Events

LEMMA WholeIs ==
  /\ Whole \in Seq(PartsOf) /\ Len(Whole) = 4
  /\ Whole[1] = Part(Font(1), FALSE) /\ Whole[2] = Part(Font(1), TRUE)
  /\ Whole[3] = Part(ReadyEvent(1), FALSE) /\ Whole[4] = Part(ReadyEvent(1), TRUE)
<1> DEFINE two == <<Font(1), ReadyEvent(1)>>
<1>1. two \in Seq(Events) /\ Len(two) = 2 /\ two[1] = Font(1) /\ two[2] = ReadyEvent(1)
  BY EventsAre
<1>. HIDE DEF two
<1>2. Parts(two) = [i \in 1 .. 4 |-> Part(two[(i + 1) \div 2], i % 2 = 0)]
  BY <1>1, 2 * 2 = 4 DEF Parts
<1>3. Parts(two) \in Seq(PartsOf)
  BY <1>1, PartsType
<1>4. Len(Parts(two)) = 4
  BY <1>2
<1>5. /\ (1 + 1) \div 2 = 1 /\ (2 + 1) \div 2 = 1 /\ (3 + 1) \div 2 = 2 /\ (4 + 1) \div 2 = 2
      /\ 1 % 2 = 1 /\ 2 % 2 = 0 /\ 3 % 2 = 1 /\ 4 % 2 = 0
      /\ 1 \in 1 .. 4 /\ 2 \in 1 .. 4 /\ 3 \in 1 .. 4 /\ 4 \in 1 .. 4
  OBVIOUS
<1>6. /\ Parts(two)[1] = Part(two[1], FALSE) /\ Parts(two)[2] = Part(two[1], TRUE)
      /\ Parts(two)[3] = Part(two[2], FALSE) /\ Parts(two)[4] = Part(two[2], TRUE)
  <2>1. Parts(two)[1] = Part(two[(1 + 1) \div 2], 1 % 2 = 0)
    BY <1>2, <1>5, Zenon
  <2>2. Parts(two)[2] = Part(two[(2 + 1) \div 2], 2 % 2 = 0)
    BY <1>2, <1>5, Zenon
  <2>3. Parts(two)[3] = Part(two[(3 + 1) \div 2], 3 % 2 = 0)
    BY <1>2, <1>5, Zenon
  <2>4. Parts(two)[4] = Part(two[(4 + 1) \div 2], 4 % 2 = 0)
    BY <1>2, <1>5, Zenon
  <2>5. (1 % 2 = 0) = FALSE /\ (2 % 2 = 0) = TRUE /\ (3 % 2 = 0) = FALSE /\ (4 % 2 = 0) = TRUE
    BY <1>5
  <2>. QED  BY <1>5, <2>1, <2>2, <2>3, <2>4, <2>5
<1>. QED  BY <1>1, <1>3, <1>4, <1>6 DEF Whole, two

\* Its type alone.
LEMMA WholeType ==
  Whole \in Seq(PartsOf) /\ Len(Whole) = 4
  BY WholeIs

LEMMA MiddleIs ==
  ASSUME NEW m \in 0 .. 4, NEW n \in 0 .. 4, m <= n
  PROVE  /\ Middle(m, n) \in Seq(PartsOf) /\ Len(Middle(m, n)) = n - m
         /\ \A k \in 1 .. n - m : Middle(m, n)[k] = Whole[m + k]
<1>1. Whole \in Seq(PartsOf) /\ 1 .. Len(Whole) = 1 .. 4
  BY WholeType
<1>2. \A i \in 1 .. n - m : m + i \in 1 .. 4 /\ m + 1 + i - 1 = m + i
  OBVIOUS
<1>3. SubSeq(Whole, m + 1, n) = [i \in 1 .. n - m |-> Whole[m + i]]
  BY <1>1, <1>2
<1>4. \A i \in 1 .. 4 : Whole[i] \in PartsOf
  BY <1>1
<1>. QED  BY <1>2, <1>3, <1>4 DEF Middle

\* A part of a part of the report.
LEMMA MiddleCut ==
  ASSUME NEW m \in 0 .. 4, NEW n \in 0 .. 4, m <= n, NEW k \in 0 .. n - m
  PROVE  /\ SubSeq(Middle(m, n), 1, k) = Middle(m, m + k)
         /\ SubSeq(Middle(m, n), k + 1, n - m) = Middle(m + k, n)
<1>1. /\ m + k \in 0 .. 4 /\ m <= m + k /\ m + k <= n
      /\ (m + k) - m = k
  OBVIOUS
<1>2. /\ Middle(m, n) \in Seq(PartsOf) /\ Len(Middle(m, n)) = n - m
      /\ \A i \in 1 .. n - m : Middle(m, n)[i] = Whole[m + i]
  BY MiddleIs
<1>3. /\ Middle(m, m + k) \in Seq(PartsOf) /\ Len(Middle(m, m + k)) = k
      /\ \A i \in 1 .. k : Middle(m, m + k)[i] = Whole[m + i]
  <2>1. /\ Middle(m, m + k) \in Seq(PartsOf) /\ Len(Middle(m, m + k)) = (m + k) - m
        /\ \A i \in 1 .. (m + k) - m : Middle(m, m + k)[i] = Whole[m + i]
    BY <1>1, MiddleIs, Zenon
  <2>. QED  BY <1>1, <2>1
<1>4. /\ Middle(m + k, n) \in Seq(PartsOf) /\ Len(Middle(m + k, n)) = n - (m + k)
      /\ \A i \in 1 .. n - (m + k) : Middle(m + k, n)[i] = Whole[m + k + i]
  BY <1>1, MiddleIs, Zenon
<1>5. SubSeq(Middle(m, n), 1, k) = Middle(m, m + k)
  BY <1>2, <1>3
<1>6. SubSeq(Middle(m, n), k + 1, n - m) = Middle(m + k, n)
  <2>1. Len(SubSeq(Middle(m, n), k + 1, n - m)) = n - (m + k)
    BY <1>2
  <2>2. \A i \in 1 .. n - (m + k) :
          SubSeq(Middle(m, n), k + 1, n - m)[i] = Middle(m + k, n)[i]
    <3>. TAKE i \in 1 .. n - (m + k)
    <3>1. SubSeq(Middle(m, n), k + 1, n - m)[i] = Middle(m, n)[k + i]
      BY <1>2
    <3>2. k + i \in 1 .. n - m /\ m + (k + i) = m + k + i
      OBVIOUS
    <3>. QED  BY <1>2, <1>4, <3>1, <3>2
  <2>. QED  BY <1>2, <1>4, <2>1, <2>2
<1>. QED  BY <1>5, <1>6

\* Nothing and all of it.
LEMMA MiddleEnds ==
  /\ \A n \in 0 .. 4 : Middle(n, n) = << >>
  /\ Middle(0, 4) = Whole
<1>1. ASSUME NEW n \in 0 .. 4  PROVE Middle(n, n) = << >>
  BY WholeType DEF Middle
<1>2. Middle(0, 4) = Whole
  BY WholeType DEF Middle
<1>. QED  BY <1>1, <1>2

\* One part more.
LEMMA MiddleAppend ==
  ASSUME NEW m \in 0 .. 4, NEW n \in 0 .. 3, m <= n
  PROVE  Middle(m, n + 1) = Append(Middle(m, n), Whole[n + 1]) /\ Whole[n + 1] \in PartsOf
<1>0. n \in 0 .. 4 /\ n + 1 \in 0 .. 4 /\ m <= n + 1 /\ n + 1 \in 1 .. 4
  OBVIOUS
<1>1. /\ Middle(m, n) \in Seq(PartsOf) /\ Len(Middle(m, n)) = n - m
      /\ \A i \in 1 .. n - m : Middle(m, n)[i] = Whole[m + i]
  BY <1>0, MiddleIs, Zenon
<1>2. /\ Middle(m, n + 1) \in Seq(PartsOf) /\ Len(Middle(m, n + 1)) = (n + 1) - m
      /\ \A i \in 1 .. (n + 1) - m : Middle(m, n + 1)[i] = Whole[m + i]
  BY <1>0, MiddleIs, Zenon
<1>3. Whole[n + 1] \in PartsOf
  <2>1. Whole \in Seq(PartsOf) /\ n + 1 \in 1 .. Len(Whole)
    BY <1>0, WholeType
  <2>. QED  BY <2>1
<1> DEFINE mid == Middle(m, n)
           longer == Middle(m, n + 1)
<1>4. /\ Append(mid, Whole[n + 1]) \in Seq(PartsOf)
      /\ Len(Append(mid, Whole[n + 1])) = (n + 1) - m /\ Len(longer) = (n + 1) - m
  BY <1>1, <1>2, <1>3
<1>5. ASSUME NEW i \in 1 .. (n + 1) - m  PROVE Append(mid, Whole[n + 1])[i] = longer[i]
  <2>1. longer[i] = Whole[m + i]
    BY <1>2
  <2>2. CASE i \in 1 .. n - m
    BY <1>1, <1>3, <2>1, <2>2
  <2>3. CASE i = n - m + 1
    <3>1. m + i = n + 1 /\ i = Len(mid) + 1
      BY <1>1, <2>3
    <3>2. Append(mid, Whole[n + 1])[i] = Whole[n + 1]
      BY <1>1, <1>3, <3>1
    <3>. QED  BY <2>1, <3>1, <3>2
  <2>4. i \in 1 .. n - m \/ i = n - m + 1
    OBVIOUS
  <2>. QED  BY <2>2, <2>3, <2>4, Zenon
<1>. HIDE DEF mid, longer
<1>6. longer = Append(mid, Whole[n + 1])
  <2>1. longer \in Seq(PartsOf)
    BY <1>2 DEF longer
  <2>. QED  BY <1>4, <1>5, <2>1
<1>. QED  BY <1>3, <1>6 DEF mid, longer

\* However a report is cut, each piece is parsed to the events of the lines that
\* end in it, and the part of a line is kept for the next piece.
LEMMA ParseMiddle ==
  ASSUME NEW m \in 0 .. 4, NEW n \in 0 .. 4, m <= n
  PROVE  Parse(OpenAt(m), Middle(m, n)) = [open |-> OpenAt(n), events |-> SaidIn(m, n)]
<1> DEFINE base == [open |-> OpenAt(m), events |-> << >>]
           At(k) == [open |-> OpenAt(k), events |-> SaidIn(m, k)]
<1>1. Parsing!Fold(base, Middle(m, m)) = At(m)
  <2>1. Middle(m, m) = << >>
    BY MiddleEnds
  <2>2. SaidIn(m, m) = << >>
    <3>1. FontsIn(m, m) = << >> /\ ReadiesIn(m, m) = << >>
      BY DEF FontsIn, ReadiesIn
    <3>. QED  BY <3>1 DEF SaidIn
  <2>3. base = At(m)
    BY <2>2, Zenon
  <2>. HIDE DEF base
  <2>. QED  BY <2>1, <2>3, Parsing!FoldEmpty
<1>2. ASSUME NEW k \in 0 .. 3, m <= k  PROVE AddPart(At(k), Whole[k + 1]) = At(k + 1)
  <2>0. /\ Whole[1] = Part(Font(1), FALSE) /\ Whole[2] = Part(Font(1), TRUE)
        /\ Whole[3] = Part(ReadyEvent(1), FALSE) /\ Whole[4] = Part(ReadyEvent(1), TRUE)
    BY WholeIs
  <2>1. CASE k = 0
    <3>1. At(0) = [open |-> << >>, events |-> << >>] /\ At(1) = [open |-> <<Whole[1]>>, events |-> << >>]
      <4>1. OpenAt(0) = << >> /\ OpenAt(1) = <<Whole[1]>>
        BY DEF OpenAt
      <4>2. FontsIn(m, 0) = << >> /\ ReadiesIn(m, 0) = << >>
            /\ FontsIn(m, 1) = << >> /\ ReadiesIn(m, 1) = << >>
        BY DEF FontsIn, ReadiesIn
      <4>. QED  BY <4>1, <4>2 DEF SaidIn
    <3>2. ~Whole[1].nl
      BY <2>0 DEF Part
    <3>3. AddPart(At(0), Whole[1]) = [At(0) EXCEPT !.open = Append(@, Whole[1])]
      BY <3>2, Zenon DEF AddPart
    <3>4. Append(<< >>, Whole[1]) = <<Whole[1]>>
      OBVIOUS
    <3>5. [At(0) EXCEPT !.open = Append(@, Whole[1])] = [open |-> <<Whole[1]>>, events |-> << >>]
      BY <3>1, <3>4
    <3>. QED  BY <2>1, <3>1, <3>3, <3>5, 0 + 1 = 1
  <2>2. CASE k = 1
    <3>1. /\ At(1) = [open |-> <<Whole[1]>>, events |-> << >>]
          /\ At(2) = [open |-> << >>, events |-> <<Font(1)>>]
      <4>1. OpenAt(1) = <<Whole[1]>> /\ OpenAt(2) = << >>
        BY DEF OpenAt
      <4>2. FontsIn(m, 1) = << >> /\ ReadiesIn(m, 1) = << >>
            /\ FontsIn(m, 2) = <<Font(1)>> /\ ReadiesIn(m, 2) = << >>
        BY <1>2, <2>2 DEF FontsIn, ReadiesIn
      <4>. QED  BY <4>1, <4>2 DEF SaidIn
    <3>2. Whole[2].nl /\ Whole[2].event = Font(1) /\ <<Whole[1]>> = <<Part(Font(1), FALSE)>>
      BY <2>0 DEF Part
    <3>3. AddPart(At(1), Whole[2]) = [open |-> << >>, events |-> Append(At(1).events, Font(1))]
      BY <3>1, <3>2, Zenon DEF AddPart
    <3>4. Append(<< >>, Font(1)) = <<Font(1)>>
      OBVIOUS
    <3>. QED  BY <2>2, <3>1, <3>3, <3>4, 1 + 1 = 2
  <2>3. CASE k = 2
    <3>1. OpenAt(2) = << >> /\ OpenAt(3) = <<Whole[3]>>
      BY DEF OpenAt
    <3>2. SaidIn(m, 2) = SaidIn(m, 3)
      BY <1>2, <2>3 DEF SaidIn, FontsIn, ReadiesIn
    <3>3. ~Whole[3].nl
      BY <2>0 DEF Part
    <3>4. AddPart(At(2), Whole[3]) = [At(2) EXCEPT !.open = Append(@, Whole[3])]
      BY <3>3, Zenon DEF AddPart
    <3>5. Append(<< >>, Whole[3]) = <<Whole[3]>>
      OBVIOUS
    <3>. QED  BY <2>3, <3>1, <3>2, <3>4, <3>5, 2 + 1 = 3
  <2>4. CASE k = 3
    <3>1. OpenAt(3) = <<Whole[3]>> /\ OpenAt(4) = << >>
      BY DEF OpenAt
    <3>2. SaidIn(m, 4) = Append(SaidIn(m, 3), ReadyEvent(1))
      <4>1. ReadiesIn(m, 3) = << >> /\ ReadiesIn(m, 4) = <<ReadyEvent(1)>>
            /\ FontsIn(m, 3) = FontsIn(m, 4)
        BY <1>2, <2>4 DEF FontsIn, ReadiesIn
      <4>2. FontsIn(m, 4) \in Seq(Events)
        BY EventsAre DEF FontsIn
      <4>3. \A s \in Seq(Events) : \A e : s \o << >> = s /\ s \o <<e>> = Append(s, e)
        OBVIOUS
      <4>4. SaidIn(m, 3) = FontsIn(m, 4) /\ SaidIn(m, 4) = Append(FontsIn(m, 4), ReadyEvent(1))
        BY <4>1, <4>2, <4>3, Zenon DEF SaidIn
      <4>. QED  BY <4>4
    <3>3. Whole[4].nl /\ Whole[4].event = ReadyEvent(1) /\ <<Whole[3]>> = <<Part(ReadyEvent(1), FALSE)>>
      BY <2>0 DEF Part
    <3>4. At(3).open = <<Whole[3]>> /\ At(3).events = SaidIn(m, 3)
      BY <3>1
    <3>5. AddPart(At(3), Whole[4]) = [open |-> << >>, events |-> Append(At(3).events, ReadyEvent(1))]
      BY <3>3, <3>4, Zenon DEF AddPart
    <3>. QED  BY <2>4, <3>1, <3>2, <3>4, <3>5, 3 + 1 = 4
  <2>. QED  BY <2>1, <2>2, <2>3, <2>4
<1>3. ASSUME NEW k \in 0 .. 3, m <= k, Parsing!Fold(base, Middle(m, k)) = At(k)
      PROVE  Parsing!Fold(base, Middle(m, k + 1)) = At(k + 1)
  <2>1. Middle(m, k + 1) = Append(Middle(m, k), Whole[k + 1]) /\ Whole[k + 1] \in PartsOf
    BY <1>3, MiddleAppend
  <2>3. Middle(m, k) \in Seq(PartsOf)
    BY <1>3, MiddleIs, k \in 0 .. 4, Zenon
  <2>. HIDE DEF base, At
  <2>2. Parsing!Fold(base, Append(Middle(m, k), Whole[k + 1]))
          = AddPart(Parsing!Fold(base, Middle(m, k)), Whole[k + 1])
    BY <2>1, <2>3, Parsing!FoldAppend
  <2>. QED  BY <1>2, <1>3, <2>1, <2>2
<1>4. Parsing!Fold(base, Middle(m, n)) = At(n)
  <2> DEFINE T == {k \in Nat : m <= k /\ k <= 4 => Parsing!Fold(base, Middle(m, k)) = At(k)}
  <2>. HIDE DEF base, At
  <2>1. 0 \in T
    BY <1>1
  <2>2. ASSUME NEW k \in Nat, k \in T  PROVE k + 1 \in T
    <3>. SUFFICES ASSUME m <= k + 1, k + 1 <= 4
                  PROVE  Parsing!Fold(base, Middle(m, k + 1)) = At(k + 1)
      OBVIOUS
    <3>1. CASE m = k + 1
      BY <1>1, <3>1
    <3>2. CASE m # k + 1
      <4>1. m <= k /\ k \in 0 .. 3 /\ k <= 4
        BY <3>2
      <4>. QED  BY <1>3, <2>2, <4>1
    <3>. QED  BY <3>1, <3>2
  <2>3. n \in T
    <3>. HIDE DEF T
    <3>. QED  BY <2>1, <2>2, Parsing!AllOfNat
  <2>. QED  BY <2>3
<1>5. Parse(OpenAt(m), Middle(m, n)) = Parsing!Fold(base, Middle(m, n))
  BY DEF Parse, Parsing!Fold, FoldLeft, Parsing!FoldLeft, MapThenFoldSet,
         Parsing!MapThenFoldSet, Max, Parsing!Max
<1>. QED  BY <1>4, <1>5

\* The number of fonts counted after n parts.
CountAt(n) == IF n >= 2 THEN 1 ELSE 0

\* What those events tell.
LEMMA ToldMiddle ==
  ASSUME NEW m \in 0 .. 4, NEW n \in 0 .. 4, m <= n
  PROVE  Told(CountAt(m), SaidIn(m, n))
           = [fonts |-> FontsIn(m, n), readies |-> ReadiesIn(m, n), loaded |-> CountAt(n)]
<1> DEFINE base == [fonts |-> << >>, readies |-> << >>, loaded |-> CountAt(m)]
           f == Font(1)
           r == ReadyEvent(1)
<1>0. /\ f \in Events /\ r \in Events /\ f.event = "font" /\ r.event = "ready"
      /\ f.loaded = 1 /\ r.loaded = 1
  BY EventsAre
<1>1. Told(CountAt(m), SaidIn(m, n)) = Telling!Fold(base, SaidIn(m, n))
  BY DEF Told, Telling!Fold, FoldLeft, Telling!FoldLeft, MapThenFoldSet,
         Telling!MapThenFoldSet, Max, Telling!Max
<1>. HIDE DEF f, r
<1>2. Telling!Fold(base, << >>) = base
  <2>. HIDE DEF base
  <2>. QED  BY Telling!FoldEmpty
<1>step. \A s \in Seq(Events), e \in Events :
           Telling!Fold(base, Append(s, e)) = TellEvent(Telling!Fold(base, s), e)
  <2>. HIDE DEF base
  <2>. QED  BY Telling!FoldAppend
<1>3. \A e \in Events : Telling!Fold(base, <<e>>) = TellEvent(base, e)
  <2>. TAKE e \in Events
  <2>1. <<e>> = Append(<< >>, e) /\ << >> \in Seq(Events)
    OBVIOUS
  <2>2. Telling!Fold(base, Append(<< >>, e)) = TellEvent(Telling!Fold(base, << >>), e)
    BY <1>step, <2>1
  <2>. HIDE DEF base
  <2>. QED  BY <1>2, <2>1, <2>2
<1>4. Telling!Fold(base, <<f, r>>) = TellEvent(TellEvent(base, f), r)
  <2>1. <<f, r>> = Append(<<f>>, r) /\ <<f>> \in Seq(Events)
    BY <1>0
  <2>2. Telling!Fold(base, Append(<<f>>, r)) = TellEvent(Telling!Fold(base, <<f>>), r)
    BY <1>0, <1>step, <2>1
  <2>. HIDE DEF base
  <2>. QED  BY <1>0, <1>3, <2>1, <2>2
<1>5. TellEvent(base, f) = [fonts |-> <<f>>, readies |-> << >>, loaded |-> CountAt(m) + 1]
  <2>1. TellEvent(base, f) = [base EXCEPT !.fonts = Append(@, f), !.loaded = @ + f.loaded]
    BY <1>0, Zenon DEF TellEvent
  <2>2. Append(<< >>, f) = <<f>>
    OBVIOUS
  <2>. QED  BY <1>0, <2>1, <2>2
<1>6. TellEvent(base, r) = [fonts |-> << >>, readies |-> <<r>>, loaded |-> 1]
  <2>1. "ready" # "font"
    OBVIOUS
  <2>2. TellEvent(base, r) = [base EXCEPT !.readies = Append(@, r), !.loaded = r.loaded]
    BY <1>0, <2>1, Zenon DEF TellEvent
  <2>3. Append(<< >>, r) = <<r>>
    OBVIOUS
  <2>. QED  BY <1>0, <2>2, <2>3
<1>7. TellEvent(TellEvent(base, f), r) = [fonts |-> <<f>>, readies |-> <<r>>, loaded |-> 1]
  <2> DEFINE mid == [fonts |-> <<f>>, readies |-> << >>, loaded |-> CountAt(m) + 1]
  <2>1. "ready" # "font"
    OBVIOUS
  <2>2. TellEvent(mid, r) = [mid EXCEPT !.readies = Append(@, r), !.loaded = r.loaded]
    BY <1>0, <2>1, Zenon DEF TellEvent
  <2>3. Append(<< >>, r) = <<r>>
    OBVIOUS
  <2>4. TellEvent(mid, r) = [fonts |-> <<f>>, readies |-> <<r>>, loaded |-> 1]
    BY <1>0, <2>2, <2>3
  <2>5. TellEvent(base, f) = mid
    BY <1>5
  <2>. HIDE DEF mid, base
  <2>. QED  BY <2>4, <2>5
<1>8. CASE ~(m < 2 /\ n >= 2) /\ ~(m < 4 /\ n >= 4)
  <2>1. FontsIn(m, n) = << >> /\ ReadiesIn(m, n) = << >> /\ CountAt(n) = CountAt(m)
    BY <1>8 DEF FontsIn, ReadiesIn, CountAt
  <2>2. SaidIn(m, n) = << >>
    BY <2>1 DEF SaidIn
  <2>. QED  BY <1>1, <1>2, <2>1, <2>2
<1>9. CASE (m < 2 /\ n >= 2) /\ ~(m < 4 /\ n >= 4)
  <2>1. FontsIn(m, n) = <<f>> /\ ReadiesIn(m, n) = << >> /\ CountAt(n) = 1 /\ CountAt(m) + 1 = 1
    BY <1>9 DEF FontsIn, ReadiesIn, CountAt, f
  <2>2. SaidIn(m, n) = <<f>>
    BY <2>1 DEF SaidIn
  <2>. HIDE DEF base
  <2>. QED  BY <1>0, <1>1, <1>3, <1>5, <2>1, <2>2
<1>10. CASE ~(m < 2 /\ n >= 2) /\ (m < 4 /\ n >= 4)
  <2>1. FontsIn(m, n) = << >> /\ ReadiesIn(m, n) = <<r>> /\ CountAt(n) = 1
    BY <1>10 DEF FontsIn, ReadiesIn, CountAt, r
  <2>2. SaidIn(m, n) = <<r>>
    BY <2>1 DEF SaidIn
  <2>. HIDE DEF base
  <2>. QED  BY <1>0, <1>1, <1>3, <1>6, <2>1, <2>2
<1>11. CASE (m < 2 /\ n >= 2) /\ (m < 4 /\ n >= 4)
  <2>1. FontsIn(m, n) = <<f>> /\ ReadiesIn(m, n) = <<r>> /\ CountAt(n) = 1
    BY <1>11 DEF FontsIn, ReadiesIn, CountAt, f, r
  <2>2. SaidIn(m, n) = <<f, r>>
    <3>1. <<f, r>> = Append(<<f>>, r) /\ <<f>> \in Seq(Events)
      BY <1>0
    <3>2. \A s \in Seq(Events) : \A e : s \o <<e>> = Append(s, e)
      OBVIOUS
    <3>. QED  BY <2>1, <3>1, <3>2, Zenon DEF SaidIn
  <2>. HIDE DEF base
  <2>. QED  BY <1>1, <1>4, <1>7, <2>1, <2>2
<1>. QED  BY <1>8, <1>9, <1>10, <1>11

-----------------------------------------------------------------------------
(***************************************************************************)
(* Where the report is.  Of the parts the helper of g has written, some    *)
(* are consumed; the next are in the chunk that runs, then in those on the *)
(* queue in their order, in the one about to be dispatched, and in the     *)
(* pipe.  "m" and "n" count parts from the first.                          *)
(***************************************************************************)
Carries(g, b, m, n) ==
  IF b.kind = "chunk" /\ b.gen = g
    THEN m <= n /\ b.data = Middle(m, n)
    ELSE n = m

Chain(g, q, m, n) ==
  \E at \in [1 .. Len(q) + 1 -> 0 .. 4] :
    /\ at[1] = m /\ at[Len(q) + 1] = n
    /\ \A k \in 1 .. Len(q) : Carries(g, q[k], at[k], at[k + 1])

Path(g, b, q, h, m, n) ==
  \E d, e \in 0 .. 4 : Carries(g, b, m, d) /\ Chain(g, q, d, e) /\ Carries(g, h, e, n)

\* What the parts consumed so far have left in the state.
LinesOf(g) == {i \in DOMAIN details : details[i] = [gen |-> g, event |-> Font(1)]}

Consumed(g, n) ==
  /\ buffer = OpenAt(n) /\ counted = CountAt(n)
  /\ IF n >= 2 THEN \E i \in DOMAIN details : LinesOf(g) = {i} ELSE LinesOf(g) = {}
  /\ ready <=> n = 4
  /\ g \in sent <=> n = 4
  /\ \A i \in DOMAIN mainQueue :
       mainQueue[i].gen = g => mainQueue[i] = Finish(g, "loaded", 1)
  /\ state = "loaded" => numLoaded = 1

Written(g) == IF helper[g].st = "hold" THEN 4 ELSE 0

Flow(g) ==
  \E n, p \in 0 .. 4 :
    /\ Consumed(g, n)
    /\ Path(g, block, queue, inHand, n, p)
    /\ p <= Written(g) /\ pipe[g] = Middle(p, Written(g))

\* The report of the load asked for last is on its way, or there.
FlowOK ==
  generation \in Gens /\ helper[generation].st \in {"work", "hold"} => Flow(generation)

\* A load that has still to run has left nothing.
NewOK ==
  \A g \in Gens :
    g \in sent \/ (\E i \in DOMAIN details : details[i].gen = g) => g <= loads /\ ~Pending(g)

FlowInv == IInv /\ FlowOK /\ NewOK

\* A block on the queue.
LEMMA ChainAppend ==
  ASSUME NEW g, NEW q \in Seq(Blocks), NEW b \in Blocks,
         NEW m \in 0 .. 4, NEW n \in 0 .. 4, NEW p \in 0 .. 4,
         Chain(g, q, m, n), Carries(g, b, n, p)
  PROVE  Chain(g, Append(q, b), m, p)
<1>1. PICK at \in [1 .. Len(q) + 1 -> 0 .. 4] :
        /\ at[1] = m /\ at[Len(q) + 1] = n
        /\ \A k \in 1 .. Len(q) : Carries(g, q[k], at[k], at[k + 1])
  BY DEF Chain
<1> DEFINE l == Len(q)
           to == [k \in 1 .. l + 1 + 1 |-> IF k = l + 1 + 1 THEN p ELSE at[k]]
<1>2. /\ l \in Nat /\ Len(Append(q, b)) = l + 1 /\ Append(q, b)[l + 1] = b
      /\ \A k \in 1 .. l : Append(q, b)[k] = q[k]
  OBVIOUS
<1>. HIDE DEF l
<1>3. /\ to \in [1 .. l + 1 + 1 -> 0 .. 4]
      /\ \A k \in 1 .. l + 1 : to[k] = at[k]
      /\ to[l + 1 + 1] = p
  BY <1>1, <1>2 DEF l
<1>. HIDE DEF to
<1>4. to[1] = m
  BY <1>1, <1>2, <1>3
<1>5. ASSUME NEW k \in 1 .. l + 1
      PROVE  Carries(g, Append(q, b)[k], to[k], to[k + 1])
  <2>1. CASE k \in 1 .. l
    <3>1. k + 1 \in 1 .. l + 1
      BY <1>2, <2>1
    <3>2. to[k] = at[k] /\ to[k + 1] = at[k + 1] /\ Append(q, b)[k] = q[k]
      BY <1>2, <1>3, <1>5, <2>1, <3>1
    <3>. QED  BY <1>1, <2>1, <3>2 DEF l
  <2>2. CASE k = l + 1
    <3>1. to[k] = n /\ to[k + 1] = p /\ Append(q, b)[k] = b
      BY <1>1, <1>2, <1>3, <1>5, <2>2 DEF l
    <3>. QED  BY <3>1
  <2>. QED  BY <1>2, <2>1, <2>2
<1>. QED  BY <1>2, <1>3, <1>4, <1>5 DEF Chain

\* The block that is taken from the queue.
LEMMA ChainHead ==
  ASSUME NEW g, NEW q \in Seq(Blocks), q # << >>,
         NEW m \in 0 .. 4, NEW n \in 0 .. 4, Chain(g, q, m, n)
  PROVE  \E d \in 0 .. 4 : Carries(g, Head(q), m, d) /\ Chain(g, Tail(q), d, n)
<1>1. PICK at \in [1 .. Len(q) + 1 -> 0 .. 4] :
        /\ at[1] = m /\ at[Len(q) + 1] = n
        /\ \A k \in 1 .. Len(q) : Carries(g, q[k], at[k], at[k + 1])
  BY DEF Chain
<1> DEFINE l == Len(q)
           to == [k \in 1 .. l - 1 + 1 |-> at[k + 1]]
<1>2. /\ l \in Nat /\ l # 0 /\ Len(Tail(q)) = l - 1 /\ Head(q) = q[1]
      /\ \A k \in 1 .. l - 1 : Tail(q)[k] = q[k + 1]
  OBVIOUS
<1>. HIDE DEF l
<1>3. at \in [1 .. l + 1 -> 0 .. 4] /\ at[1] = m /\ at[l + 1] = n
  BY <1>1 DEF l
<1>4. /\ to \in [1 .. l - 1 + 1 -> 0 .. 4]
      /\ \A k \in 1 .. l : to[k] = at[k + 1]
  BY <1>2, <1>3
<1>. HIDE DEF to
<1>5. to[1] = at[2] /\ to[l - 1 + 1] = n /\ at[2] \in 0 .. 4
  <2>1. l - 1 + 1 = l /\ 1 \in 1 .. l /\ l \in 1 .. l /\ 1 + 1 = 2 /\ 2 \in 1 .. l + 1
    BY <1>2
  <2>2. to[1] = at[1 + 1] /\ to[l] = at[l + 1]
    BY <1>4, <2>1, Zenon
  <2>. QED  BY <1>3, <2>1, <2>2
<1>6. ASSUME NEW k \in 1 .. l - 1
      PROVE  Carries(g, Tail(q)[k], to[k], to[k + 1])
  <2>1. k \in 1 .. l /\ k + 1 \in 1 .. l
    BY <1>2
  <2>2. to[k] = at[k + 1] /\ to[k + 1] = at[k + 1 + 1] /\ Tail(q)[k] = q[k + 1]
    BY <1>2, <1>4, <1>6, <2>1, Zenon
  <2>3. Carries(g, q[k + 1], at[k + 1], at[k + 1 + 1])
    BY <1>1, <2>1, Zenon DEF l
  <2>. QED  BY <2>2, <2>3
<1>7. Chain(g, Tail(q), at[2], n)
  BY <1>2, <1>4, <1>5, <1>6 DEF Chain
<1>8. Carries(g, Head(q), m, at[2])
  <2>1. 1 \in 1 .. l /\ 1 + 1 = 2
    BY <1>2
  <2>2. Carries(g, q[1], at[1], at[1 + 1])
    BY <1>1, <2>1, Zenon DEF l
  <2>. QED  BY <1>2, <1>3, <2>1, <2>2
<1>. QED  BY <1>5, <1>7, <1>8

\* A queue without chunks of g.
LEMMA ChainNone ==
  ASSUME NEW g, NEW q \in Seq(Blocks), NEW m \in 0 .. 4, ~Holds(q, {"chunk"}, g)
  PROVE  Chain(g, q, m, m)
<1> DEFINE at == [k \in 1 .. Len(q) + 1 |-> m]
<1>1. Len(q) \in Nat /\ DOMAIN q = 1 .. Len(q)
  OBVIOUS
<1>2. /\ at \in [1 .. Len(q) + 1 -> 0 .. 4]
      /\ \A k \in 1 .. Len(q) + 1 : at[k] = m
  OBVIOUS
<1>. HIDE DEF at
<1>3. ASSUME NEW k \in 1 .. Len(q)  PROVE Carries(g, q[k], at[k], at[k + 1])
  <2>1. k \in 1 .. Len(q) + 1 /\ k + 1 \in 1 .. Len(q) + 1
    BY <1>1
  <2>2. at[k] = m /\ at[k + 1] = m
    BY <1>2, <2>1
  <2>3. ~(q[k].kind = "chunk" /\ q[k].gen = g)
    BY <1>1 DEF Holds, Is
  <2>. QED  BY <2>2, <2>3 DEF Carries
<1>4. 1 \in 1 .. Len(q) + 1 /\ Len(q) + 1 \in 1 .. Len(q) + 1
  BY <1>1
<1>. QED  BY <1>2, <1>3, <1>4 DEF Chain

\* A block that is no chunk of g carries nothing.
LEMMA CarriesNone ==
  ASSUME NEW g, NEW b, ~(b.kind = "chunk" /\ b.gen = g)
  PROVE  \A m, n : Carries(g, b, m, n) <=> n = m
  BY DEF Carries

-----------------------------------------------------------------------------
(***************************************************************************)
(* What a chunk does                                                       *)
(***************************************************************************)
\* The lines of g after its font line has been added.
LEMMA LineAdded ==
  ASSUME TypeOK, NEW g \in Gens, details' = Append(details, [gen |-> g, event |-> Font(1)]),
         LinesOf(g) = {}
  PROVE  \E i \in DOMAIN details' : LinesOf(g)' = {i}
<1> DEFINE line == [gen |-> g, event |-> Font(1)]
           l == Len(details)
<1>1. details \in Seq([gen : Gens, event : Events]) /\ line \in [gen : Gens, event : Events]
  BY EventsAre DEF TypeOK
<1>2. details' = Append(details, line)
  OBVIOUS
<1>. HIDE DEF line
<1>3. /\ l \in Nat /\ DOMAIN details = 1 .. l /\ DOMAIN details' = 1 .. l + 1
      /\ details'[l + 1] = line /\ \A i \in 1 .. l : details'[i] = details[i]
  BY <1>1, <1>2
<1>. HIDE DEF l
<1>4. \A i \in 1 .. l : details[i] # line
  BY <1>3 DEF LinesOf, line
<1>5. \A i \in 1 .. l + 1 : i \in 1 .. l \/ i = l + 1
  BY <1>3
<1>6. l + 1 \in 1 .. l + 1
  BY <1>3
<1>7. LinesOf(g)' = {i \in DOMAIN details' : details'[i] = line}
  BY DEF LinesOf, line
<1>8. LinesOf(g)' = {l + 1}
  BY <1>3, <1>4, <1>5, <1>6, <1>7, Zenon
<1>. QED  BY <1>3, <1>6, <1>8

\* A chunk takes the report from its m-th part to its n-th.
LEMMA ChunkConsumed ==
  ASSUME TypeOK, NEW g \in Gens, NEW m \in 0 .. 4, NEW n \in 0 .. 4, m <= n,
         Consumed(g, m), Process(g, SaidIn(m, n), FALSE), buffer' = OpenAt(n)
  PROVE  Consumed(g, n)'
<1> DEFINE told == Told(counted, SaidIn(m, n))
           done == Completion(g, told.readies, told.loaded, FALSE)
           new == [i \in DOMAIN told.fonts |-> [gen |-> g, event |-> told.fonts[i]]]
<1>0. /\ counted = CountAt(m)
      /\ IF m >= 2 THEN \E i \in DOMAIN details : LinesOf(g) = {i} ELSE LinesOf(g) = {}
      /\ ready <=> m = 4
      /\ g \in sent <=> m = 4
      /\ \A i \in DOMAIN mainQueue :
           mainQueue[i].gen = g => mainQueue[i] = Finish(g, "loaded", 1)
      /\ state = "loaded" => numLoaded = 1
  BY DEF Consumed
<1>1. /\ details' = details \o new
      /\ counted' = told.loaded /\ ready' = (ready \/ told.readies # << >>)
      /\ sent' = IF done = << >> THEN sent ELSE sent \cup {g}
      /\ mainQueue' = mainQueue \o done
      /\ UNCHANGED <<state, numLoaded>>
  BY Zenon DEF Process
<1>2. told.fonts = FontsIn(m, n) /\ told.readies = ReadiesIn(m, n) /\ told.loaded = CountAt(n)
  <2>1. told = [fonts |-> FontsIn(m, n), readies |-> ReadiesIn(m, n), loaded |-> CountAt(n)]
    BY <1>0, ToldMiddle
  <2>. HIDE DEF told
  <2>. QED  BY <2>1
<1>. HIDE DEF told
<1>3. done = IF m < 4 /\ n >= 4 THEN <<Finish(g, "loaded", 1)>> ELSE << >>
  <2>1. CASE m = 4
    <3>1. done = << >>
      BY <1>0, <2>1 DEF Completion
    <3>2. ~(m < 4)
      BY <2>1
    <3>. HIDE DEF done
    <3>. QED  BY <3>1, <3>2
  <2>2. CASE m # 4 /\ n = 4
    <3>1. ReadiesIn(m, n) = <<ReadyEvent(1)>> /\ m < 4 /\ n >= 4
      BY <2>2 DEF ReadiesIn
    <3>2. <<ReadyEvent(1)>> # << >> /\ Head(<<ReadyEvent(1)>>).loaded = 1
      BY EventsAre
    <3>3. done = <<Finish(g, "loaded", Head(<<ReadyEvent(1)>>).loaded)>>
      BY <1>0, <1>2, <2>2, <3>1, <3>2, Zenon DEF Completion
    <3>. QED  BY <3>1, <3>2, <3>3
  <2>3. CASE m # 4 /\ n # 4
    <3>1. ReadiesIn(m, n) = << >> /\ ~(n >= 4)
      BY <2>3 DEF ReadiesIn
    <3>2. done = << >>
      BY <1>0, <1>2, <2>3, <3>1, Zenon DEF Completion
    <3>. QED  BY <3>1, <3>2
  <2>. QED  BY <2>1, <2>2, <2>3
<1>4. IF n >= 2 THEN \E i \in DOMAIN details' : LinesOf(g)' = {i} ELSE LinesOf(g)' = {}
  <2>1. CASE m < 2 /\ n >= 2
    <3>1. FontsIn(m, n) = <<Font(1)>>
      BY <2>1 DEF FontsIn
    <3>2. new = <<[gen |-> g, event |-> Font(1)]>>
      <4>1. told.fonts = <<Font(1)>>
        BY <1>2, <3>1
      <4>2. new = [i \in {1} |-> [gen |-> g, event |-> Font(1)]]
        BY <4>1
      <4>3. <<[gen |-> g, event |-> Font(1)]>> = [i \in {1} |-> [gen |-> g, event |-> Font(1)]]
        OBVIOUS
      <4>. QED  BY <4>2, <4>3
    <3>3. details' = Append(details, [gen |-> g, event |-> Font(1)])
      <4>1. \A s \in Seq([gen : Gens, event : Events]) : \A e : s \o <<e>> = Append(s, e)
        OBVIOUS
      <4>2. details \in Seq([gen : Gens, event : Events])
        BY DEF TypeOK
      <4>. QED  BY <1>1, <3>2, <4>1, <4>2, Zenon
    <3>. QED  BY <1>0, <2>1, <3>3, LineAdded
  <2>2. CASE ~(m < 2 /\ n >= 2)
    <3>1. FontsIn(m, n) = << >>
      BY <2>2 DEF FontsIn
    <3>2. new = << >>
      BY <1>2, <3>1
    <3>3. details' = details
      <4>1. details \in Seq([gen : Gens, event : Events])
        BY DEF TypeOK
      <4>. HIDE DEF new
      <4>. QED  BY <1>1, <3>2, <4>1
    <3>4. LinesOf(g)' = LinesOf(g)
      BY <3>3 DEF LinesOf
    <3>5. n >= 2 <=> m >= 2
      BY <2>2
    <3>. QED  BY <1>0, <3>3, <3>4, <3>5
  <2>. QED  BY <2>1, <2>2
<1>5. ready' <=> n = 4
  <2>1. ReadiesIn(m, n) # << >> <=> m # 4 /\ n = 4
    <3>1. <<ReadyEvent(1)>> # << >> /\ (m < 4 <=> m # 4) /\ (n >= 4 <=> n = 4)
      OBVIOUS
    <3>. QED  BY <3>1, Zenon DEF ReadiesIn
  <2>2. m = 4 => n = 4
    OBVIOUS
  <2>3. ready' = (ready \/ ReadiesIn(m, n) # << >>) /\ (ready <=> m = 4)
    BY <1>0, <1>1, <1>2, Zenon
  <2>. QED  BY <2>1, <2>2, <2>3, Zenon
<1>. HIDE DEF done
<1>6. g \in sent' <=> n = 4
  <2>1. CASE m = 4
    BY <1>0, <1>1, <2>1
  <2>2. CASE m # 4 /\ n = 4
    BY <1>1, <1>3, <2>2
  <2>3. CASE m # 4 /\ n # 4
    BY <1>0, <1>1, <1>3, <2>3
  <2>. QED  BY <2>1, <2>2, <2>3
<1>7. \A i \in DOMAIN mainQueue' :
        mainQueue'[i].gen = g => mainQueue'[i] = Finish(g, "loaded", 1)
  <2>1. mainQueue \in Seq(Results)
    BY DEF TypeOK
  <2>2. CASE m < 4 /\ n >= 4
    <3>1. /\ DOMAIN mainQueue = 1 .. Len(mainQueue) /\ Len(mainQueue) \in Nat
          /\ DOMAIN mainQueue' = 1 .. Len(mainQueue) + 1
          /\ mainQueue'[Len(mainQueue) + 1] = Finish(g, "loaded", 1)
          /\ \A i \in 1 .. Len(mainQueue) : mainQueue'[i] = mainQueue[i]
      BY <1>1, <1>3, <2>1, <2>2
    <3>2. \A i \in 1 .. Len(mainQueue) + 1 : i \in 1 .. Len(mainQueue) \/ i = Len(mainQueue) + 1
      BY <3>1
    <3>. QED  BY <1>0, <3>1, <3>2, Zenon
  <2>3. CASE ~(m < 4 /\ n >= 4)
    <3>1. mainQueue' = mainQueue
      BY <1>1, <1>3, <2>1, <2>3
    <3>. QED  BY <1>0, <3>1
  <2>. QED  BY <2>2, <2>3
<1>. QED  BY <1>0, <1>1, <1>2, <1>4, <1>5, <1>6, <1>7, Zenon DEF Consumed

-----------------------------------------------------------------------------
(***************************************************************************)
(* A load that has still to run has left nothing                           *)
(***************************************************************************)
\* Only a new load makes a load pending.
LEMMA NoMorePending ==
  ASSUME IInv, [Next]_vars, loads' = loads
  PROVE  \A g \in Gens : Pending(g)' => Pending(g)
<1>0. TypeOK /\ KindsOK /\ QueueOK /\ HelperOK
  BY DEF IInv, Protocol
<1>1. queue \in Seq(Blocks) /\ loads \in Nat
  BY <1>0, SessionAssumption DEF TypeOK
<1>2. ~BeginLoad
  BY <1>1 DEF BeginLoad
<1>3. ASSUME UNCHANGED <<queue, inHand>>, block' \in {block, NoBlock}
      PROVE  \A g \in Gens : Pending(g)' => Pending(g)
  BY <1>3, NoBlockIs DEF Pending, Waits, KindSets
<1>4. ASSUME NEW b \in Blocks, b.kind # "load", queue' = Append(queue, b),
             block' \in {block, NoBlock}, inHand' \in {inHand, NoBlock}
      PROVE  \A g \in Gens : Pending(g)' => Pending(g)
  <2>1. \A kinds, g : Holds(queue', kinds, g) <=> Holds(queue, kinds, g) \/ Is(b, kinds, g)
    BY <1>1, <1>4, HoldsAppend
  <2>2. \A g : ~Is(b, {"load"}, g)
    BY <1>4 DEF Is
  <2>. QED  BY <1>4, <2>1, <2>2, NoBlockIs DEF Pending, Waits, KindSets
<1>5. ASSUME Fewer  PROVE \A g \in Gens : Pending(g)' => Pending(g)
  BY <1>5 DEF Fewer, Pending, KindSets
<1>6. CASE Load \/ Unload \/ Main
  <2>1. CASE Unload
    <3>1. Block("stop", 0, << >>) \in Blocks /\ Block("stop", 0, << >>).kind # "load"
      BY BlockType DEF Block
    <3>. QED  BY <1>4, <2>1, <3>1 DEF Unload
  <2>2. CASE Load \/ Main
    BY <1>2, <1>3, <2>2 DEF Load, Main, Unloaded, RunFinish
  <2>. QED  BY <1>6, <2>1, <2>2
<1>7. CASE Read
  <2>1. inHand' = Block("chunk", task, inHand'.data) /\ UNCHANGED <<queue, block>>
    BY <1>7 DEF Read, Block
  <2>2. \A g : ~Is(inHand', {"load"}, g)
    BY <2>1 DEF Block, Is
  <2>. QED  BY <2>1, <2>2 DEF Pending, Waits
<1>8. CASE Dispatch
  <2>1. inHand \in Blocks /\ inHand.kind = "chunk"
    BY <1>0, <1>8, BlockIs DEF Dispatch
  <2>. QED  BY <1>4, <1>8, <2>1 DEF Dispatch
<1>9. ASSUME NEW n \in Gens, TerminationHandler(n)
      PROVE  \A g \in Gens : Pending(g)' => Pending(g)
  <2>1. Block("term", n, << >>) \in Blocks /\ Block("term", n, << >>).kind # "load"
    BY BlockType DEF Block
  <2>. QED  BY <1>4, <1>9, <2>1 DEF TerminationHandler
<1>10. CASE TakeBlock \/ BeginTerminate
  <2>1. /\ queue # << >> /\ queue' = Tail(queue) /\ inHand' = inHand
        /\ block' \in {NoBlock, Head(queue), [Head(queue) EXCEPT !.at = "grace"]}
    BY <1>10 DEF TakeBlock, BeginTerminate, Queue
  <2>2. Head(queue) \in Blocks
    BY <1>1, <2>1
  <2>3. /\ [Head(queue) EXCEPT !.at = "grace"].kind = Head(queue).kind
        /\ [Head(queue) EXCEPT !.at = "grace"].gen = Head(queue).gen
    BY <2>2 DEF Blocks
  <2>4. \/ block' = NoBlock
        \/ block'.kind = Head(queue).kind /\ block'.gen = Head(queue).gen
    BY <2>1, <2>3
  <2>. QED  BY <1>0, <1>5, <2>1, <2>4, Taken
<1>11. CASE Escalate
  <2>1. block.at = "grace" /\ block' = [block EXCEPT !.at = "term"] /\ UNCHANGED <<queue, inHand>>
    BY <1>11, Zenon DEF Escalate
  <2>2. block \in Blocks
    BY <1>0, <2>1 DEF TypeOK, NoBlock
  <2>3. block'.kind = block.kind /\ block'.gen = block.gen
    BY <2>1, <2>2 DEF Blocks
  <2>. QED  BY <2>1, <2>3 DEF Pending, Waits, Is
<1>12. CASE AppendChunk \/ Drain
  <2>1. ASSUME NEW g, NEW events, NEW last, Process(g, events, last)
        PROVE  block' = NoBlock /\ inHand' = inHand
    BY <2>1, Zenon DEF Process
  <2>2. CASE AppendChunk
    <3>1. /\ Process(block.gen, Parse(buffer, block.data).events, FALSE)
          /\ queue' = queue
      BY <2>2, Zenon DEF AppendChunk
    <3>. QED  BY <1>3, <2>1, <3>1
  <2>3. CASE Drain
    <3>1. PICK events : Process(block.gen, events, TRUE)
      BY <2>3, Zenon DEF Drain
    <3>2. queue' = queue
      BY <2>3, Zenon DEF Drain
    <3>. QED  BY <1>3, <2>1, <3>1, <3>2
  <2>. QED  BY <1>12, <2>2, <2>3
<1>13. CASE ReadRest
  <2>1. block.gen \in Gens
    BY <1>0, <1>13, BlockIs DEF ReadRest, TaskKinds
  <2>2. Block("drain", block.gen, << >>) \in Blocks /\ Block("drain", block.gen, << >>).kind # "load"
    BY <2>1, BlockType DEF Block
  <2>3. /\ Process(block.gen, Parse(buffer, pipe[block.gen]).events, FALSE)
        /\ queue' = Append(queue, Block("drain", block.gen, << >>))
    BY <1>13, Zenon DEF ReadRest
  <2>4. block' = NoBlock /\ inHand' = inHand
    BY <2>3, Zenon DEF Process
  <2>. QED  BY <1>4, <2>2, <2>3, <2>4
<1>14. CASE Kill \/ Stop \/ Launch
  BY <1>3, <1>14 DEF Kill, Become, Stop, Launch
<1>15. CASE Helper \/ \E g \in Gens : Crash(g)
  BY <1>3, <1>15 DEF Helper, HelperStep, Crash, Become
<1>16. CASE UNCHANGED vars
  BY <1>3, <1>16 DEF vars
<1>. QED  BY <1>6, <1>7, <1>8, <1>9, <1>10, <1>11, <1>12, <1>13, <1>14, <1>15, <1>16
          DEF Next, Handler, QueueThread, Ended

HasLeft(g) == g \in sent \/ \E i \in DOMAIN details : details[i].gen = g

\* A block that processes output leaves something only for its own load, which is
\* not pending.
LEMMA ProcessLeaves ==
  ASSUME IInv, block.kind \in TaskKinds, NEW events \in Seq(Events), NEW last \in BOOLEAN,
         Process(block.gen, events, last)
  PROVE  \A g \in Gens : HasLeft(g)' => HasLeft(g) \/ (g <= loads /\ ~Pending(g))
<1> DEFINE n == block.gen
<1>0. TypeOK /\ KindsOK /\ OrderOK /\ HelperOK
  BY DEF IInv, Protocol
<1>1. n \in Gens /\ Traces(n)
  BY <1>0, BlockIs DEF Traces
<1>2. n <= loads /\ ~Pending(n)
  <2>1. ~(n < n)
    BY <1>1 DEF Gens
  <2>. QED  BY <1>0, <1>1, <2>1 DEF OrderOK
<1>3. /\ \E new \in Seq(Lines(n)) : details' = details \o new
      /\ sent' \subseteq sent \cup {n}
  BY <1>0, <1>1, ProcessIs
<1>. HIDE DEF n
<1>4. PICK new \in Seq(Lines(n)) : details' = details \o new
  BY <1>3
<1>5. details \in Seq([gen : Gens, event : Events])
  BY <1>0 DEF TypeOK
<1>6. \A i \in DOMAIN details' : \/ i \in DOMAIN details /\ details'[i] = details[i]
                                 \/ details'[i].gen = n
  <2>. TAKE i \in DOMAIN details'
  <2>1. /\ DOMAIN details = 1 .. Len(details) /\ i \in 1 .. Len(details) + Len(new)
        /\ Len(details) \in Nat /\ Len(new) \in Nat
    BY <1>4, <1>5
  <2>2. CASE i \in 1 .. Len(details)
    BY <1>4, <1>5, <2>1, <2>2
  <2>3. CASE i \notin 1 .. Len(details)
    <3>1. i - Len(details) \in 1 .. Len(new) /\ details'[i] = new[i - Len(details)]
      BY <1>4, <1>5, <2>1, <2>3
    <3>2. new[i - Len(details)] \in Lines(n)
      BY <3>1
    <3>. QED  BY <3>1, <3>2 DEF Lines
  <2>. QED  BY <2>2, <2>3
<1>. QED  BY <1>2, <1>3, <1>6 DEF HasLeft

\* A step keeps that a load that has still to run has left nothing.
LEMMA NextNewOK ==
  ASSUME IInv, NewOK, [Next]_vars
  PROVE  NewOK'
<1>0. TypeOK /\ KindsOK /\ OrderOK /\ HelperOK
  BY DEF IInv, Protocol
<1>1. \A g \in Gens : HasLeft(g) => g <= loads /\ ~Pending(g)
  BY DEF NewOK, HasLeft
<1>2. ASSUME loads' = loads,
             \A g \in Gens : HasLeft(g)' => HasLeft(g) \/ (g <= loads /\ ~Pending(g))
      PROVE  NewOK'
  <2>1. \A g \in Gens : Pending(g)' => Pending(g)
    BY <1>2, NoMorePending
  <2>. QED  BY <1>1, <1>2, <2>1 DEF NewOK, HasLeft
<1>3. ASSUME UNCHANGED <<loads, sent>>, details' \in {details, << >>}
      PROVE  NewOK'
  BY <1>2, <1>3 DEF HasLeft
<1>4. ASSUME BeginLoad, UNCHANGED <<block, inHand, sent>>  PROVE NewOK'
  <2>1. loads' = loads + 1 /\ details' = << >> /\ loads \in Nat /\ loads + 1 \in Gens
        /\ queue' = Append(queue, Block("load", loads + 1, << >>))
    BY <1>0, <1>4, SessionAssumption DEF BeginLoad, TypeOK, Gens
  <2>2. Block("load", loads + 1, << >>) \in Blocks /\ queue \in Seq(Blocks)
    BY <1>0, <2>1, BlockType DEF TypeOK
  <2>3. \A kinds, g : Holds(queue', kinds, g) <=>
                        Holds(queue, kinds, g) \/ Is(Block("load", loads + 1, << >>), kinds, g)
    BY <2>1, <2>2, HoldsAppend
  <2>4. \A g \in Gens : Pending(g)' => Pending(g) \/ g = loads + 1
    BY <1>4, <2>3 DEF Pending, Waits, Is, Block
  <2>5. \A g \in Gens : HasLeft(g)' => HasLeft(g)
    BY <1>4, <2>1 DEF HasLeft
  <2>6. \A g \in Gens : g <= loads => g <= loads + 1 /\ g # loads + 1
    BY <2>1 DEF Gens
  <2>7. \A g \in Gens : HasLeft(g)' => g <= loads' /\ ~Pending(g)'
    BY <1>1, <2>1, <2>4, <2>5, <2>6
  <2>. QED  BY <2>7 DEF NewOK, HasLeft
<1>5. ASSUME block.kind \in TaskKinds, NEW events \in Seq(Events), NEW last \in BOOLEAN,
             Process(block.gen, events, last)
      PROVE  NewOK'
  <2>1. loads' = loads
    BY <1>5 DEF Process, mainThread
  <2>. QED  BY <1>2, <1>5, <2>1, ProcessLeaves
<1>6. CASE Load \/ Unload \/ Main
  <2>1. CASE BeginLoad
    BY <1>4, <1>6, <2>1 DEF Load, Unload, Main, Unloaded, RunFinish, blockVars
  <2>2. CASE ~BeginLoad
    BY <1>3, <1>6, <2>2 DEF Load, Unload, Main, Unloaded, RunFinish, blockVars, mainThread
  <2>. QED  BY <2>1, <2>2
<1>7. CASE Handler
  BY <1>3, <1>7 DEF Handler, Read, Dispatch, TerminationHandler, public, mainThread, blockVars
<1>8. CASE AppendChunk
  <2>1. Parse(buffer, block.data).events \in Seq(Events)
    <3>1. block \in Blocks
      BY <1>0, <1>8, BlockIs DEF AppendChunk, TaskKinds
    <3>2. block.data \in Seq(PartsOf) /\ buffer \in Seq(PartsOf)
      BY <1>0, <3>1 DEF Blocks, TypeOK
    <3>. QED  BY <3>2, ParseType DEF Parsed
  <2>. QED  BY <1>5, <1>8, <2>1 DEF AppendChunk, TaskKinds
<1>9. CASE ReadRest
  <2>1. Parse(buffer, pipe[block.gen]).events \in Seq(Events)
    <3>1. block.gen \in Gens
      BY <1>0, <1>9, BlockIs DEF ReadRest, TaskKinds
    <3>2. pipe[block.gen] \in Seq(PartsOf) /\ buffer \in Seq(PartsOf)
      BY <1>0, <3>1 DEF TypeOK
    <3>. QED  BY <3>2, ParseType DEF Parsed
  <2>. QED  BY <1>5, <1>9, <2>1 DEF ReadRest, TaskKinds
<1>10. CASE Drain
  <2>1. PICK events \in {<< >>} \cup {<<part.event>> : part \in Range(buffer)} :
          Process(block.gen, events, TRUE)
    BY <1>10 DEF Drain
  <2>2. events \in Seq(Events)
    BY <1>0, <2>1, DrainEvents
  <2>. QED  BY <1>5, <1>10, <2>1, <2>2 DEF Drain, TaskKinds
<1>11. CASE TakeBlock \/ BeginTerminate \/ Escalate \/ Kill \/ Stop \/ Launch
  BY <1>3, <1>11 DEF TakeBlock, BeginTerminate, Escalate, Kill, Become, Stop, Launch,
                     public, mainThread, blockVars
<1>12. CASE Helper \/ \E g \in Gens : Crash(g)
  BY <1>3, <1>12 DEF Helper, HelperStep, Crash, Become, public, mainThread, blockVars
<1>13. CASE UNCHANGED vars
  BY <1>3, <1>13 DEF vars, public, mainThread, blockVars
<1>. QED  BY <1>6, <1>7, <1>8, <1>9, <1>10, <1>11, <1>12, <1>13 DEF Next, QueueThread, Ended

-----------------------------------------------------------------------------
(***************************************************************************)
(* The report of the load asked for last, step by step                     *)
(***************************************************************************)
Consumption == <<buffer, counted, details, ready, sent, mainQueue, state, numLoaded>>

LEMMA ConsumedKept ==
  ASSUME NEW g, NEW n, Consumed(g, n), UNCHANGED Consumption
  PROVE  Consumed(g, n)'
  BY DEF Consumption, Consumed, LinesOf

\* The blocks have moved, and carry the same.
LEMMA FlowKept ==
  ASSUME NEW g, Flow(g), UNCHANGED Consumption,
         helper'[g] = helper[g], pipe'[g] = pipe[g],
         \A n, p \in 0 .. 4 :
           Path(g, block, queue, inHand, n, p) => Path(g, block', queue', inHand', n, p)
  PROVE  Flow(g)'
<1>1. PICK n, p \in 0 .. 4 :
        /\ Consumed(g, n)
        /\ Path(g, block, queue, inHand, n, p)
        /\ p <= Written(g) /\ pipe[g] = Middle(p, Written(g))
  BY DEF Flow
<1>2. Written(g)' = Written(g)
  BY DEF Written
<1>3. Consumed(g, n)'
  BY <1>1, ConsumedKept
<1>. QED  BY <1>1, <1>2, <1>3 DEF Flow

\* A result of g that is shown is the one it reported.
LEMMA FlowRunFinish ==
  ASSUME TypeOK, NEW g \in Gens, Flow(g), RunFinish, generation = g
  PROVE  Flow(g)'
<1>1. PICK n, p \in 0 .. 4 :
        /\ Consumed(g, n)
        /\ Path(g, block, queue, inHand, n, p)
        /\ p <= Written(g) /\ pipe[g] = Middle(p, Written(g))
  BY DEF Flow
<1>2. /\ mainQueue # << >> /\ mainQueue' = Tail(mainQueue)
      /\ IF Head(mainQueue).gen = g
           THEN state' = Head(mainQueue).state /\ numLoaded' = Head(mainQueue).loaded
           ELSE UNCHANGED <<state, numLoaded>>
      /\ UNCHANGED <<details, queue, block, buffer, ready, counted, sent, helper, pipe, inHand>>
  BY DEF RunFinish, taskVars, blockVars, process
<1>3. /\ mainQueue \in Seq(Results) /\ DOMAIN mainQueue = 1 .. Len(mainQueue)
      /\ 1 \in DOMAIN mainQueue /\ Head(mainQueue) = mainQueue[1]
      /\ \A i \in DOMAIN mainQueue' : i + 1 \in DOMAIN mainQueue /\ mainQueue'[i] = mainQueue[i + 1]
  BY <1>2 DEF TypeOK
<1>4. /\ buffer = OpenAt(n) /\ counted = CountAt(n)
      /\ IF n >= 2 THEN \E i \in DOMAIN details : LinesOf(g) = {i} ELSE LinesOf(g) = {}
      /\ ready <=> n = 4
      /\ g \in sent <=> n = 4
      /\ \A i \in DOMAIN mainQueue :
           mainQueue[i].gen = g => mainQueue[i] = Finish(g, "loaded", 1)
      /\ state = "loaded" => numLoaded = 1
  BY <1>1 DEF Consumed
<1>5. state' = "loaded" => numLoaded' = 1
  <2>1. CASE Head(mainQueue).gen = g
    <3>1. Head(mainQueue) = Finish(g, "loaded", 1)
      BY <1>3, <1>4, <2>1
    <3>. QED  BY <1>2, <2>1, <3>1 DEF Finish
  <2>2. CASE Head(mainQueue).gen # g
    BY <1>2, <1>4, <2>2
  <2>. QED  BY <2>1, <2>2
<1>6. \A i \in DOMAIN mainQueue' :
        mainQueue'[i].gen = g => mainQueue'[i] = Finish(g, "loaded", 1)
  BY <1>3, <1>4
<1>7. LinesOf(g)' = LinesOf(g)
  BY <1>2 DEF LinesOf
<1>8. Consumed(g, n)'
  BY <1>2, <1>4, <1>5, <1>6, <1>7, Zenon DEF Consumed
<1>9. Written(g)' = Written(g)
  BY <1>2 DEF Written
<1>. QED  BY <1>1, <1>2, <1>8, <1>9 DEF Flow

\* What is read from the pipe is in hand.
LEMMA FlowRead ==
  ASSUME TypeOK, NEW g \in Gens, Flow(g), Read, task = g
  PROVE  Flow(g)'
<1>1. PICK n, p \in 0 .. 4 :
        /\ Consumed(g, n)
        /\ Path(g, block, queue, inHand, n, p)
        /\ p <= Written(g) /\ pipe[g] = Middle(p, Written(g))
  BY DEF Flow
<1> DEFINE w == Written(g)
<1>2. w \in 0 .. 4
  BY DEF Written
<1>3. PICK k \in 1 .. Len(pipe[g]) :
        /\ inHand' = Block("chunk", g, SubSeq(pipe[g], 1, k))
        /\ pipe' = [pipe EXCEPT ![g] = SubSeq(@, k + 1, Len(@))]
  BY DEF Read
<1>4. /\ inHand = NoBlock /\ UNCHANGED <<queue, block, helper>> /\ UNCHANGED Consumption
      /\ w' = w
  BY DEF Read, public, mainThread, blockVars, Consumption, Written
<1>. HIDE DEF w
<1>5. Len(Middle(p, w)) = w - p
  BY <1>1, <1>2, MiddleIs DEF w
<1>6. k \in 0 .. w - p /\ p + k \in 0 .. 4 /\ p <= p + k /\ p + k <= w
  <2>1. k \in 1 .. w - p
    BY <1>1, <1>3, <1>5 DEF w
  <2>. QED  BY <1>2, <2>1
<1>7. /\ SubSeq(Middle(p, w), 1, k) = Middle(p, p + k)
      /\ SubSeq(Middle(p, w), k + 1, w - p) = Middle(p + k, w)
  BY <1>1, <1>2, <1>6, MiddleCut DEF w
<1>8. inHand' = Block("chunk", g, Middle(p, p + k))
  BY <1>1, <1>3, <1>7 DEF w
<1>9. pipe'[g] = Middle(p + k, w)
  BY <1>1, <1>3, <1>5, <1>7 DEF w, TypeOK
<1>10. Carries(g, inHand', p, p + k)
  BY <1>6, <1>8 DEF Carries, Block
<1>11. PICK d, e \in 0 .. 4 :
         Carries(g, block, n, d) /\ Chain(g, queue, d, e) /\ Carries(g, inHand, e, p)
  BY <1>1 DEF Path
<1>12. e = p
  BY <1>4, <1>11, CarriesNone, NoBlockIs
<1>13. Path(g, block', queue', inHand', n, p + k)
  BY <1>4, <1>10, <1>11, <1>12 DEF Path
<1>14. Consumed(g, n)'
  BY <1>1, <1>4, ConsumedKept
<1>. QED  BY <1>4, <1>6, <1>9, <1>13, <1>14 DEF Flow, w

\* What the helper writes when it has loaded the fonts is in the pipe.
LEMMA FlowHold ==
  ASSUME TypeOK, NEW g \in Gens, NEW life \in Lives, Flow(g), Become(g, life),
         helper[g].st = "work", life.st = "hold"
  PROVE  Flow(g)'
<1>1. PICK n, p \in 0 .. 4 :
        /\ Consumed(g, n)
        /\ Path(g, block, queue, inHand, n, p)
        /\ p <= Written(g) /\ pipe[g] = Middle(p, Written(g))
  BY DEF Flow
<1>2. Written(g) = 0 /\ p = 0
  <2>1. Written(g) = 0
    BY DEF Written
  <2>. QED  BY <1>1, <2>1
<1>3. pipe[g] = << >>
  BY <1>1, <1>2, MiddleEnds
<1>4. /\ helper' = [helper EXCEPT ![g] = life]
      /\ pipe' = [pipe EXCEPT ![g] = @ \o Whole]
      /\ UNCHANGED <<queue, block, inHand>> /\ UNCHANGED Consumption
  <2>1. Reports(life) = {Whole}
    BY DEF Reports, Whole
  <2>. QED  BY <2>1 DEF Become, public, mainThread, taskVars, blockVars, Consumption
<1>5. pipe'[g] = Middle(0, 4)
  <2>1. << >> \o Whole = Whole
    BY WholeType
  <2>. QED  BY <1>3, <1>4, <2>1, MiddleEnds DEF TypeOK
<1>6. Written(g)' = 4
  BY <1>4 DEF Written, TypeOK
<1>7. Consumed(g, n)'
  BY <1>1, <1>4, ConsumedKept
<1>8. Path(g, block', queue', inHand', n, 0)
  BY <1>1, <1>2, <1>4
<1>. QED  BY <1>5, <1>6, <1>7, <1>8 DEF Flow

\* The chunk that runs is consumed.
LEMMA FlowChunk ==
  ASSUME TypeOK, NEW g \in Gens, Flow(g), AppendChunk, block.gen = g
  PROVE  Flow(g)'
<1>1. PICK n, p \in 0 .. 4 :
        /\ Consumed(g, n)
        /\ Path(g, block, queue, inHand, n, p)
        /\ p <= Written(g) /\ pipe[g] = Middle(p, Written(g))
  BY DEF Flow
<1>2. PICK d, e \in 0 .. 4 :
        Carries(g, block, n, d) /\ Chain(g, queue, d, e) /\ Carries(g, inHand, e, p)
  BY <1>1 DEF Path
<1>3. n <= d /\ block.data = Middle(n, d)
  BY <1>2 DEF Carries, AppendChunk
<1> DEFINE parsed == Parse(buffer, block.data)
<1>4. parsed = [open |-> OpenAt(d), events |-> SaidIn(n, d)]
  <2>1. buffer = OpenAt(n)
    BY <1>1 DEF Consumed
  <2>. QED  BY <1>3, <2>1, ParseMiddle
<1>5. /\ Process(g, SaidIn(n, d), FALSE) /\ buffer' = OpenAt(d)
      /\ UNCHANGED <<queue, pipe>>
  <2>1. /\ Process(g, parsed.events, FALSE) /\ buffer' = parsed.open
        /\ UNCHANGED <<queue, pipe>>
    BY DEF AppendChunk
  <2>2. parsed.events = SaidIn(n, d) /\ parsed.open = OpenAt(d)
    <3>. HIDE DEF parsed
    <3>. QED  BY <1>4
  <2>. HIDE DEF parsed
  <2>. QED  BY <2>1, <2>2
<1>6. block' = NoBlock /\ UNCHANGED <<helper, inHand>>
  BY <1>5 DEF Process
<1>7. Consumed(g, d)'
  BY <1>1, <1>3, <1>5, ChunkConsumed
<1>8. Carries(g, block', d, d)
  BY <1>6, CarriesNone, NoBlockIs
<1>9. Path(g, block', queue', inHand', d, p)
  BY <1>2, <1>5, <1>6, <1>8 DEF Path
<1>10. Written(g)' = Written(g)
  BY <1>6 DEF Written
<1>. QED  BY <1>1, <1>5, <1>7, <1>9, <1>10 DEF Flow

\* The helper of a new task has reported nothing, and nothing else is told of its
\* load.
LEMMA FlowLaunch ==
  ASSUME IInv, NewOK, Launch, task' # 0, NEW g \in Gens, block.gen = g, generation = g,
         main = "idle"
  PROVE  Flow(g)'
<1>0. TypeOK /\ KindsOK /\ OrderOK /\ HelperOK /\ ResultOK /\ ShownOK
  BY DEF IInv, Protocol
<1>1. /\ block.kind = "load"
      /\ cut' = FALSE /\ buffer' = << >> /\ ready' = FALSE
      /\ counted' = 0
      /\ pipe' = [h \in Gens |-> << >>]
      /\ helper' = [helper EXCEPT ![g] = Life("work", FALSE)]
      /\ block' = NoBlock
      /\ UNCHANGED <<mainQueue, public, queue, sent, inHand>>
  BY DEF Launch, ClearTask
<1>2. g \in Gens /\ Pending(g) /\ ~(g < g)
  BY <1>0, <1>1, RunningWaits DEF Gens
<1>3. g \notin sent /\ \A i \in DOMAIN details : details[i].gen # g
  BY <1>2 DEF NewOK
<1>4. LinesOf(g)' = {}
  BY <1>1, <1>3 DEF LinesOf, public
<1>5. \A i \in DOMAIN mainQueue : mainQueue[i].gen # g
  BY <1>0, <1>2 DEF ResultOK, Settled
<1>6. state # "loaded"
  BY <1>0, <1>3 DEF ShownOK
<1>7. Consumed(g, 0)'
  <2>1. OpenAt(0) = << >> /\ CountAt(0) = 0 /\ ~(0 >= 2) /\ 0 # 4
    BY DEF OpenAt, CountAt
  <2>2. state' = state /\ UNCHANGED <<mainQueue, sent>>
    BY <1>1 DEF public
  <2>. QED  BY <1>1, <1>3, <1>4, <1>5, <1>6, <2>1, <2>2, Zenon DEF Consumed
<1>8. ~Waits(TaskKinds, g)
  BY <1>0, <1>2 DEF OrderOK, Traces
<1>9. ~Holds(queue, {"chunk"}, g) /\ ~(inHand.kind = "chunk" /\ inHand.gen = g)
  BY <1>8 DEF Waits, Holds, Is, TaskKinds
<1>10. Path(g, block', queue', inHand', 0, 0)
  <2>1. Chain(g, queue, 0, 0)
    BY <1>0, <1>9, ChainNone DEF TypeOK
  <2>2. Carries(g, block', 0, 0) /\ Carries(g, inHand, 0, 0)
    BY <1>1, <1>9, CarriesNone, NoBlockIs
  <2>. QED  BY <1>1, <2>1, <2>2 DEF Path
<1>11. Written(g)' = 0 /\ pipe'[g] = Middle(0, 0)
  BY <1>0, <1>1, <1>2, MiddleEnds DEF Written, Life, TypeOK
<1>. QED  BY <1>7, <1>10, <1>11 DEF Flow

\* A step of the handlers, the queue or the helpers, while the helper of the load
\* asked for last goes on.
LEMMA FlowStep ==
  ASSUME IInv, NEW g \in Gens, generation = g, task = g, helper[g].st \in {"work", "hold"},
         Flow(g), Handler \/ QueueThread \/ Helper \/ (\E h \in Gens : Crash(h)), ~Launch,
         helper'[g].st \in {"work", "hold"}
  PROVE  Flow(g)'
<1>0. /\ TypeOK /\ KindsOK /\ QueueOK /\ HelperOK
      /\ queue \in Seq(Blocks) /\ helper \in [Gens -> Lives]
  BY DEF IInv, Protocol, TypeOK
<1>1. g # 0 /\ Runs(helper[g]) /\ ~Ending(g)
  BY <1>0 DEF Gens, Runs, HelperOK
<1>2. CASE Read
  BY <1>0, <1>2, FlowRead
<1>3. ASSUME NEW b \in Blocks, queue' = Append(queue, b), UNCHANGED <<block, Consumption>>,
             helper'[g] = helper[g], pipe'[g] = pipe[g],
             \A e, p \in 0 .. 4 : Carries(g, inHand, e, p) =>
               \E f \in 0 .. 4 : Carries(g, b, e, f) /\ Carries(g, inHand', f, p)
      PROVE  Flow(g)'
  <2>1. ASSUME NEW n \in 0 .. 4, NEW p \in 0 .. 4, Path(g, block, queue, inHand, n, p)
        PROVE  Path(g, block', queue', inHand', n, p)
    <3>1. PICK d, e \in 0 .. 4 :
            Carries(g, block, n, d) /\ Chain(g, queue, d, e) /\ Carries(g, inHand, e, p)
      BY <2>1 DEF Path
    <3>2. PICK f \in 0 .. 4 : Carries(g, b, e, f) /\ Carries(g, inHand', f, p)
      BY <1>3, <3>1
    <3>3. Chain(g, queue', d, f)
      BY <1>0, <1>3, <3>1, <3>2, ChainAppend
    <3>. QED  BY <1>3, <3>1, <3>2, <3>3 DEF Path
  <2>. QED  BY <1>3, <2>1, FlowKept
<1>4. CASE Dispatch
  <2>1. /\ inHand \in Blocks /\ queue' = Append(queue, inHand) /\ inHand' = NoBlock
        /\ UNCHANGED <<block, Consumption, helper, pipe>>
    BY <1>0, <1>4, BlockIs DEF Dispatch, public, taskVars, blockVars, process, Consumption
  <2>2. \A p : Carries(g, inHand', p, p)
    BY <2>1, CarriesNone, NoBlockIs
  <2>. QED  BY <1>3, <2>1, <2>2
<1>5. ASSUME NEW h \in Gens, TerminationHandler(h)  PROVE Flow(g)'
  <2>1. /\ queue' = Append(queue, Block("term", h, << >>))
        /\ UNCHANGED <<block, Consumption, inHand, pipe>>
    BY <1>5 DEF TerminationHandler, public, blockVars, Consumption
  <2>2. Block("term", h, << >>) \in Blocks /\ Block("term", h, << >>).kind # "chunk"
    BY BlockType DEF Block
  <2>3. helper'[g] = helper[g]
    <3>1. h # g
      BY <1>1, <1>5 DEF TerminationHandler, HasEnded, Runs
    <3>. QED  BY <1>0, <1>5, <3>1 DEF TerminationHandler
  <2>4. \A e : Carries(g, Block("term", h, << >>), e, e)
    BY <2>2, CarriesNone
  <2>. QED  BY <1>3, <2>1, <2>2, <2>3, <2>4
<1>6. ASSUME queue # << >>, queue' = Tail(queue), block = NoBlock,
             UNCHANGED <<inHand, Consumption, helper, pipe>>,
             \A d, f \in 0 .. 4 : Carries(g, Head(queue), d, f) => Carries(g, block', d, f)
      PROVE  Flow(g)'
  <2>1. ASSUME NEW n \in 0 .. 4, NEW p \in 0 .. 4, Path(g, block, queue, inHand, n, p)
        PROVE  Path(g, block', queue', inHand', n, p)
    <3>1. PICK d, e \in 0 .. 4 :
            Carries(g, block, n, d) /\ Chain(g, queue, d, e) /\ Carries(g, inHand, e, p)
      BY <2>1 DEF Path
    <3>2. d = n
      BY <1>6, <3>1, CarriesNone, NoBlockIs
    <3>3. PICK f \in 0 .. 4 : Carries(g, Head(queue), d, f) /\ Chain(g, Tail(queue), f, e)
      BY <1>0, <1>6, <3>1, ChainHead
    <3>. QED  BY <1>6, <3>1, <3>2, <3>3 DEF Path
  <2>. QED  BY <1>6, <2>1, FlowKept
<1>7. CASE TakeBlock
  <2>1. /\ queue # << >> /\ queue' = Tail(queue) /\ block = NoBlock
        /\ block' = IF Stale(Head(queue)) THEN NoBlock ELSE Head(queue)
        /\ UNCHANGED <<inHand, Consumption, helper, pipe>>
    BY <1>7 DEF TakeBlock, Queue, public, taskVars, blockVars, process, Consumption
  <2>2. CASE Stale(Head(queue))
    <3>1. ~(Head(queue).kind = "chunk" /\ Head(queue).gen = g)
      BY <1>1, <2>2 DEF Stale
    <3>2. block' = NoBlock
      BY <2>1, <2>2
    <3>3. \A d, f : Carries(g, Head(queue), d, f) => Carries(g, block', d, f)
      BY <3>1, <3>2, CarriesNone, NoBlockIs
    <3>. QED  BY <1>6, <2>1, <3>3
  <2>3. CASE ~Stale(Head(queue))
    BY <1>6, <2>1, <2>3
  <2>. QED  BY <2>2, <2>3
<1>8. CASE BeginTerminate
  <2>1. /\ queue # << >> /\ queue' = Tail(queue) /\ block = NoBlock
        /\ Head(queue).kind \in {"load", "stop"}
        /\ block' = [Head(queue) EXCEPT !.at = "grace"]
        /\ UNCHANGED <<inHand, Consumption, helper, pipe>>
    BY <1>8 DEF BeginTerminate, Queue, public, taskVars, blockVars, Consumption
  <2>2. Head(queue) \in Blocks
    BY <1>0, <2>1
  <2>3. Head(queue).kind # "chunk" /\ block'.kind # "chunk"
    BY <2>1, <2>2 DEF Blocks
  <2>4. \A d, f : Carries(g, Head(queue), d, f) => Carries(g, block', d, f)
    BY <2>3, CarriesNone
  <2>. QED  BY <1>6, <2>1, <2>4
<1>9. CASE Escalate
  <2>1. /\ block.at = "grace" /\ block' = [block EXCEPT !.at = "term"]
        /\ UNCHANGED <<queue, inHand, Consumption, helper, pipe>>
    BY <1>9 DEF Escalate, public, taskVars, blockVars, process, Consumption
  <2>2. block \in Blocks
    BY <1>0, <2>1 DEF TypeOK, NoBlock
  <2>3. block'.kind = block.kind /\ block'.gen = block.gen /\ block'.data = block.data
    BY <2>1, <2>2 DEF Blocks
  <2>4. \A n, d : Carries(g, block, n, d) => Carries(g, block', n, d)
    BY <2>3 DEF Carries
  <2>5. \A n, p \in 0 .. 4 :
          Path(g, block, queue, inHand, n, p) => Path(g, block', queue', inHand', n, p)
    BY <2>1, <2>4 DEF Path
  <2>. QED  BY <2>1, <2>5, FlowKept
<1>10. CASE AppendChunk
  <2>1. block.gen = g
    BY <1>0, <1>10, BlockIs DEF AppendChunk, TaskKinds
  <2>. QED  BY <1>0, <1>10, <2>1, FlowChunk
<1>11. CASE ReadRest \/ Drain
  <2>1. block.kind \in {"term", "drain"}
    BY <1>11 DEF ReadRest, Drain
  <2>2. Ending(block.gen) /\ block.gen = task
    BY <1>0, <2>1, RunningWaits DEF TaskKinds
  <2>. QED  BY <1>1, <2>2
<1>12. CASE Stop
  BY <1>1, <1>12 DEF Stop, Terminated, HelperRuns
<1>13. ASSUME NEW h \in Gens, NEW life \in Lives, Runs(helper[h]), Become(h, life),
              life = Failed(helper[h]) \/ life \in NextLives(helper[h], Asked(h))
       PROVE  Flow(g)'
  <2>1. h = g
    BY <1>0, <1>13 DEF HelperOK
  <2>2. helper'[g] = life
    BY <1>0, <1>13, <2>1 DEF Become
  <2>3. life.st \in {"work", "hold"} /\ life # Failed(helper[h])
    BY <2>2 DEF Failed, Life
  <2>4. helper[g].st = "work" /\ life.st = "hold"
    <3>1. life \in NextLives(helper[g], Asked(g))
      BY <1>13, <2>1, <2>3
    <3>2. CASE helper[g].st = "work"
      <4>1. life \in {Life("hold", TRUE), Life("leave", TRUE), Life("done", FALSE)}
        BY <3>1, <3>2 DEF NextLives
      <4>. QED  BY <2>3, <3>2, <4>1 DEF Life
    <3>3. CASE helper[g].st = "hold"
      <4>1. life = Life("leave", TRUE)
        BY <3>1, <3>3 DEF NextLives
      <4>. QED  BY <2>3, <4>1 DEF Life
    <3>. QED  BY <3>2, <3>3
  <2>. QED  BY <1>0, <1>13, <2>1, <2>4, FlowHold
<1>14. CASE Kill
  <2>1. Become(g, Failed(helper[g]))
    BY <1>14 DEF Kill
  <2>. QED  BY <1>0, <1>1, <1>13, <2>1, LivesType
<1>15. ASSUME NEW h \in Gens, HelperStep(h)  PROVE Flow(g)'
  <2>1. PICK life \in NextLives(helper[h], Asked(h)) : Become(h, life)
    BY <1>15 DEF HelperStep
  <2>2. life \in Lives
    <3>1. helper[h] \in Lives /\ Asked(h) \in BOOLEAN
      BY <1>0 DEF Asked
    <3>. QED  BY <2>1, <3>1, LivesType
  <2>3. Runs(helper[h])
    <3>1. CASE helper[h].st \in {"work", "hold", "leave"}
      BY <3>1 DEF Runs
    <3>2. CASE helper[h].st \notin {"work", "hold", "leave"}
      BY <2>1, <3>2 DEF NextLives
    <3>. QED  BY <3>1, <3>2
  <2>. QED  BY <1>13, <2>1, <2>2, <2>3
<1>16. ASSUME NEW h \in Gens, Crash(h)  PROVE Flow(g)'
  <2>1. Runs(helper[h]) /\ Become(h, Failed(helper[h])) /\ Failed(helper[h]) \in Lives
    BY <1>0, <1>16, LivesType DEF Crash
  <2>. QED  BY <1>13, <2>1
<1>. QED  BY <1>2, <1>4, <1>5, <1>7, <1>8, <1>9, <1>10, <1>11, <1>12, <1>14, <1>15, <1>16
          DEF Handler, QueueThread, Helper

\* A helper that works or holds its fonts did so before, unless it was launched.
LEMMA HelperGoesOn ==
  ASSUME TypeOK, NEW g \in Gens, helper'[g].st \in {"work", "hold"},
         Handler \/ QueueThread \/ Helper \/ (\E h \in Gens : Crash(h)), ~Launch
  PROVE  helper[g].st \in {"work", "hold"}
<1>0. helper \in [Gens -> Lives]
  BY DEF TypeOK
<1>1. ASSUME NEW h \in Gens, NEW life, helper' = [helper EXCEPT ![h] = life],
             h = g => life.st \notin {"work", "hold"} \/ helper[g].st \in {"work", "hold"}
      PROVE  helper[g].st \in {"work", "hold"}
  BY <1>0, <1>1
<1>2. ASSUME NEW h \in Gens, TerminationHandler(h)  PROVE helper[g].st \in {"work", "hold"}
  <2>1. /\ helper' = [helper EXCEPT ![h] = Life("none", helper[h].reported)]
        /\ Life("none", helper[h].reported).st = "none"
    BY <1>0, <1>2 DEF TerminationHandler, Life
  <2>. QED  BY <1>1, <2>1
<1>3. ASSUME NEW h \in Gens, Become(h, Failed(helper[h]))
      PROVE  helper[g].st \in {"work", "hold"}
  <2>1. Failed(helper[h]).st = "failed"
    BY DEF Failed, Life
  <2>. QED  BY <1>1, <1>3, <2>1 DEF Become
<1>4. ASSUME NEW h \in Gens, HelperStep(h)  PROVE helper[g].st \in {"work", "hold"}
  <2>1. PICK life \in NextLives(helper[h], Asked(h)) : helper' = [helper EXCEPT ![h] = life]
    BY <1>4 DEF HelperStep, Become
  <2>2. CASE helper[h].st \in {"work", "hold"}
    BY <1>1, <2>1, <2>2
  <2>3. CASE helper[h].st = "leave"
    <3>1. life = Life("done", TRUE)
      BY <2>1, <2>3 DEF NextLives
    <3>2. life.st = "done"
      BY <3>1 DEF Life
    <3>. QED  BY <1>1, <2>1, <3>2
  <2>4. CASE helper[h].st \notin {"work", "hold", "leave"}
    BY <2>1, <2>4 DEF NextLives
  <2>. QED  BY <2>2, <2>3, <2>4
<1>5. CASE helper' = helper
  BY <1>5
<1>6. CASE Handler
  <2>1. CASE Read
    <3>1. helper' = helper
      BY <2>1, Zenon DEF Read
    <3>. QED  BY <1>5, <3>1
  <2>2. CASE Dispatch
    BY <1>5, <2>2 DEF Dispatch, process
  <2>. QED  BY <1>2, <1>6, <2>1, <2>2 DEF Handler
<1>7. CASE QueueThread
  <2>1. CASE Kill
    <3>1. Become(task, Failed(helper[task])) /\ task # 0
      BY <2>1, Zenon DEF Kill, HelperRuns
    <3>2. task \in Gens
      BY <3>1 DEF TypeOK
    <3>. QED  BY <1>3, <3>1, <3>2
  <2>2. CASE TakeBlock \/ BeginTerminate \/ Escalate \/ Stop
    <3>1. helper' = helper
      BY <2>2, Zenon DEF TakeBlock, BeginTerminate, Escalate, Stop, process
    <3>. QED  BY <1>5, <3>1
  <2>3. CASE AppendChunk \/ ReadRest \/ Drain
    <3>1. helper' = helper
      BY <2>3, Zenon DEF AppendChunk, ReadRest, Drain, Process
    <3>. QED  BY <1>5, <3>1
  <2>. QED  BY <1>7, <2>1, <2>2, <2>3 DEF QueueThread
<1>. QED  BY <1>3, <1>4, <1>6, <1>7 DEF Helper, Crash

\* The report of the load asked for last stays on its way, or there.
LEMMA NextFlowOK ==
  ASSUME IInv, FlowOK, NewOK, [Next]_vars, IInv'
  PROVE  FlowOK'
<1>. SUFFICES ASSUME NEW g \in Gens, g = generation', helper'[g].st \in {"work", "hold"}
              PROVE  Flow(g)'
  <2>. SUFFICES ASSUME generation' \in Gens, helper'[generation'].st \in {"work", "hold"}
                PROVE  Flow(generation)'
    BY DEF FlowOK
  <2>1. PICK g \in Gens : g = generation'
    OBVIOUS
  <2>2. Flow(g)'
    BY <2>1
  <2>. QED  BY <2>1, <2>2 DEF Flow, Consumed, LinesOf, Written
<1>0. /\ TypeOK /\ OrderOK /\ CurrentOK /\ CurrentOK'
      /\ loads \in Nat /\ helper \in [Gens -> Lives]
  <2>1. TypeOK /\ OrderOK /\ CurrentOK /\ CurrentOK'
    BY DEF IInv, Protocol
  <2>. QED  BY <2>1, SessionAssumption DEF TypeOK
<1>1. task' = g /\ g # 0 /\ main' = "idle"
  <2>1. g # 0 /\ helper'[g].st # "none"
    BY DEF Gens
  <2>. QED  BY <1>0, <2>1 DEF CurrentOK
<1>2. ~(BeginLoad /\ helper' = helper)
  <2>. SUFFICES ASSUME BeginLoad, helper' = helper  PROVE FALSE
    OBVIOUS
  <2>1. g = loads + 1 /\ helper[g].st # "none"
    BY DEF BeginLoad
  <2>2. g <= loads
    BY <1>0, <2>1 DEF OrderOK, Traces
  <2>. QED  BY <1>0, <2>1, <2>2
<1>3. ASSUME generation' = generation, helper[g].st \in {"work", "hold"}
      PROVE  task = g /\ Flow(g)
  <2>1. helper[g].st # "none"
    BY <1>3
  <2>. QED  BY <1>0, <1>3, <2>1 DEF CurrentOK, FlowOK
<1>4. CASE Load \/ Unload \/ Unloaded
  <2>1. CASE Load
    BY <1>2, <2>1 DEF Load, process
  <2>2. CASE Unload
    BY <1>1, <2>2 DEF Unload
  <2>3. CASE Unloaded
    <3>1. main = "after" /\ helper' = helper /\ generation = 0
      BY <1>0, <2>3 DEF Unloaded, process, CurrentOK
    <3>. QED  BY <1>1, <1>2, <2>3, <3>1 DEF Unloaded
  <2>. QED  BY <1>4, <2>1, <2>2, <2>3
<1>5. CASE RunFinish
  <2>1. generation' = generation /\ helper' = helper
    BY <1>5, Zenon DEF RunFinish, process
  <2>2. Flow(g)
    BY <1>3, <2>1
  <2>. QED  BY <1>0, <1>5, <2>1, <2>2, FlowRunFinish
<1>6. CASE Launch
  <2>1. generation' = generation /\ main' = main
    BY <1>6, Zenon DEF Launch, public, mainThread
  <2>2. block.gen = g
    BY <1>1, <1>6 DEF Launch, ClearTask
  <2>. QED  BY <1>1, <1>6, <2>1, <2>2, FlowLaunch
<1>7. ASSUME Handler \/ QueueThread \/ Helper \/ (\E h \in Gens : Crash(h)), ~Launch
      PROVE  Flow(g)'
  <2>1. generation' = generation
    <3>1. CASE Handler
      BY <3>1 DEF Handler, Read, Dispatch, TerminationHandler, public
    <3>2. CASE TakeBlock \/ BeginTerminate \/ Escalate \/ Kill \/ Stop
      BY <3>2, Zenon DEF TakeBlock, BeginTerminate, Escalate, Kill, Become, Stop, public
    <3>3. CASE AppendChunk \/ ReadRest \/ Drain
      BY <3>3, Zenon DEF AppendChunk, ReadRest, Drain, Process
    <3>4. CASE Helper \/ \E h \in Gens : Crash(h)
      BY <3>4, Zenon DEF Helper, HelperStep, Crash, Become, public
    <3>. QED  BY <1>7, <3>1, <3>2, <3>3, <3>4 DEF QueueThread
  <2>2. helper[g].st \in {"work", "hold"}
    BY <1>0, <1>7, HelperGoesOn
  <2>3. task = g /\ Flow(g)
    BY <1>3, <2>1, <2>2
  <2>. QED  BY <1>7, <2>1, <2>2, <2>3, FlowStep
<1>8. CASE UNCHANGED vars
  <2>1. /\ generation' = generation /\ UNCHANGED <<helper, pipe, block, queue, inHand>>
        /\ UNCHANGED Consumption
    BY <1>8 DEF vars, public, mainThread, taskVars, blockVars, process, Consumption
  <2>2. Flow(g)
    BY <1>3, <2>1
  <2>. QED  BY <2>1, <2>2, FlowKept
<1>. QED  BY <1>4, <1>5, <1>6, <1>7, <1>8 DEF Next, Main, Ended

\* A load that is shown as loaded, and whose helper holds its fonts, is shown with
\* the number and with the one detail line that helper has reported, however the
\* report was cut into chunks and whatever was loaded before.
THEOREM ReportIsShown == Spec => []ShowsReport
<1>1. Init => FlowInv
  <2>. SUFFICES ASSUME Init  PROVE FlowOK /\ NewOK
    BY InitIInv DEF FlowInv
  <2>1. generation \notin Gens /\ sent = {} /\ DOMAIN details = {}
    BY DEF Init, Gens
  <2>. QED  BY <2>1 DEF FlowOK, NewOK
<1>2. FlowInv /\ [Next]_vars => FlowInv'
  BY NextIInv, NextNewOK, NextFlowOK DEF FlowInv
<1>3. FlowInv => ShowsReport
  <2>. SUFFICES ASSUME FlowInv, state = "loaded", generation \in Gens,
                       helper[generation].st = "hold"
                PROVE  /\ numLoaded = 1
                       /\ Cardinality(LinesOf(generation)) = 1
    BY DEF ShowsReport, LinesOf
  <2>1. PICK n \in 0 .. 4 : Consumed(generation, n)
    BY DEF FlowInv, FlowOK, Flow
  <2>2. generation \in sent
    <3>1. main = "idle"
      BY DEF FlowInv, IInv, Protocol, CurrentOK, Gens
    <3>. QED  BY <3>1 DEF FlowInv, IInv, Protocol, ShownOK
  <2>3. numLoaded = 1 /\ \E i \in DOMAIN details : LinesOf(generation) = {i}
    <3>1. n = 4 /\ 4 >= 2
      BY <2>1, <2>2 DEF Consumed
    <3>. QED  BY <2>1, <3>1, Zenon DEF Consumed
  <2>4. \A i : Cardinality({i}) = 1
    BY FS_Singleton
  <2>. QED  BY <2>3, <2>4
<1>. QED  BY <1>1, <1>2, <1>3, PTL DEF Spec
=============================================================================
