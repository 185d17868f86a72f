----------------------------- MODULE FoldFacts ------------------------------
(***************************************************************************)
(* Facts about FoldLeft, with which the models say what a loop over a      *)
(* sequence computes.  FoldLeft is defined through a recursive function on *)
(* the sets of indexes; here it is shown to do what the name says, for any *)
(* operator Op: the other proof modules instantiate this one with the body *)
(* of their loop.                                                          *)
(***************************************************************************)
EXTENDS Integers, SequencesExt, SequenceTheorems, WellFoundedInduction, TLAPS

CONSTANT Op(_, _)

Fold(base, s) == FoldLeft(Op, base, s)

-----------------------------------------------------------------------------
(***************************************************************************)
(* Induction on the natural numbers, for sets.                             *)
(***************************************************************************)
\* A set of natural numbers that is not empty has a least element.
LEMMA LeastOf ==
  ASSUME NEW S, S \subseteq Nat, S # {}
  PROVE  \E n \in S : \A k \in S : n <= k
<1> DEFINE R == {ss \in Nat \X Nat : ss[1] < ss[2]}
<1>1. IsWellFoundedOn(R, Nat)
  BY NatLessThanWellFounded DEF OpToRel
<1>2. PICK n \in S : \A k \in S : ~(<<k, n>> \in R)
  BY <1>1, WFMin
<1>3. \A k \in S : ~(k < n)
  BY <1>2
<1>. HIDE DEF R
<1>. QED  BY <1>3

\* A set with 0, and with each number the next one, holds all of Nat.
LEMMA AllOfNat ==
  ASSUME NEW T, 0 \in T, \A n \in Nat : n \in T => n + 1 \in T
  PROVE  Nat \subseteq T
<1>. SUFFICES ASSUME ~(Nat \subseteq T) PROVE FALSE
  OBVIOUS
<1> DEFINE B == Nat \ T
<1>1. PICK n \in B : \A k \in B : n <= k
  <2>. B # {} /\ B \subseteq Nat
    OBVIOUS
  <2>. QED  BY LeastOf
<1>2. n # 0 /\ n - 1 \in Nat /\ n - 1 \in T
  BY <1>1
<1>. QED  BY <1>2, n - 1 + 1 = n

\* The maximum of a bounded set is one of its elements.
LEMMA MaxOf ==
  ASSUME NEW n \in Nat, NEW ss \in SUBSET (1 .. n), ss # {}
  PROVE  Max(ss) \in ss /\ (\A y \in ss : y <= Max(ss))
<1> DEFINE D == {n - y : y \in ss}
<1>0. \A y \in ss : y \in Int /\ n - y \in Nat
  OBVIOUS
<1>1. D \subseteq Nat /\ D # {}
  BY <1>0
<1>2. PICK d \in D : \A k \in D : d <= k
  BY <1>1, LeastOf
<1>3. PICK x \in ss : d = n - x
  BY <1>2
<1>4. ASSUME NEW y \in ss  PROVE x >= y
  <2>1. n - x <= n - y
    BY <1>2, <1>3
  <2>. QED  BY <1>0, <2>1
<1>. QED  BY <1>3, <1>4 DEF Max

-----------------------------------------------------------------------------
(***************************************************************************)
(* The recursive function behind FoldLeft                                  *)
(***************************************************************************)
\* h is the fold of each set of the indexes 1 .. n.
FoldOf(h, n, base, s) ==
  h = [ss \in SUBSET (1 .. n) |->
         IF ss = {} THEN base ELSE Op(h[ss \ {Max(ss)}], s[Max(ss)])]

\* There is such a function.
LEMMA FoldExists ==
  ASSUME NEW base, NEW s
  PROVE  \A n \in Nat : \E h : FoldOf(h, n, base, s)
<1> DEFINE T == {n \in Nat : \E h : FoldOf(h, n, base, s)}
<1>1. 0 \in T
  <2>1. FoldOf([ss \in SUBSET (1 .. 0) |-> base], 0, base, s)
    BY 1 .. 0 = {} DEF FoldOf
  <2>. QED  BY <2>1
<1>2. ASSUME NEW n \in Nat, n \in T  PROVE n + 1 \in T
  <2>1. PICK h : FoldOf(h, n, base, s)
    BY <1>2
  <2> DEFINE g == [ss \in SUBSET (1 .. n + 1) |->
                     IF n + 1 \in ss THEN Op(h[ss \ {n + 1}], s[n + 1]) ELSE h[ss]]
  <2>2. ASSUME NEW ss \in SUBSET (1 .. n + 1)
        PROVE  g[ss] = IF ss = {} THEN base ELSE Op(g[ss \ {Max(ss)}], s[Max(ss)])
    <3>1. CASE n + 1 \in ss
      <4>1. Max(ss) \in ss /\ \A y \in ss : y <= Max(ss)
        BY <3>1, MaxOf, n + 1 \in Nat
      <4>2. Max(ss) = n + 1
        <5>1. Max(ss) \in 1 .. n + 1 /\ n + 1 <= Max(ss)
          BY <3>1, <4>1, Zenon
        <5>. QED  BY <5>1
      <4>3. ss \ {n + 1} \in SUBSET (1 .. n + 1) /\ n + 1 \notin ss \ {n + 1}
        OBVIOUS
      <4>4. g[ss \ {n + 1}] = h[ss \ {n + 1}]
        BY <4>3
      <4>. QED  BY <3>1, <4>2, <4>4
    <3>2. CASE n + 1 \notin ss
      <4>1. ss \in SUBSET (1 .. n)
        BY <3>2
      <4>2. h[ss] = IF ss = {} THEN base ELSE Op(h[ss \ {Max(ss)}], s[Max(ss)])
        BY <2>1, <4>1 DEF FoldOf
      <4>3. g[ss] = h[ss]
        BY <3>2
      <4>4. ss \ {Max(ss)} \in SUBSET (1 .. n + 1) /\ n + 1 \notin ss \ {Max(ss)}
        BY <3>2
      <4>5. g[ss \ {Max(ss)}] = h[ss \ {Max(ss)}]
        BY <4>4
      <4>. QED  BY <4>2, <4>3, <4>5
    <3>. QED  BY <3>1, <3>2
  <2>3. FoldOf(g, n + 1, base, s)
    BY <2>2 DEF FoldOf
  <2>. QED  BY <2>3
<1>3. Nat \subseteq T
  <2>. HIDE DEF T
  <2>. QED  BY <1>1, <1>2, AllOfNat
<1>. QED  BY <1>3

\* Two of them agree wherever their sequences do.
LEMMA FoldUnique ==
  ASSUME NEW base, NEW s, NEW t, NEW n \in Nat, NEW m \in Nat, NEW h, NEW g,
         FoldOf(h, n, base, s), FoldOf(g, m, base, t), n <= m,
         \A i \in 1 .. n : s[i] = t[i]
  PROVE  h[1 .. n] = g[1 .. n]
<1> DEFINE T == {k \in Nat : k <= n => \A ss \in SUBSET (1 .. k) : h[ss] = g[ss]}
<1>1. 0 \in T
  <2>1. h[{}] = base /\ g[{}] = base
    BY {} \in SUBSET (1 .. n) /\ {} \in SUBSET (1 .. m) DEF FoldOf
  <2>. QED  BY <2>1, 1 .. 0 = {}
<1>2. ASSUME NEW k \in Nat, k \in T  PROVE k + 1 \in T
  <2>. SUFFICES ASSUME k + 1 <= n, NEW ss \in SUBSET (1 .. k + 1)
                PROVE  h[ss] = g[ss]
    <3>1. k + 1 \in Nat
      OBVIOUS
    <3>. QED  BY <3>1, Zenon
  <2>1. CASE ss = {}
    BY <1>1, <2>1
  <2>2. CASE ss # {}
    <3>1. Max(ss) \in ss /\ \A y \in ss : y <= Max(ss)
      BY <2>2, MaxOf, k + 1 \in Nat
    <3>2. ss \ {Max(ss)} \in SUBSET (1 .. k)
      <4>. SUFFICES ASSUME NEW y \in ss, y # Max(ss)  PROVE y \in 1 .. k
        OBVIOUS
      <4>1. y <= Max(ss) /\ y \in 1 .. k + 1 /\ Max(ss) \in 1 .. k + 1
        BY <3>1
      <4>. QED  BY <4>1
    <3>3. h[ss \ {Max(ss)}] = g[ss \ {Max(ss)}]
      BY <1>2, <3>2
    <3>4. ss \in SUBSET (1 .. n) /\ ss \in SUBSET (1 .. m)
      OBVIOUS
    <3>5. h[ss] = Op(h[ss \ {Max(ss)}], s[Max(ss)]) /\ g[ss] = Op(g[ss \ {Max(ss)}], t[Max(ss)])
      BY <2>2, <3>4 DEF FoldOf
    <3>6. s[Max(ss)] = t[Max(ss)]
      BY <3>1, <3>4
    <3>. QED  BY <3>3, <3>5, <3>6
  <2>. QED  BY <2>1, <2>2
<1>3. n \in T
  <2>. HIDE DEF T
  <2>. QED  BY <1>1, <1>2, AllOfNat
<1>. QED  BY <1>3

\* FoldLeft is its value for all indexes.
LEMMA FoldIs ==
  ASSUME NEW Data, NEW base, NEW s \in Seq(Data)
  PROVE  \E h : FoldOf(h, Len(s), base, s) /\ Fold(base, s) = h[1 .. Len(s)]
<1> DEFINE it == CHOOSE h : h = [ss \in SUBSET DOMAIN s |->
                   IF ss = {} THEN base ELSE Op(h[ss \ {Max(ss)}], s[Max(ss)])]
<1>1. Fold(base, s) = it[DOMAIN s]
  BY DEF Fold, FoldLeft, MapThenFoldSet
<1>2. DOMAIN s = 1 .. Len(s) /\ Len(s) \in Nat
  OBVIOUS
<1>3. \E h : h = [ss \in SUBSET DOMAIN s |->
                   IF ss = {} THEN base ELSE Op(h[ss \ {Max(ss)}], s[Max(ss)])]
  <2>1. \E h : FoldOf(h, Len(s), base, s)
    BY <1>2, FoldExists
  <2>. QED  BY <1>2, <2>1 DEF FoldOf
<1>4. it = [ss \in SUBSET DOMAIN s |->
                   IF ss = {} THEN base ELSE Op(it[ss \ {Max(ss)}], s[Max(ss)])]
  BY <1>3
<1>. HIDE DEF it
<1>. QED  BY <1>1, <1>2, <1>4 DEF FoldOf

-----------------------------------------------------------------------------
(***************************************************************************)
(* What FoldLeft does                                                      *)
(***************************************************************************)
\* The fold of nothing is where it starts.
LEMMA FoldEmpty ==
  ASSUME NEW base
  PROVE  Fold(base, << >>) = base
<1>1. PICK h : FoldOf(h, 0, base, << >>) /\ Fold(base, << >>) = h[1 .. 0]
  BY FoldIs, << >> \in Seq({}), Len(<< >>) = 0
<1>. QED  BY <1>1, 1 .. 0 = {} DEF FoldOf

\* The last element is taken last.
LEMMA FoldAppend ==
  ASSUME NEW Data, NEW base, NEW s \in Seq(Data), NEW x \in Data
  PROVE  Fold(base, Append(s, x)) = Op(Fold(base, s), x)
<1> DEFINE t == Append(s, x)
<1>0. /\ t \in Seq(Data) /\ Len(t) = Len(s) + 1 /\ Len(s) \in Nat
      /\ t[Len(s) + 1] = x /\ \A i \in 1 .. Len(s) : s[i] = t[i]
  OBVIOUS
<1>. HIDE DEF t
<1>1. PICK h : FoldOf(h, Len(s), base, s) /\ Fold(base, s) = h[1 .. Len(s)]
  BY FoldIs
<1>2. PICK g : FoldOf(g, Len(s) + 1, base, t) /\ Fold(base, t) = g[1 .. Len(s) + 1]
  BY <1>0, FoldIs
<1>3. h[1 .. Len(s)] = g[1 .. Len(s)]
  BY <1>0, <1>1, <1>2, FoldUnique, Len(s) + 1 \in Nat, Len(s) <= Len(s) + 1
<1> DEFINE all == 1 .. Len(s) + 1
<1>4. all \in SUBSET (1 .. Len(s) + 1) /\ all # {} /\ Len(s) + 1 \in all
  BY <1>0
<1>5. Max(all) = Len(s) + 1
  <2>1. Max(all) \in all /\ \A y \in all : y <= Max(all)
    BY <1>0, <1>4, MaxOf, Len(s) + 1 \in Nat
  <2>. QED  BY <1>0, <1>4, <2>1
<1>6. all \ {Len(s) + 1} = 1 .. Len(s)
  BY <1>0
<1>7. g[all] = Op(g[all \ {Max(all)}], t[Max(all)])
  BY <1>2, <1>4 DEF FoldOf
<1>. QED  BY <1>0, <1>1, <1>2, <1>3, <1>5, <1>6, <1>7 DEF t

\* What the start has and each step keeps, the fold has.
THEOREM FoldKeeps ==
  ASSUME NEW Data, NEW Acc, NEW base \in Acc,
         \A acc \in Acc, x \in Data : Op(acc, x) \in Acc
  PROVE  \A s \in Seq(Data) : Fold(base, s) \in Acc
<1> DEFINE T == {n \in Nat : \A s \in Seq(Data) : Len(s) = n => Fold(base, s) \in Acc}
<1>1. 0 \in T
  BY FoldEmpty
<1>2. ASSUME NEW n \in Nat, n \in T  PROVE n + 1 \in T
  <2>. SUFFICES ASSUME NEW s \in Seq(Data), Len(s) = n + 1  PROVE Fold(base, s) \in Acc
    OBVIOUS
  <2> DEFINE t == SubSeq(s, 1, n)
  <2>1. t \in Seq(Data) /\ Len(t) = n /\ s[n + 1] \in Data
    OBVIOUS
  <2>2. s = Append(t, s[n + 1])
    OBVIOUS
  <2>. HIDE DEF t
  <2>3. Fold(base, s) = Op(Fold(base, t), s[n + 1])
    <3>1. \A x \in Data : Fold(base, Append(t, x)) = Op(Fold(base, t), x)
      BY <2>1, FoldAppend
    <3>. QED  BY <2>1, <2>2, <3>1, Zenon
  <2>4. Fold(base, t) \in Acc
    BY <1>2, <2>1
  <2>. QED  BY <2>1, <2>3, <2>4
<1>3. Nat \subseteq T
  <2>. HIDE DEF T
  <2>. QED  BY <1>1, <1>2, AllOfNat
<1>. QED  BY <1>3

\* What holds of the start, and each element carries on from those before it,
\* holds of the fold: the induction for what is said of a part of the sequence.
THEOREM FoldSteps ==
  ASSUME NEW Data, NEW base, NEW s \in Seq(Data), NEW I, <<0, base>> \in I,
         \A k \in Nat : \A acc :
           k < Len(s) /\ <<k, acc>> \in I => <<k + 1, Op(acc, s[k + 1])>> \in I
  PROVE  <<Len(s), Fold(base, s)>> \in I
<1> DEFINE T == {k \in Nat : k <= Len(s) => <<k, Fold(base, SubSeq(s, 1, k))>> \in I}
<1>1. 0 \in T
  <2>1. SubSeq(s, 1, 0) = << >>
    OBVIOUS
  <2>. QED  BY <2>1, FoldEmpty
<1>2. ASSUME NEW k \in Nat, k \in T  PROVE k + 1 \in T
  <2>. SUFFICES ASSUME k + 1 <= Len(s)
                PROVE  <<k + 1, Fold(base, SubSeq(s, 1, k + 1))>> \in I
    OBVIOUS
  <2> DEFINE t == SubSeq(s, 1, k)
  <2>1. t \in Seq(Data) /\ s[k + 1] \in Data /\ k < Len(s) /\ k <= Len(s)
    OBVIOUS
  <2>2. SubSeq(s, 1, k + 1) = Append(t, s[k + 1])
    OBVIOUS
  <2>3. <<k, Fold(base, t)>> \in I
    BY <1>2, <2>1
  <2>. HIDE DEF t
  <2>4. \A x \in Data : Fold(base, Append(t, x)) = Op(Fold(base, t), x)
    BY <2>1, FoldAppend
  <2>5. Fold(base, SubSeq(s, 1, k + 1)) = Op(Fold(base, t), s[k + 1])
    BY <2>1, <2>2, <2>4, Zenon
  <2>. QED  BY <2>1, <2>3, <2>5
<1>3. Len(s) \in T
  <2>1. Nat \subseteq T
    <3>. HIDE DEF T
    <3>. QED  BY <1>1, <1>2, AllOfNat
  <2>. QED  BY <2>1
<1>4. SubSeq(s, 1, Len(s)) = s
  OBVIOUS
<1>5. Len(s) \in Nat /\ Len(s) <= Len(s)
  OBVIOUS
<1>6. <<Len(s), Fold(base, SubSeq(s, 1, Len(s)))>> \in I
  BY <1>3, <1>5
<1>. QED  BY <1>4, <1>6
=============================================================================
