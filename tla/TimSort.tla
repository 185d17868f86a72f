------------------------------- MODULE TimSort -------------------------------
(***************************************************************************)
(* tim_sort.c: a merge sort that leaves runs of up to three entries, or    *)
(* everything when there is no memory for a copy, to a selection sort.     *)
(* Entries are pairs of a key, by which they are compared, and an identity.*)
(***************************************************************************)
EXTENDS Integers, Sequences

Comp(x, y) == x[1] - y[1]

\* The entry select_sort swaps to the front: the first of the least ones.
Least(s) ==
  CHOOSE m \in DOMAIN s :
    /\ \A j \in DOMAIN s : Comp(s[m], s[j]) <= 0
    /\ \A j \in 1 .. m - 1 : Comp(s[m], s[j]) # 0

RECURSIVE SelectSort(_)
SelectSort(s) ==
  IF s = << >> THEN s
  ELSE <<s[Least(s)]>> \o SelectSort(Tail([s EXCEPT ![Least(s)] = s[1]]))

\* Mutant of Merge: what is left of the second half is forgotten.
MutMerge(s, t) ==
  LET RECURSIVE M(_, _)
      M(a, b) == IF a = << >> \/ b = << >> THEN a
                 ELSE IF Comp(a[1], b[1]) <= 0 THEN <<a[1]>> \o M(Tail(a), b)
                                               ELSE <<b[1]>> \o M(a, Tail(b))
  IN  M(s, t)

\* The loops of tim_sort_i over the copies of both halves.
RECURSIVE Merge(_, _)
Merge(a, b) ==
  IF a = << >> \/ b = << >> THEN a \o b
  ELSE IF Comp(a[1], b[1]) <= 0 THEN <<a[1]>> \o Merge(Tail(a), b)
                                ELSE <<b[1]>> \o Merge(a, Tail(b))

RECURSIVE SortRange(_)
SortRange(s) ==
  LET mid == Len(s) \div 2
  IN  IF Len(s) < 4 THEN SelectSort(s)
      ELSE Merge(SortRange(SubSeq(s, 1, mid)), SortRange(SubSeq(s, mid + 1, Len(s))))

\* tim_sort; room: temp could be allocated.
Sort(s, room) == IF room THEN SortRange(s) ELSE SelectSort(s)
=============================================================================
