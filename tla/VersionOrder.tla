---------------------------- MODULE VersionOrder ----------------------------
(***************************************************************************)
(* FlVersionCmp: the order of version strings by which the index prefers   *)
(* one file of a face to another, as util_posix.c and util.c define it.    *)
(* A version is a sequence of characters, each by its code.                *)
(***************************************************************************)
EXTENDS Integers, Sequences

Digit == 48 .. 57

\* Length of the digits with which a begins.
Run(a) ==
  CHOOSE n \in 0 .. Len(a) :
    /\ \A i \in 1 .. n : a[i] \in Digit
    /\ n < Len(a) => a[n + 1] \notin Digit

\* Mutant of Longer: the digits beyond the shorter number count as they are.
MutLonger(a, b) == Run(a) > Run(b)

\* After the digits both numbers have, a has more that are not leading zeros.
Longer(a, b) == \E i \in 1 .. Run(a) - Run(b) : a[i] # 48

\* Places, counted from the right, at which the numbers differ.
Differ(a, b) ==
  {i \in 0 .. (IF Run(a) < Run(b) THEN Run(a) ELSE Run(b)) - 1 :
     a[Run(a) - i] # b[Run(b) - i]}

\* At the end of one string the other one is the greater.
EndCmp(a, b) == IF a # << >> THEN 1 ELSE IF b # << >> THEN -1 ELSE 0

\* util_posix.c: the rightmost difference decides.
RECURSIVE FlVersionCmp(_, _)
FlVersionCmp(a, b) ==
  CASE a = << >> \/ b = << >> -> EndCmp(a, b)
    [] ~(a[1] \in Digit /\ b[1] \in Digit) /\ a[1] # b[1] -> a[1] - b[1]
    [] ~(a[1] \in Digit /\ b[1] \in Digit) /\ a[1] = b[1] -> FlVersionCmp(Tail(a), Tail(b))
    [] OTHER ->
         IF Longer(a, b) THEN 1
         ELSE IF Longer(b, a) THEN -1
         ELSE IF Differ(a, b) # {}
           THEN LET i == CHOOSE i \in Differ(a, b) : \A j \in Differ(a, b) : i <= j
                IN  a[Run(a) - i] - b[Run(b) - i]
           ELSE FlVersionCmp(SubSeq(a, Run(a) + 1, Len(a)), SubSeq(b, Run(b) + 1, Len(b)))

\* util.c: cmp is assigned at every digit, so the leftmost one both numbers
\* have decides, and two numbers that agree there count as equal.
RECURSIVE WinVersionCmp(_, _)
WinVersionCmp(a, b) ==
  CASE a = << >> \/ b = << >> -> EndCmp(a, b)
    [] ~(a[1] \in Digit /\ b[1] \in Digit) /\ a[1] # b[1] -> a[1] - b[1]
    [] ~(a[1] \in Digit /\ b[1] \in Digit) /\ a[1] = b[1] -> WinVersionCmp(Tail(a), Tail(b))
    [] OTHER ->
         LET k == IF Run(a) < Run(b) THEN Run(a) ELSE Run(b)
             cmp == a[Run(a) - k + 1] - b[Run(b) - k + 1]
         IN  IF Longer(a, b) THEN 1
             ELSE IF Longer(b, a) THEN -1
             ELSE IF cmp # 0 THEN cmp
             ELSE WinVersionCmp(SubSeq(a, Run(a) + 1, Len(a)), SubSeq(b, Run(b) + 1, Len(b)))
=============================================================================
