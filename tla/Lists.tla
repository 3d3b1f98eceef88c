------------------------------- MODULE Lists --------------------------------
(***************************************************************************)
(* Lists as the program makes them: by a comprehension with a condition,   *)
(* without doubles, and by a stable sort.                                  *)
(***************************************************************************)
EXTENDS Integers, Sequences, FiniteSets

\* The elements of s at DOMAIN rank, in the order of their ranks 1, 2, ...
Ranked(s, rank) ==
  [n \in 1 .. Cardinality(DOMAIN rank) |-> s[CHOOSE i \in DOMAIN rank : rank[i] = n]]

\* What a list keeps of s: what is at these places, in its order.
Kept(s, places) ==
  LET its == places \cap DOMAIN s
  IN Ranked(s, [i \in its |-> Cardinality({j \in its : j <= i})])

\* Every element where it first stands.
Distinct(s) == Kept(s, {i \in DOMAIN s : \A j \in 1 .. i - 1 : s[j] # s[i]})

\* sort(key=..., reverse=True): by descending score, equal scores in place.
ByScore(s, score) ==
  LET above(j, i) == score[s[j]] > score[s[i]] \/ (score[s[j]] = score[s[i]] /\ j <= i)
  IN Ranked(s, [i \in DOMAIN s |-> Cardinality({j \in DOMAIN s : above(j, i)})])
=============================================================================
