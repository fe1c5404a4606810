------------------------------- MODULE Lists -------------------------------
(***************************************************************************)
(* The few operators on sequences and finite sets that the parts of an     *)
(* agent and of the host use, by the names they have in the community      *)
(* modules SequencesExt and FiniteSetsExt.  Those modules are not extended *)
(* here: an instance of a module takes along all that the module extends,  *)
(* and the proofs about MCAgents and MCHost would carry the whole library  *)
(* once for each of their instances.                                       *)
(***************************************************************************)
EXTENDS Naturals, Sequences, FiniteSets

\* The least and the greatest of a set of numbers.
Min(S) == CHOOSE x \in S : \A y \in S : x =< y
Max(S) == CHOOSE x \in S : \A y \in S : x >= y

\* The elements of a sequence; whether an element is one of them.
ToSet(s) == {s[i] : i \in DOMAIN s}
Contains(s, e) == e \in ToSet(s)

\* Parts of a sequence.
Last(s) == s[Len(s)]
Front(s) == SubSeq(s, 1, Len(s) - 1)
IsPrefix(s, t) == Len(s) =< Len(t) /\ \A i \in DOMAIN s : s[i] = t[i]

\* The place of the first element that passes a test, 0 if none does.
SelectInSeq(s, Test(_)) ==
  LET I == {i \in DOMAIN s : Test(s[i])} IN IF I # {} THEN Min(I) ELSE 0

\* The elements of a finite set, each once.
SetToSeq(S) ==
  CHOOSE s \in [1..Cardinality(S) -> S] : \A i, j \in DOMAIN s : s[i] = s[j] => i = j

\* What an operator makes of the elements from the first to the last.
FoldLeft(op(_, _), base, s) ==
  LET upTo[n \in 0..Len(s)] == IF n = 0 THEN base ELSE op(upTo[n - 1], s[n])
  IN  upTo[Len(s)]

FlattenSeq(s) == FoldLeft(LAMBDA done, next : done \o next, <<>>, s)
============================================================================
