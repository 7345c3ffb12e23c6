-------------------------- MODULE IndexedSequences --------------------------
(* Sequences, whatever their elements are: arguments, texts, containers.    *)
EXTENDS Integers, Sequences

IsSequence(s) == Len(s) \in Nat /\ s = [i \in 1..Len(s) |-> s[i]]

\* What becomes of first when Step takes the elements of s, one by one.  (A
\* recursive function, which proofs can unfold.)
Folded(Step(_, _), first, s) ==
  LET after[n \in 0..Len(s)] == IF n = 0 THEN first ELSE Step(after[n - 1], s[n])
  IN after[Len(s)]
=============================================================================
