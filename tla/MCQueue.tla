------------------------------- MODULE MCQueue -------------------------------
(* Model-checking instance of Queue: small thread sets as model values.    *)
EXTENDS Queue, TLC

CONSTANTS p1, p2, c1, c2, k1, o1

\* Producers and consumers are interchangeable threads.
ThreadSymmetry == Permutations({p1, p2}) \cup Permutations({c1, c2})
=============================================================================
