----------------------------- MODULE MCSockets -----------------------------
EXTENDS Sockets, TLC

CONSTANTS t1, t2, o1, o2, o3

\* Threads and objects are interchangeable: no action names one of them.
Symmetry == Permutations({t1, t2}) \cup Permutations({o1, o2, o3})

=============================================================================
