--------------------------- MODULE MCUnixService ---------------------------
EXTENDS UnixService, TLC

\* What MyService sets (myservice.cpp:8).
MyServiceFlags == {"CanBeSuspended"}

Symmetry == Permutations(Instances) \cup Permutations(Callers)
=============================================================================
