---------------------------- MODULE MCWinControl ----------------------------
EXTENDS WinControl, TLC

\* What MyService accepts; user controls and interrogation need no flag.
MyServiceAccepts == Codes \ {"shutdown"}

Symmetry == Permutations(Controllers)
=============================================================================
