--------------------------- MODULE MCUnixInstall ---------------------------
EXTENDS UnixInstall

CONSTANTS p1, p2

\* Two copies of the program that differ in the startup type they install.
Types == [p \in {p1, p2} |-> IF p = p1 THEN "AutoStartup" ELSE "ManualStartup"]
=============================================================================
