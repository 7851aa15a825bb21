---------------------------- MODULE MCWinService ----------------------------
(* The controls MyService accepts, and those of a service that also wants  *)
(* to hear of the system's shutdown.                                       *)
EXTENDS WinService

MyServiceAccepts == Codes \ {"shutdown"}
=============================================================================
