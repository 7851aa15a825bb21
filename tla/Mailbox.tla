------------------------------- MODULE Mailbox -------------------------------
(***************************************************************************)
(* What a client of the exchange directory may rely on for its update      *)
(* files: a file stays in the directory until its statements have been     *)
(* executed.  They may be executed again (the service died in between) but *)
(* never zero times.                                                       *)
(***************************************************************************)
CONSTANT Updates     (* names of update files *)

VARIABLES box,       (* files that are in the directory           *)
          done       (* files executed in full, at least once     *)

mvars == <<box, done>>

Init == box = {} /\ done = {}

Post(u) == u \notin box \cup done /\ box' = box \cup {u} /\ UNCHANGED done

Process(u) == u \in box /\ done' = done \cup {u} /\ UNCHANGED box

Take(u) == u \in box \cap done /\ box' = box \ {u} /\ UNCHANGED done

Next == \E u \in Updates : Post(u) \/ Process(u) \/ Take(u)

Spec == Init /\ [][Next]_mvars
=============================================================================
