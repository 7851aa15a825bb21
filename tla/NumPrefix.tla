------------------------------ MODULE NumPrefix ------------------------------
(***************************************************************************)
(* How rows get their keys.  getPrefix (module RowId) reads the keys of a  *)
(* table and returns the next one to use; the caller then runs an INSERT   *)
(* with that key as a separate statement (for instance                     *)
(* readxml.cpp:524-528), so the pair is atomic only while one process      *)
(* writes the database.  MaxId stands for the 999 999 999 up to which the  *)
(* text order of keys is their numeric order.                              *)
(***************************************************************************)
EXTENDS RowId

CONSTANTS Writers,   (* processes that run the import on one database file *)
          MaxId      (* bound: the largest number a key can hold           *)

ASSUME NumPrefixAssumption == MaxId \in Nat \ {0}

NoId == 0            (* the writer holds no key *)

VARIABLES ids,       (* numbers of the SRV keys present in the table       *)
          held       (* held[w]: key w got from getPrefix, not inserted yet *)

vars == <<ids, held>>

TypeOK == /\ ids \in SUBSET (1..MaxId)
          /\ held \in [Writers -> 0..(MaxId + 1)]

-----------------------------------------------------------------------------

Init == ids = {} /\ held = [w \in Writers |-> NoId]

Select(w) == /\ held[w] = NoId
             /\ held' = [held EXCEPT ![w] = getPrefix(ids)]
             /\ UNCHANGED ids

\* The INSERT: the key column rejects a duplicate, the code only logs it.
Insert(w) == /\ held[w] \in 1..MaxId
             /\ ids' = ids \cup {held[w]}
             /\ held' = [held EXCEPT ![w] = NoId]

\* The INSERT fails for any other reason (logged, ignored by the caller).
InsertFails(w) == /\ held[w] # NoId
                  /\ held' = [held EXCEPT ![w] = NoId]
                  /\ UNCHANGED ids

\* DELETE of the sweep (readxml.cpp:155) or of an update file, between rows.
Delete(w) == /\ held[w] = NoId
             /\ \E S \in SUBSET ids : S # {} /\ ids' = ids \ S
             /\ UNCHANGED held

Next == \E w \in Writers : Select(w) \/ Insert(w) \/ InsertFails(w) \/ Delete(w)

Spec == Init /\ [][Next]_vars

-----------------------------------------------------------------------------
(* Properties *)

\* A key that getPrefix handed out is not the key of an existing row when the
\* INSERT runs: the INSERT of numprefix's callers never hits the primary key.
NoKeyClash == \A w \in Writers : held[w] # NoId => held[w] \notin ids

\* The cursor loop of getPrefix finds the smallest free number: all smaller
\* ones are taken ("try insert record in empty row", numprefix.cpp:33).
LowestFree == \A w \in Writers : held[w] # NoId => 1..(held[w] - 1) \subseteq ids
=============================================================================
