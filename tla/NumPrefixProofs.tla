--------------------------- MODULE NumPrefixProofs ---------------------------
(***************************************************************************)
(* Why the key that getPrefix returns is still free when a single          *)
(* importing process inserts its row.                                      *)
(***************************************************************************)
EXTENDS NumPrefix, RowIdProofs

(* Keys stay numbers of at most nine digits, one past MaxId when handed    *)
(* out for a full table.                                                   *)
THEOREM TypeCorrect == Spec => []TypeOK
<1>1. Init => TypeOK
  BY NumPrefixAssumption DEF Init, TypeOK, NoId
<1>2. TypeOK /\ [Next]_vars => TypeOK'
  <2> SUFFICES ASSUME TypeOK, [Next]_vars PROVE TypeOK'
    OBVIOUS
  <2> USE NumPrefixAssumption DEF TypeOK, NoId
  <2>1. ASSUME NEW w \in Writers, Select(w) PROVE TypeOK'
    <3>1. getPrefix(ids) \in 1..(MaxId + 1)
      BY GetPrefixSmallestFree
    <3> QED
      BY <2>1, <3>1 DEF Select
  <2>2. ASSUME NEW w \in Writers, Insert(w) PROVE TypeOK'
    <3>1. ids' = ids \cup {held[w]} /\ held[w] \in 1..MaxId
      BY <2>2 DEF Insert
    <3>2. held' \in [Writers -> 0..(MaxId + 1)]
      BY <2>2 DEF Insert
    <3> QED
      BY <3>1, <3>2
  <2>3. ASSUME NEW w \in Writers, InsertFails(w) PROVE TypeOK'
    BY <2>3 DEF InsertFails
  <2>4. ASSUME NEW w \in Writers, Delete(w) PROVE TypeOK'
    BY <2>4 DEF Delete
  <2>5. CASE UNCHANGED vars
    BY <2>5 DEF vars
  <2> QED
    BY <2>1, <2>2, <2>3, <2>4, <2>5 DEF Next
<1> QED
  BY <1>1, <1>2, PTL DEF Spec

(* One process at a time runs the import: the service is the only writer.  *)
OneWriter == \A v, w \in Writers : v = w

(* With one writer the key that getPrefix found is still free, and still   *)
(* the smallest free one, when its INSERT runs.                            *)
THEOREM KeyStaysFree ==
  ASSUME OneWriter
  PROVE  Spec => [](NoKeyClash /\ LowestFree)
<1> DEFINE Inv == NoKeyClash /\ LowestFree
<1> USE NumPrefixAssumption DEF NoKeyClash, LowestFree, NoId
<1>1. Init => Inv
  BY DEF Init
<1>2. TypeOK /\ Inv /\ [Next]_vars => Inv'
  <2> SUFFICES ASSUME TypeOK, Inv, [Next]_vars PROVE Inv'
    OBVIOUS
  <2> USE DEF TypeOK
  <2>1. ASSUME NEW w \in Writers, Select(w) PROVE Inv'
    <3>1. /\ getPrefix(ids) \notin ids
          /\ 1..(getPrefix(ids) - 1) \subseteq ids
      BY GetPrefixSmallestFree
    <3> QED
      BY <2>1, <3>1 DEF Select
  <2>2. ASSUME NEW w \in Writers, Insert(w) PROVE Inv'
    <3>1. \A v \in Writers : held'[v] = NoId
      BY <2>2 DEF Insert, OneWriter
    <3> QED
      BY <3>1
  <2>3. ASSUME NEW w \in Writers, InsertFails(w) PROVE Inv'
    BY <2>3 DEF InsertFails
  <2>4. ASSUME NEW w \in Writers, Delete(w) PROVE Inv'
    <3>1. \A v \in Writers : held'[v] = NoId
      BY <2>4 DEF Delete, OneWriter
    <3> QED
      BY <3>1
  <2>5. CASE UNCHANGED vars
    BY <2>5 DEF vars
  <2> QED
    BY <2>1, <2>2, <2>3, <2>4, <2>5 DEF Next
<1> QED
  BY <1>1, <1>2, TypeCorrect, PTL DEF Spec

(* The second half by itself: when the INSERT runs, no number below the    *)
(* key is free, so the numbering is filled from below.                     *)
THEOREM KeyIsLowest ==
  ASSUME OneWriter
  PROVE  Spec => []LowestFree
BY KeyStaysFree, PTL
=============================================================================
