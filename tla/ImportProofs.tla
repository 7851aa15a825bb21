---------------------------- MODULE ImportProofs ----------------------------
(***************************************************************************)
(* Proofs about Import, for any set of uploads, any sound database to      *)
(* start from and any number of imports, crashes and failed statements.    *)
(*                                                                         *)
(* The argument: everybody the walk has passed in the file is marked       *)
(* (Marked), which needs that a person has one row (People); the owner of  *)
(* a dependent row was marked before the row was entered (Owned), so no    *)
(* sweep takes an owner and no key of one is given away, unless the row    *)
(* was there at the start and its owner unmarked; a row is entered         *)
(* after what it refers to (Linked), and only when it was looked for and   *)
(* is not there (Single); and rows that a record asked for stay (Has), so  *)
(* that on a Sunday everything behind the walk is complete (Repaired).     *)
(***************************************************************************)
EXTENDS Import, RowIdProofs

\* The steps at which the walk is inside a record, and all steps of the walk.
InRecord == pc \in {"org", "employee", "update", "item", "row"}
Walking  == InRecord \/ pc \in {"node", "sweep"}

\* Node j is a record.
IsRecord(j) == j \in 1..Len(file) /\ file[j].kind = "Element"

\* All keys are below some bound, so that getPrefix has a last row to look at.
Bounded == \E n \in Nat : \A r \in dict \cup employee \cup child : r.id \in 1..n

\* A row of a dependent table, with any result.
WithResult(c, x) ==
  [table |-> c.table, id |-> c.id, employee |-> c.employee, key |-> c.key,
   asked |-> c.asked, ref |-> c.ref, result |-> x, owner |-> c.owner]

\* The columns of the rows.
Columns ==
  /\ employee \subseteq [id : Nat \ {NoRow}, person : Persons,
                         refs : [DOMAIN NoRefs -> Nat], fordelete : {0, 1}]
  /\ \A c \in child : c = WithResult(c, c.result)
  /\ Bounded

\* The walk's position.
Place ==
  /\ InRecord => IsRecord(cur)
  /\ pc = "org" => k \in 1..Len(OrgTables)
  /\ pc \in {"employee", "update"} => k = 1
  /\ pc = "row" => k \in 1..Len(Node.items)
  /\ pc = "sweep" => cur > Len(file)

\* One row a person and one person a key; who is about to be inserted is not
\* there.
People ==
  /\ \A d, e \in employee : d.id = e.id \/ d.person = e.person => d = e
  /\ pc \in {"org", "employee"} /\ insertEmployee
     => \A e \in employee : e.person # Node.person

\* Everybody in the part of the file that was walked is marked, if there.
Marked ==
  Walking =>
    \A j \in 1..Len(file) : IsRecord(j) /\ (j < cur \/ (InRecord /\ j = cur)) =>
      \A e \in employee : e.person = file[j].person => e.fordelete = 1

\* The row of a person whose key is id, whom the sweep will spare.
Spared(id, p) == \E e \in employee : e.id = id /\ e.person = p /\ e.fordelete = 1

\* The record's person is there under the key the record's rows will get, and so
\* is the owner of every row of a dependent table that was not Unlisted.
Owned ==
  failures = 0 =>
  /\ pc \in {"org", "employee"} /\ ~insertEmployee => Spared(personId, Node.person)
  /\ pc \in {"update", "item", "row"} => Spared(personId, Node.person)
  /\ \A c \in child : Spared(c.employee, c.owner) \/ Unlisted(c)

\* An id found in a dictionary, or none.
IsEntry(T, id) == id = NoRow \/ id \in IdsOf(Entries(T))
IsProgramme(T, id) == id = NoRow \/ (T \in DOMAIN Programmes /\ IsEntry(Programmes[T], id))

\* No dangling key, neither in the tables nor in the variables of the loop.
Linked ==
  failures = 0 =>
  /\ \A T \in DOMAIN NoRefs : IsEntry(T, refs[T])
  /\ \A e \in employee, T \in DOMAIN NoRefs : IsEntry(T, e.refs[T])
  /\ pc = "row" => IsProgramme(Item.table, prog)
  /\ \A c \in child : IsProgramme(c.table, c.ref)

\* The dependent row that is about to be inserted is not there.
Single == pc = "row" /\ Item.table # "siz" => Existing(Item) = {}

\* The rows have the one that item i asks for, for the employee with key id.
Has(rows, entries, id, i) ==
  i.live => \E r \in rows :
    /\ r.table = i.table /\ r.employee = id
    /\ i.table = "siz" => \E d \in entries : d.table = "siznaim" /\ d.name = i.prog /\ d.id = r.ref
    /\ i.table \notin {"overal", "siz"} => r.key \in {i.key, i.stored}

\* What a Sunday's import has got done.
Repaired ==
  /\ allSunday => sunday
  /\ failures = 0 /\ pc = "row" /\ Item.table = "siz"
     => \E d \in dict : d.table = "siznaim" /\ d.name = Item.prog /\ d.id = prog
  /\ failures = 0 /\ allSunday /\ Walking =>
       \A j \in 1..Len(file) : IsRecord(j) /\ j < cur =>
         \E e \in employee :
           /\ e.person = file[j].person
           /\ \A n \in 1..Len(file[j].items) : Has(child, dict, e.id, file[j].items[n])
  /\ failures = 0 /\ allSunday /\ pc \in {"item", "row"} =>
       \A n \in 1..Len(Node.items) : n < k => Has(child, dict, personId, Node.items[n])

-----------------------------------------------------------------------------
(* The operators *)

(* A key that getPrefix chooses for a row of a table is no row's key, and  *)
(* is at most one more than the largest.                                   *)
LEMMA FreshKey ==
  ASSUME NEW n \in Nat, NEW rows, \A r \in rows : r.id \in 1..n
  PROVE  /\ getPrefix(IdsOf(rows)) \in 1..(n + 1)
         /\ \A r \in rows : r.id # getPrefix(IdsOf(rows))
<1>1. IdsOf(rows) \in SUBSET (1..n)
  BY DEF IdsOf
<1>2. getPrefix(IdsOf(rows)) \in 1..(n + 1) /\ getPrefix(IdsOf(rows)) \notin IdsOf(rows)
  BY <1>1, GetPrefixSmallestFree
<1> QED
  BY <1>2 DEF IdsOf

(* The record's four names and the columns that hold their ids.            *)
LEMMA OrgNames ==
  /\ Len(OrgTables) = 4
  /\ DOMAIN NoRefs = {"obosobl", "subdivision", "post", "grafikrabot"}
  /\ \A j \in 1..Len(OrgTables) : OrgTables[j] \in DOMAIN NoRefs
<1>1. Len(OrgTables) = 4
  BY DEF OrgTables
<1>2. \A j \in 1..4 : j = 1 \/ j = 2 \/ j = 3 \/ j = 4
  OBVIOUS
<1>3. {OrgTables[j] : j \in 1..4} = {"obosobl", "subdivision", "post", "grafikrabot"}
  <2>1. /\ OrgTables[1] = "obosobl" /\ OrgTables[2] = "subdivision"
        /\ OrgTables[3] = "post" /\ OrgTables[4] = "grafikrabot"
    BY DEF OrgTables
  <2> QED
    BY <2>1, <1>2
<1> QED
  BY <1>1, <1>3 DEF NoRefs

(* Looking a name up yields the key of its entry, which is there then      *)
(* unless its INSERT failed; nothing else changes.                         *)
LEMMA LookUp ==
  ASSUME NEW T, NEW n, NEW id, GetOrCreate(T, n, id), Bounded, failures \in Nat,
         failures \in 0..MaxFailures, MaxFailures \in Nat,
         \A d \in dict : d.id \in Nat \ {NoRow} /\ d.name # NoName
  PROVE  /\ id \in Nat /\ UNCHANGED <<employee, child>>
         /\ dict \subseteq dict' /\ failures' \in 0..MaxFailures
         /\ \A d \in dict' : d \in dict \/ (/\ n # NoName /\ Named(T, n) = {} /\ id # NoRow
                                            /\ d = [table |-> T, id |-> id, name |-> n])
         /\ failures' = 0 =>
              /\ failures = 0
              /\ n = NoName => id = NoRow
              /\ n # NoName => \E d \in dict' : d.table = T /\ d.name = n /\ d.id = id
         /\ Bounded'
<1>1. PICK b \in Nat : \A r \in dict \cup employee \cup child : r.id \in 1..b
  BY DEF Bounded
<1>2. /\ getPrefix(IdsOf(Entries(T))) \in 1..(b + 1)
  <2>1. \A r \in Entries(T) : r.id \in 1..b
    BY <1>1 DEF Entries
  <2> QED
    BY <1>1, <2>1, FreshKey
<1>3. CASE n = NoName
  <2>0. Named(T, n) = {}
    BY <1>3 DEF Named, Entries
  <2>1. EntryIds(T, n) = {NoRow}
    BY <2>0, <1>3, Zenon DEF EntryIds
  <2>1a. id = NoRow /\ UNCHANGED <<db, failures>>
    BY <2>1, <1>3, Zenon DEF GetOrCreate
  <2>2. Bounded'
    BY <1>1, <2>1a DEF Bounded, db
  <2> QED
    BY <2>1a, <2>2, <1>3 DEF db, NoRow
<1>4. CASE n # NoName /\ Named(T, n) # {}
  <2>1. id \in IdsOf(Named(T, n)) /\ UNCHANGED <<db, failures>>
    BY <1>4 DEF GetOrCreate, EntryIds
  <2>2. Bounded'
    BY <1>1, <2>1 DEF Bounded, db
  <2>3. \E d \in dict : d.table = T /\ d.name = n /\ d.id = id
    BY <2>1 DEF IdsOf, Named, Entries
  <2> QED
    BY <2>1, <2>2, <2>3, <1>4 DEF db
<1>5. CASE n # NoName /\ Named(T, n) = {}
  <2>1. id = getPrefix(IdsOf(Entries(T))) /\ InsertEntry(T, n, id)
    BY <1>5 DEF GetOrCreate, EntryIds
  <2>2. id \in 1..(b + 1) /\ id # NoRow /\ id \in Nat
    BY <1>2, <2>1 DEF NoRow
  <2>3. CASE dict' = dict \cup {[table |-> T, id |-> id, name |-> n]}
             /\ UNCHANGED <<employee, child, failures>>
    <3>1. \A r \in dict' \cup employee' \cup child' : r.id \in 1..(b + 1)
      BY <1>1, <2>2, <2>3
    <3>2. Bounded'
      BY <3>1 DEF Bounded
    <3>3. \E d \in dict' : d.table = T /\ d.name = n /\ d.id = id
      <4> DEFINE d == [table |-> T, id |-> id, name |-> n]
      <4>1. d \in dict'
        BY <2>3
      <4>2. d.table = T /\ d.name = n /\ d.id = id
        OBVIOUS
      <4> QED
        BY <4>1, <4>2
    <3> QED
      BY <2>2, <2>3, <3>2, <3>3, <1>5
  <2>4. CASE failures < MaxFailures /\ failures' = failures + 1 /\ UNCHANGED db
    <3>1. Bounded'
      BY <1>1, <2>4 DEF Bounded, db
    <3> QED
      BY <2>2, <2>4, <3>1 DEF db
  <2> QED
    BY <2>1, <2>3, <2>4 DEF InsertEntry, Inserting
<1> QED
  BY <1>3, <1>4, <1>5
-----------------------------------------------------------------------------
(* What the statements do to the tables *)

\* The row of an employee once it was marked, with columns refs = q.
Listed(e, q) == [id |-> e.id, person |-> e.person, refs |-> q, fordelete |-> 1]

(* A known person's row is marked (readxml.cpp:244-250).                   *)
LEMMA KnownEffect ==
  ASSUME Columns, KnownPerson
  PROVE  \E e \in employee :
           /\ e.person = Node.person /\ personId' = e.id
           /\ employee' = (employee \ {e}) \cup {Listed(e, e.refs)}
<1>1. PICK e \in employee :
        /\ e.person = Node.person /\ personId' = e.id
        /\ employee' = (employee \ {e}) \cup {[e EXCEPT !.fordelete = 1]}
  BY DEF KnownPerson
<1>2. e \in [id : Nat \ {NoRow}, person : Persons, refs : [DOMAIN NoRefs -> Nat],
             fordelete : {0, 1}]
  BY DEF Columns
<1>3. [e EXCEPT !.fordelete = 1] = Listed(e, e.refs)
  BY <1>2 DEF Listed
<1> QED
  BY <1>1, <1>3

(* The update of a record's person changes that row and no other.          *)
LEMMA UpdateEffect ==
  ASSUME Columns, UpdatePerson
  PROVE  employee' = {IF e.id = personId THEN Listed(e, refs) ELSE e : e \in employee}
<1>1. \A e \in employee : [e EXCEPT !.refs = refs, !.fordelete = 1] = Listed(e, refs)
  <2> TAKE e \in employee
  <2>1. e \in [id : Nat \ {NoRow}, person : Persons, refs : [DOMAIN NoRefs -> Nat],
               fordelete : {0, 1}]
    BY DEF Columns
  <2> DEFINE x == [e EXCEPT !.refs = refs]
  <2>2. x = [id |-> e.id, person |-> e.person, refs |-> refs, fordelete |-> e.fordelete]
    BY <2>1
  <2>3. \A y : y = [id |-> e.id, person |-> e.person, refs |-> refs, fordelete |-> e.fordelete]
          => [y EXCEPT !.fordelete = 1] = Listed(e, refs)
    BY DEF Listed
  <2>4. [x EXCEPT !.fordelete = 1] = Listed(e, refs)
    <3> HIDE DEF x
    <3> QED
      BY <2>2, <2>3
  <2> QED
    BY <2>4, Zenon
<1>2. employee' = {IF e.id = personId THEN [e EXCEPT !.refs = refs, !.fordelete = 1]
                                      ELSE e : e \in employee}
  BY DEF UpdatePerson
<1> QED
  BY <1>1, <1>2

(* A new person gets a key that nobody has, unless the INSERT fails.       *)
LEMMA InsertEffect ==
  ASSUME TypeOK, Columns, InsertPerson, MaxFailures \in Nat
  PROVE  /\ personId' \in Nat \ {NoRow} /\ \A e \in employee : e.id # personId'
         /\ Bounded' /\ UNCHANGED <<dict, child>>
         /\ \/ /\ failures' \in 1..MaxFailures /\ UNCHANGED employee
            \/ /\ UNCHANGED failures
               /\ employee' = employee \cup
                    {[id |-> personId', person |-> Node.person, refs |-> refs, fordelete |-> 1]}
<1>1. PICK b \in Nat : \A r \in dict \cup employee \cup child : r.id \in 1..b
  BY DEF Columns, Bounded
<1>2. /\ getPrefix(IdsOf(employee)) \in 1..(b + 1)
      /\ \A e \in employee : e.id # getPrefix(IdsOf(employee))
  BY <1>1, FreshKey
<1>3. personId' = getPrefix(IdsOf(employee))
  BY DEF InsertPerson
<1>4. \/ /\ failures' \in 1..MaxFailures /\ UNCHANGED db
      \/ /\ UNCHANGED <<failures, dict, child>>
         /\ employee' = employee \cup
              {[id |-> personId', person |-> Node.person, refs |-> refs, fordelete |-> 1]}
  BY DEF InsertPerson, Inserting, TypeOK
<1>5. \A r \in dict' \cup employee' \cup child' : r.id \in 1..(b + 1)
  BY <1>1, <1>2, <1>3, <1>4 DEF db
<1>6. Bounded'
  BY <1>5 DEF Bounded
<1> QED
  BY <1>2, <1>3, <1>4, <1>6 DEF db, NoRow

(* Keeping a dependent row changes at most the result of an examination.   *)
LEMMA KeepEffect ==
  ASSUME Columns, KeepRow
  PROVE  \/ UNCHANGED child
         \/ \E r \in child :
              /\ r.table = "physical" /\ Item.result # NoName
              /\ child' = (child \ {r}) \cup {WithResult(r, Item.result)}
<1>1. PICK r \in Existing(Item) :
        IF Item.table = "physical" /\ Item.result # NoName
          THEN child' = (child \ {r}) \cup {[r EXCEPT !.result = Item.result]}
          ELSE UNCHANGED child
  BY DEF KeepRow
<1>2. r \in child /\ r.table = Item.table /\ r = WithResult(r, r.result)
  BY DEF Existing, Rows, Columns
<1>3. [r EXCEPT !.result = Item.result] = WithResult(r, Item.result)
  BY <1>2 DEF WithResult
<1> QED
  BY <1>1, <1>2, <1>3

(* A new dependent row belongs to the record's person and refers to the    *)
(* programme that was looked up.                                           *)
LEMMA NewRowEffect ==
  ASSUME TypeOK, Columns, NewRow, MaxFailures \in Nat
  PROVE  /\ Bounded' /\ UNCHANGED <<dict, employee>>
         /\ \/ /\ UNCHANGED <<child, failures>>
               /\ Item.table = "siz" /\ (Existing(Item) # {} \/ ~Item.live)
            \/ /\ failures' \in 1..MaxFailures /\ UNCHANGED child
            \/ /\ UNCHANGED failures
               /\ Item.table = "siz" => Existing(Item) = {}
               /\ \E id \in Nat \ {NoRow} :
                    child' = child \cup
                      {[table |-> Item.table, id |-> id, employee |-> personId,
                        key |-> Item.stored, asked |-> Item.key, ref |-> prog,
                        result |-> Item.result, owner |-> Node.person]}
<1>1. PICK b \in Nat : \A r \in dict \cup employee \cup child : r.id \in 1..b
  BY DEF Columns, Bounded
<1> DEFINE id == getPrefix(IdsOf(Rows(Item.table)))
           row == [table |-> Item.table, id |-> id, employee |-> personId,
                   key |-> Item.stored, asked |-> Item.key, ref |-> prog,
                   result |-> Item.result, owner |-> Node.person]
<1>2. id \in 1..(b + 1)
  <2>1. \A r \in Rows(Item.table) : r.id \in 1..b
    BY <1>1 DEF Rows
  <2> QED
    BY <1>1, <2>1, FreshKey
<1>3. CASE UNCHANGED <<db, failures>> /\ Item.table = "siz" /\ (Existing(Item) # {} \/ ~Item.live)
  <2>1. Bounded'
    BY <1>1, <1>3 DEF Bounded, db
  <2> QED
    BY <1>3, <2>1 DEF db
<1>4. CASE ~(Item.table = "siz" /\ (Existing(Item) # {} \/ ~Item.live)) /\ InsertRow(Item)
  <2>1. \/ /\ failures' \in 1..MaxFailures /\ UNCHANGED db
        \/ /\ UNCHANGED <<failures, dict, employee>>
           /\ child' = child \cup {row}
    BY <1>4 DEF InsertRow, Inserting, TypeOK
  <2>2. row.id = id
    OBVIOUS
  <2>3. \A r \in dict' \cup employee' \cup child' : r.id \in 1..(b + 1)
    <3> HIDE DEF row, id
    <3> QED
      BY <1>1, <1>2, <2>1, <2>2 DEF db
  <2>4. Bounded'
    BY <2>3 DEF Bounded
  <2>5. id \in Nat \ {NoRow}
    BY <1>2 DEF NoRow
  <2> HIDE DEF id
  <2> QED
    BY <1>4, <2>1, <2>4, <2>5 DEF db
<1> QED
  BY <1>3, <1>4 DEF NewRow
-----------------------------------------------------------------------------
(* Type correctness *)

(* What an upload is made of.                                              *)
LEMMA Uploads ==
  ASSUME TypeOK
  PROVE  /\ Len(file) \in Nat
         /\ \A j \in 1..Len(file) : IsRecord(j) =>
              /\ file[j].person \in Persons /\ Len(file[j].items) \in Nat
              /\ \A n \in 1..Len(file[j].items) :
                   file[j].items[n].table = "siz" => file[j].items[n].prog # NoName
<1>1. CASE file \in Files
  BY <1>1, ImportAssumption DEF IsRecord
<1>2. CASE file = <<>>
  BY <1>2
<1> QED
  BY <1>1, <1>2 DEF TypeOK

\* The variables of the walk, and the tables, have their types.
WalkOK ==
  /\ pc \in {"idle", "node", "org", "employee", "update", "item", "row", "sweep", "hung"}
  /\ file \in Files \cup {<<>>} /\ cur \in 1..(Len(file) + 1) /\ k \in Nat \ {0}
  /\ personId \in Nat /\ prog \in Nat /\ insertEmployee \in BOOLEAN
  /\ refs \in [DOMAIN NoRefs -> Nat]
  /\ {sunday, allSunday} \subseteq BOOLEAN
  /\ imports \in 0..MaxImports /\ crashes \in 0..MaxCrashes /\ failures \in 0..MaxFailures

TablesOK ==
  /\ \A d \in dict : d.id \in Nat \ {NoRow} /\ d.name # NoName
  /\ \A e \in employee : /\ e.id \in Nat \ {NoRow} /\ e.person \in Persons
                        /\ e.refs \in [DOMAIN NoRefs -> Nat] /\ e.fordelete \in {0, 1}
  /\ \A c \in child : c.id \in Nat \ {NoRow} /\ c.employee \in Nat \ {NoRow} /\ c.ref \in Nat

\* The record's person has a key by the time dependent rows get it.
HasKey == pc \in {"update", "item", "row"} \/ (pc \in {"org", "employee"} /\ ~insertEmployee)
          => personId # NoRow

(* The walk stays well-formed through every statement.                     *)
LEMMA WalkStep ==
  ASSUME TypeOK, Columns, Place, HasKey, [Next]_vars
  PROVE  WalkOK' /\ Place' /\ HasKey'
<1> USE ImportAssumption DEF NoRow
<1>0. WalkOK /\ TablesOK
  BY DEF TypeOK, WalkOK, TablesOK
<1>f. /\ Len(file) \in Nat
      /\ \A j \in 1..Len(file) : IsRecord(j) => Len(file[j].items) \in Nat
  BY Uploads
<1>1. CASE Begin
  <2>1. file' \in Files /\ Len(file') \in Nat
    BY <1>1 DEF Begin
  <2>2. WalkOK'
    BY <1>0, <1>1, <2>1 DEF Begin, WalkOK, Goto
  <2> QED
    BY <1>1, <2>2 DEF Begin, Goto, Place, InRecord, HasKey
<1>2. CASE EndOfFile
  <2>1. WalkOK'
    BY <1>0, <1>2 DEF EndOfFile, WalkOK, Goto, locals, budget
  <2> QED
    BY <1>2, <2>1 DEF EndOfFile, Goto, Place, InRecord, HasKey, locals
<1>3. CASE Sweep
  <2>1. WalkOK'
    BY <1>0, <1>3 DEF Sweep, WalkOK, Goto, locals, budget
  <2> QED
    BY <1>3, <2>1 DEF Sweep, Goto, Place, InRecord, HasKey
<1>4. CASE SkipElement
  <2>1. WalkOK'
    BY <1>0, <1>4, <1>f DEF SkipElement, NextNode, WalkOK, Goto, locals, budget
  <2> QED
    BY <1>4, <2>1 DEF SkipElement, NextNode, Goto, Place, InRecord, HasKey
<1>5. CASE SpinOnNode
  <2>1. WalkOK'
    BY <1>0, <1>5 DEF SpinOnNode, WalkOK, Goto, locals, budget
  <2> QED
    BY <1>5, <2>1 DEF SpinOnNode, Goto, Place, InRecord, HasKey
<1>6. CASE KnownPerson
  <2>1. PICK e \in employee : personId' = e.id
    BY <1>6, KnownEffect
  <2>2. personId' \in Nat \ {NoRow}
    BY <1>0, <2>1 DEF TablesOK
  <2>e. /\ UNCHANGED <<file, refs, prog, sunday, imports, crashes, failures, allSunday>>
        /\ insertEmployee' \in BOOLEAN
    BY <1>6 DEF KnownPerson, budget
  <2>3. CASE sunday
    <3>1. pc' = "org" /\ k' = 1 /\ cur' = cur
      BY <1>6, <2>3 DEF KnownPerson, Goto
    <3>2. WalkOK'
      BY <1>0, <2>e, <2>2, <3>1 DEF WalkOK
    <3>3. IsRecord(cur)'
      BY <1>0, <1>6, <3>1 DEF KnownPerson, IsRecord, Node, WalkOK
    <3> QED
      BY <2>2, <3>1, <3>2, <3>3, OrgNames DEF Place, InRecord, HasKey
  <2>4. CASE ~sunday
    <3>1. pc' = "node" /\ k' = k /\ cur' = cur + 1 /\ cur <= Len(file)
      BY <1>6, <2>4 DEF KnownPerson, NextNode, Goto
    <3>2. WalkOK'
      BY <1>0, <2>e, <1>f, <2>2, <3>1 DEF WalkOK
    <3> QED
      BY <3>1, <3>2 DEF Place, InRecord, HasKey
  <2> QED
    BY <2>3, <2>4
<1>7. CASE NewPerson
  <2>1. WalkOK'
    BY <1>0, <1>7 DEF NewPerson, WalkOK, Goto, budget
  <2>2. IsRecord(cur)'
    BY <1>0, <1>7 DEF NewPerson, IsRecord, Node, WalkOK
  <2> QED
    BY <1>7, <2>1, <2>2, OrgNames DEF NewPerson, Goto, Place, InRecord, HasKey
<1>8. CASE Org
  <2>1. UNCHANGED <<file, cur, personId, insertEmployee, prog, sunday, imports, crashes, allSunday>>
        /\ pc = "org"
    BY <1>8 DEF Org
  <2>2. IsRecord(cur)' /\ k \in 1..4
    BY <2>1, OrgNames DEF Place, InRecord, IsRecord
  <2>3. CASE pc' = "node" /\ UNCHANGED <<refs, k, db, failures>>
    <3>1. WalkOK'
      BY <1>0, <2>1, <2>3 DEF WalkOK
    <3> QED
      BY <2>1, <2>3, <3>1 DEF Place, InRecord, HasKey
  <2>4. CASE /\ \E id \in EntryIds(OrgTables[k], Node.org[OrgTables[k]]) :
                  /\ GetOrCreate(OrgTables[k], Node.org[OrgTables[k]], id)
                  /\ refs' = [refs EXCEPT ![OrgTables[k]] = id]
             /\ IF k < Len(OrgTables) THEN k' = k + 1 /\ UNCHANGED pc
                                      ELSE k' = 1 /\ Goto("employee")
    <3>1. PICK id : /\ GetOrCreate(OrgTables[k], Node.org[OrgTables[k]], id)
                    /\ refs' = [refs EXCEPT ![OrgTables[k]] = id]
      BY <2>4
    <3>2. id \in Nat /\ failures' \in 0..MaxFailures
      BY <1>0, <3>1, LookUp DEF Columns, WalkOK, TablesOK
    <3>3. refs' \in [DOMAIN NoRefs -> Nat]
      BY <1>0, <3>1, <3>2 DEF WalkOK
    <3>4. k' \in 1..4 /\ (pc' = "org" \/ (pc' = "employee" /\ k' = 1))
      <4>1. Len(OrgTables) = 4
        BY OrgNames
      <4> QED
        BY <2>1, <2>2, <2>4, <4>1 DEF Goto
    <3>5. WalkOK'
      BY <1>0, <2>1, <3>2, <3>3, <3>4 DEF WalkOK
    <3> QED
      BY <2>1, <2>2, <3>4, <3>5, OrgNames DEF Place, InRecord, HasKey
  <2> QED
    BY <1>8, <2>3, <2>4 DEF Org, Goto
<1>9. CASE InsertPerson
  <2>1. personId' \in Nat \ {NoRow} /\ failures' \in 0..MaxFailures
    BY <1>0, <1>9, InsertEffect DEF WalkOK
  <2>2. WalkOK'
    BY <1>0, <1>9, <2>1 DEF InsertPerson, WalkOK, Goto
  <2> QED
    BY <1>9, <2>1, <2>2 DEF InsertPerson, Goto, Place, InRecord, IsRecord, HasKey
<1>10. CASE UpdatePerson
  <2>1. WalkOK'
    BY <1>0, <1>10 DEF UpdatePerson, WalkOK, Goto, locals, budget
  <2>2. personId # NoRow
    BY <1>10 DEF UpdatePerson, HasKey
  <2> QED
    BY <1>10, <2>1, <2>2 DEF UpdatePerson, Goto, Place, InRecord, IsRecord, HasKey, locals
<1>11. CASE EndOfRecord
  <2>1. cur \in 1..Len(file)
    BY <1>11 DEF EndOfRecord, Place, InRecord, IsRecord
  <2>2. WalkOK'
    BY <1>0, <1>11, <1>f, <2>1 DEF EndOfRecord, NextNode, WalkOK, Goto, locals, budget
  <2> QED
    BY <1>11, <2>2 DEF EndOfRecord, NextNode, Goto, Place, InRecord, HasKey
<1>12. CASE KeepRow
  <2>1. WalkOK'
    BY <1>0, <1>12 DEF KeepRow, NextItem, WalkOK, Goto, locals, budget
  <2> QED
    BY <1>12, <2>1 DEF KeepRow, NextItem, Goto, Place, InRecord, IsRecord, HasKey, locals
<1>13. CASE Programme
  <2>1. prog' \in Nat /\ failures' \in 0..MaxFailures
    <3>1. CASE Item.table \in DOMAIN Programmes
      <4>1. PICK id : /\ GetOrCreate(Programmes[Item.table], Item.prog, id) /\ prog' = id
        BY <1>13, <3>1 DEF Programme
      <4> QED
        BY <1>0, <4>1, LookUp DEF Columns, WalkOK, TablesOK
    <3>2. CASE Item.table \notin DOMAIN Programmes
      BY <1>0, <1>13, <3>2 DEF Programme, WalkOK
    <3> QED
      BY <3>1, <3>2
  <2>2. WalkOK'
    BY <1>0, <1>13, <2>1 DEF Programme, WalkOK, Goto
  <2>3. pc = "item" /\ IsRecord(cur) /\ k \in 1..Len(Node.items)
    <3>1. IsRecord(cur) /\ cur \in 1..Len(file) /\ k <= Len(Node.items)
      BY <1>13 DEF Programme, Place, InRecord, IsRecord
    <3> QED
      BY <1>0, <1>f, <1>13, <3>1 DEF Programme, Node, WalkOK
  <2> QED
    BY <1>13, <2>2, <2>3 DEF Programme, Goto, Place, InRecord, IsRecord, Node, HasKey
<1>14. CASE NewRow
  <2>1. failures' \in 0..MaxFailures
    BY <1>0, <1>14, NewRowEffect DEF WalkOK
  <2>2. WalkOK'
    BY <1>0, <1>14, <2>1 DEF NewRow, NextItem, WalkOK, Goto, locals
  <2> QED
    BY <1>14, <2>2 DEF NewRow, NextItem, Goto, Place, InRecord, IsRecord, HasKey, locals
<1>15. CASE Crash
  <2>1. WalkOK'
    BY <1>0, <1>15 DEF Crash, WalkOK, Goto, locals
  <2> QED
    BY <1>15, <2>1 DEF Crash, Goto, Place, InRecord, HasKey
<1>16. CASE Midnight
  <2>1. WalkOK'
    BY <1>0, <1>16 DEF Midnight, WalkOK, locals, budget
  <2> QED
    BY <1>16, <2>1 DEF Midnight, Place, InRecord, IsRecord, Node, HasKey, locals
<1>17. CASE UNCHANGED vars
  <2>1. WalkOK'
    BY <1>0, <1>17 DEF vars, WalkOK, locals, budget
  <2> QED
    BY <1>17, <2>1 DEF vars, Place, InRecord, IsRecord, Node, HasKey, locals
<1> QED
  BY <1>1, <1>2, <1>3, <1>4, <1>5, <1>6, <1>7, <1>8, <1>9, <1>10, <1>11, <1>12,
     <1>13, <1>14, <1>15, <1>16, <1>17 DEF Next, Work
(* The statements that change the tables; every other step leaves them.    *)
LEMMA Statements ==
  ASSUME [Next]_vars
  PROVE  \/ UNCHANGED <<dict, employee, child, failures>>
         \/ Sweep \/ KnownPerson \/ Org \/ InsertPerson \/ UpdatePerson
         \/ KeepRow \/ Programme \/ NewRow
BY DEF Next, Work, vars, db, budget, Begin, EndOfFile, SkipElement, SpinOnNode, NewPerson,
   EndOfRecord, Crash, Midnight

(* Dictionaries only grow, by entries with names of their own.  They are   *)
(* written by the look-ups alone.                                          *)
LEMMA DictStep ==
  ASSUME TypeOK, Columns, [Next]_vars
  PROVE  /\ dict \subseteq dict'
         /\ \A d \in dict' \ dict : /\ d.id \in Nat \ {NoRow} /\ d.name # NoName
                                   /\ d = [table |-> d.table, id |-> d.id, name |-> d.name]
                                   /\ Named(d.table, d.name) = {}
         /\ \A d, e \in dict' \ dict : d = e
         /\ Org \/ Programme => UNCHANGED <<employee, child>> /\ Bounded'
         /\ failures' = 0 => failures = 0
<1> USE ImportAssumption
<1>0. /\ failures \in 0..MaxFailures /\ MaxFailures \in Nat
      /\ \A d \in dict : d.id \in Nat \ {NoRow} /\ d.name # NoName
      /\ Bounded /\ prog \in Nat
  BY DEF TypeOK, Columns
<1>1. ASSUME NEW T, NEW n, NEW id, GetOrCreate(T, n, id)
      PROVE  /\ dict \subseteq dict' /\ UNCHANGED <<employee, child>> /\ Bounded'
             /\ \A d \in dict' \ dict : /\ d.id \in Nat \ {NoRow} /\ d.name # NoName
                                       /\ d = [table |-> d.table, id |-> d.id, name |-> d.name]
                                       /\ Named(d.table, d.name) = {}
             /\ \A d, e \in dict' \ dict : d = e
             /\ failures' = 0 => failures = 0
  <2>1. /\ id \in Nat /\ UNCHANGED <<employee, child>> /\ dict \subseteq dict' /\ Bounded'
        /\ \A d \in dict' : d \in dict \/ (/\ n # NoName /\ Named(T, n) = {} /\ id # NoRow
                                           /\ d = [table |-> T, id |-> id, name |-> n])
        /\ failures' = 0 => failures = 0
    BY <1>0, <1>1, LookUp
  <2>2. \A d \in dict' \ dict : /\ d = [table |-> T, id |-> id, name |-> n]
                                /\ d.id = id /\ d.name = n /\ d.table = T
                                /\ n # NoName /\ Named(T, n) = {} /\ id # NoRow
    BY <2>1
  <2> QED
    BY <2>1, <2>2
<1>2. CASE Org
  <2>1. CASE UNCHANGED <<db, failures>>
    BY <1>0, <2>1 DEF db, Bounded
  <2>2. CASE \E id : GetOrCreate(OrgTables[k], Node.org[OrgTables[k]], id)
    BY <1>1, <2>2
  <2> QED
    BY <1>2, <2>1, <2>2 DEF Org
<1>3. CASE Programme
  <2>1. CASE UNCHANGED <<db, failures>>
    BY <1>0, <2>1 DEF db, Bounded
  <2>2. CASE \E id : GetOrCreate(Programmes[Item.table], Item.prog, id)
    BY <1>1, <2>2
  <2> QED
    BY <1>3, <2>1, <2>2 DEF Programme
<1>4. CASE ~Org /\ ~Programme
  <2>1. UNCHANGED dict /\ (failures' = 0 => failures = 0)
    <3>1. CASE InsertPerson
      BY <3>1, <1>0, InsertEffect
    <3>2. CASE NewRow
      BY <3>2, <1>0, NewRowEffect
    <3>3. CASE ~InsertPerson /\ ~NewRow
      BY <3>3, <1>4, Statements DEF Sweep, KnownPerson, UpdatePerson, KeepRow, budget
    <3> QED
      BY <3>1, <3>2, <3>3
  <2> QED
    BY <1>4, <2>1
<1> QED
  BY <1>2, <1>3, <1>4

(* A row of employee keeps its key and its person; the mark is taken from  *)
(* nobody and only the sweep takes a row, an unmarked one.  A new row has  *)
(* a key of its own and is marked.                                         *)
LEMMA EmployeeStep ==
  ASSUME TypeOK, Columns, [Next]_vars
  PROVE  /\ \A e \in employee : \/ Sweep /\ e.fordelete = 0
                                \/ \E f \in employee' : /\ f.id = e.id /\ f.person = e.person
                                                        /\ e.fordelete = 1 => f.fordelete = 1
         /\ \A f \in employee' :
              \/ \E e \in employee : /\ f.id = e.id /\ f.person = e.person
                                     /\ \/ f = e
                                        \/ f = Listed(e, e.refs) \/ f = Listed(e, refs)
              \/ /\ InsertPerson /\ f.person = Node.person /\ f.refs = refs
                 /\ f.id = personId' /\ \A e \in employee : e.id # f.id
                 /\ f = [id |-> f.id, person |-> f.person, refs |-> f.refs, fordelete |-> 1]
                 /\ \A g \in employee' \ employee : g = f
<1> USE ImportAssumption
<1>0. /\ failures \in 0..MaxFailures /\ MaxFailures \in Nat
      /\ \A e \in employee : e.fordelete \in {0, 1}
  BY DEF TypeOK
<1>l. \A e, q : /\ Listed(e, q).id = e.id /\ Listed(e, q).person = e.person
                /\ Listed(e, q).fordelete = 1
  BY DEF Listed
<1>1. CASE UNCHANGED employee
  BY <1>1
<1>2. CASE Sweep
  BY <1>0, <1>2 DEF Sweep
<1>3. CASE KnownPerson
  <2>1. PICK e \in employee :
          /\ e.person = Node.person /\ personId' = e.id
          /\ employee' = (employee \ {e}) \cup {Listed(e, e.refs)}
    BY <1>3, KnownEffect
  <2> QED
    BY <1>l, <2>1
<1>4. CASE UpdatePerson
  <2>1. employee' = {IF e.id = personId THEN Listed(e, refs) ELSE e : e \in employee}
    BY <1>4, UpdateEffect
  <2>2. \A e \in employee : (IF e.id = personId THEN Listed(e, refs) ELSE e) \in employee'
    BY <2>1
  <2>3. \A f \in employee' : \E e \in employee : f = e \/ f = Listed(e, refs)
    BY <2>1
  <2> QED
    BY <1>l, <2>2, <2>3
<1>5. CASE InsertPerson /\ ~UNCHANGED employee
  <2> DEFINE row == [id |-> personId', person |-> Node.person, refs |-> refs, fordelete |-> 1]
  <2>1. /\ \A e \in employee : e.id # personId'
        /\ employee' = employee \cup {row}
    BY <1>5, <1>0, InsertEffect
  <2>2. row.id = personId' /\ row.person = Node.person /\ row.refs = refs /\ row.fordelete = 1
    OBVIOUS
  <2>3. \A f \in employee' \ employee : f = row
    BY <2>1
  <2>4. \A f \in employee' : f \in employee \/ f = row
    BY <2>1
  <2>5. row = [id |-> row.id, person |-> row.person, refs |-> row.refs, fordelete |-> 1]
    OBVIOUS
  <2> HIDE DEF row
  <2> QED
    BY <1>5, <2>1, <2>2, <2>3, <2>4, <2>5
<1>6. CASE Org \/ Programme \/ KeepRow \/ NewRow
  <2>1. UNCHANGED employee
    BY <1>0, <1>6, DictStep, NewRowEffect DEF KeepRow
  <2> QED
    BY <2>1
<1> QED
  BY <1>1, <1>2, <1>3, <1>4, <1>5, <1>6, Statements

(* A dependent row stays, except for the result of an examination, which   *)
(* is only replaced by another one.  A new row belongs to the record's     *)
(* person.                                                                 *)
LEMMA ChildStep ==
  ASSUME TypeOK, Columns, [Next]_vars
  PROVE  /\ \A c \in child : \E d \in child' :
              d = c \/ (/\ KeepRow /\ c.table = "physical" /\ Item.result # NoName
                        /\ d = WithResult(c, Item.result))
         /\ \A d \in child' :
              \/ \E c \in child : d = c \/ (KeepRow /\ d = WithResult(c, Item.result))
              \/ /\ NewRow /\ failures' = failures /\ d.id \in Nat \ {NoRow}
                 /\ d = [table |-> Item.table, id |-> d.id, employee |-> personId,
                         key |-> Item.stored, asked |-> Item.key, ref |-> prog,
                         result |-> Item.result, owner |-> Node.person]
                 /\ Item.table = "siz" => Existing(Item) = {}
                 /\ \A g \in child' \ child : g = d
<1> USE ImportAssumption
<1>0. failures \in 0..MaxFailures /\ MaxFailures \in Nat
  BY DEF TypeOK
<1>1. CASE UNCHANGED child
  BY <1>1
<1>2. CASE KeepRow /\ ~UNCHANGED child
  <2>1. PICK r \in child : /\ r.table = "physical" /\ Item.result # NoName
                           /\ child' = (child \ {r}) \cup {WithResult(r, Item.result)}
    BY <1>2, KeepEffect
  <2> QED
    BY <1>2, <2>1
<1>3. CASE NewRow /\ ~UNCHANGED child
  <2>1. /\ UNCHANGED failures /\ (Item.table = "siz" => Existing(Item) = {})
        /\ \E id \in Nat \ {NoRow} :
             child' = child \cup
               {[table |-> Item.table, id |-> id, employee |-> personId,
                 key |-> Item.stored, asked |-> Item.key, ref |-> prog,
                 result |-> Item.result, owner |-> Node.person]}
    BY <1>3, <1>0, NewRowEffect
  <2>2. PICK id \in Nat \ {NoRow} :
             child' = child \cup
               {[table |-> Item.table, id |-> id, employee |-> personId,
                 key |-> Item.stored, asked |-> Item.key, ref |-> prog,
                 result |-> Item.result, owner |-> Node.person]}
    BY <2>1
  <2> DEFINE row == [table |-> Item.table, id |-> id, employee |-> personId,
                     key |-> Item.stored, asked |-> Item.key, ref |-> prog,
                     result |-> Item.result, owner |-> Node.person]
  <2>3. /\ row.id = id
        /\ row = [table |-> Item.table, id |-> row.id, employee |-> personId,
                  key |-> Item.stored, asked |-> Item.key, ref |-> prog,
                  result |-> Item.result, owner |-> Node.person]
    OBVIOUS
  <2>4. \A d \in child' : d \in child \/ d = row
    BY <2>2
  <2>5. child \subseteq child'
    BY <2>2
  <2>6. \A d \in child' \ child : d = row
    BY <2>4
  <2> HIDE DEF row
  <2> QED
    BY <1>3, <2>1, <2>3, <2>4, <2>5, <2>6
<1>4. CASE ~KeepRow /\ ~NewRow
  <2>1. UNCHANGED child
    BY <1>4, <1>0, DictStep, Statements, InsertEffect DEF Sweep, KnownPerson, UpdatePerson
  <2> QED
    BY <2>1
<1> QED
  BY <1>1, <1>2, <1>3, <1>4
(* The rows keep their types and shapes.                                   *)
LEMMA TablesStep ==
  ASSUME TypeOK, Columns, Place, HasKey, [Next]_vars
  PROVE  TablesOK' /\ Columns'
<1> USE ImportAssumption
<1>0. /\ failures \in 0..MaxFailures /\ MaxFailures \in Nat /\ prog \in Nat
      /\ personId \in Nat /\ refs \in [DOMAIN NoRefs -> Nat] /\ TablesOK
  BY DEF TypeOK, TablesOK
<1>1. \A d \in dict' : d.id \in Nat \ {NoRow} /\ d.name # NoName
  BY <1>0, DictStep DEF TablesOK
<1>2. employee' \subseteq [id : Nat \ {NoRow}, person : Persons,
                          refs : [DOMAIN NoRefs -> Nat], fordelete : {0, 1}]
  <2> SUFFICES ASSUME NEW f \in employee'
               PROVE  f \in [id : Nat \ {NoRow}, person : Persons,
                             refs : [DOMAIN NoRefs -> Nat], fordelete : {0, 1}]
    OBVIOUS
  <2>1. ASSUME NEW e \in employee, f = e \/ f = Listed(e, e.refs) \/ f = Listed(e, refs)
        PROVE  f \in [id : Nat \ {NoRow}, person : Persons,
                      refs : [DOMAIN NoRefs -> Nat], fordelete : {0, 1}]
    BY <1>0, <2>1 DEF Columns, Listed
  <2>2. CASE /\ InsertPerson /\ f.person = Node.person /\ f.refs = refs /\ f.id = personId'
             /\ f = [id |-> f.id, person |-> f.person, refs |-> f.refs, fordelete |-> 1]
    <3>1. personId' \in Nat \ {NoRow}
      BY <1>0, <2>2, InsertEffect
    <3>2. Node.person \in Persons
      <4>1. IsRecord(cur)
        BY <2>2 DEF InsertPerson, Place, InRecord
      <4> QED
        BY <4>1, Uploads DEF IsRecord, Node
    <3>3. f.person \in Persons /\ f.id \in Nat \ {NoRow} /\ f.refs \in [DOMAIN NoRefs -> Nat]
      BY <1>0, <2>2, <3>1, <3>2
    <3> QED
      BY <2>2, <3>3
  <2> QED
    BY <2>1, <2>2, EmployeeStep
<1>3. \A c \in child' : /\ c.id \in Nat \ {NoRow} /\ c.employee \in Nat \ {NoRow} /\ c.ref \in Nat
                        /\ c = WithResult(c, c.result)
  <2> SUFFICES ASSUME NEW d \in child'
               PROVE  /\ d.id \in Nat \ {NoRow} /\ d.employee \in Nat \ {NoRow} /\ d.ref \in Nat
                      /\ d = WithResult(d, d.result)
    OBVIOUS
  <2>1. CASE d \in child
    BY <1>0, <2>1 DEF TablesOK, Columns
  <2>2. ASSUME NEW c \in child, d = WithResult(c, Item.result)
        PROVE  /\ d.id \in Nat \ {NoRow} /\ d.employee \in Nat \ {NoRow} /\ d.ref \in Nat
               /\ d = WithResult(d, d.result)
    BY <1>0, <2>2 DEF TablesOK, WithResult
  <2>3. CASE /\ NewRow /\ d.id \in Nat \ {NoRow}
             /\ d = [table |-> Item.table, id |-> d.id, employee |-> personId,
                     key |-> Item.stored, asked |-> Item.key, ref |-> prog,
                     result |-> Item.result, owner |-> Node.person]
    <3>1. personId # NoRow
      BY <2>3 DEF NewRow, HasKey
    <3>2. d.employee = personId /\ d.ref = prog
      BY <2>3
    <3>3. d = WithResult(d, d.result)
      BY <2>3 DEF WithResult
    <3> QED
      BY <1>0, <2>3, <3>1, <3>2, <3>3
  <2> QED
    BY <2>1, <2>2, <2>3, ChildStep
<1>4. Bounded'
  <2>1. CASE Org \/ Programme
    BY <2>1, DictStep
  <2>2. CASE InsertPerson
    BY <1>0, <2>2, InsertEffect
  <2>3. CASE NewRow
    BY <1>0, <2>3, NewRowEffect
  <2>4. CASE ~Org /\ ~Programme /\ ~InsertPerson /\ ~NewRow
    <3>1. PICK b \in Nat : \A r \in dict \cup employee \cup child : r.id \in 1..b
      BY DEF Columns, Bounded
    <3>2. \A r \in dict' : r \in dict
      BY <2>4, Statements DEF Sweep, KnownPerson, UpdatePerson, KeepRow
    <3>3. \A f \in employee' : \E e \in employee : f.id = e.id
      BY <2>4, EmployeeStep
    <3>4. \A d \in child' : \E c \in child : d.id = c.id
      BY <2>4, ChildStep DEF WithResult
    <3>5. \A r \in dict' \cup employee' \cup child' : r.id \in 1..b
      BY <3>1, <3>2, <3>3, <3>4
    <3> QED
      BY <3>1, <3>5 DEF Bounded
  <2> QED
    BY <2>1, <2>2, <2>3, <2>4
<1>5. TablesOK'
  BY <1>1, <1>2, <1>3 DEF TablesOK
<1> QED
  BY <1>2, <1>3, <1>4, <1>5 DEF Columns

\* The invariant that makes type correctness inductive.
TypeInv == TypeOK /\ Columns /\ Place /\ HasKey

(* The largest key of the first employees is a number.                     *)
LEMMA LastKeyNat == LastKey \in Nat
BY SMT DEF LastKey

(* The invariant holds of the rows that other programs entered.            *)
LEMMA TypeInit == Init => TypeInv
<1> SUFFICES ASSUME Init PROVE TypeInv
  OBVIOUS
<1> USE ImportAssumption DEF NoRow
<1>1. NoRefs \in [DOMAIN NoRefs -> Nat]
  BY DEF NoRefs
<1>2. Len(<<>>) = 0
  OBVIOUS
<1>3. employee \subseteq [id : Nat \ {NoRow}, person : Persons,
                         refs : [DOMAIN NoRefs -> Nat], fordelete : {0, 1}]
  BY <1>1, LastKeyNat DEF Init
<1>4. Bounded
  <2>1. \A e \in dict \cup employee \cup child : e.id \in 1..LastKey
    BY DEF Init
  <2> QED
    BY <2>1, LastKeyNat DEF Bounded
<1>r. \A c \in child : c = WithResult(c, c.result)
  BY DEF Init, WithResult
<1>5. TypeOK
  <2>1. TablesOK
    <3>1. \A d \in dict : d.id \in Nat \ {NoRow} /\ d.name # NoName
      BY LastKeyNat DEF Init
    <3>2. \A c \in child : c.id \in Nat \ {NoRow} /\ c.employee \in Nat \ {NoRow}
      BY LastKeyNat DEF Init
    <3>3. \A c \in child : c.ref \in Nat
      BY LastKeyNat DEF Init, Resolves
    <3> QED
      BY <1>3, <3>1, <3>2, <3>3 DEF TablesOK
  <2>2. WalkOK
    <3>1. insertEmployee \in BOOLEAN /\ {sunday, allSunday} \subseteq BOOLEAN
      BY DEF Init
    <3>2. /\ pc = "idle" /\ file = <<>> /\ cur = 1 /\ k = 1 /\ personId = 0 /\ prog = 0
          /\ refs = NoRefs /\ imports = 0 /\ crashes = 0 /\ failures = 0
      BY DEF Init
    <3> QED
      BY <1>1, <1>2, <3>1, <3>2 DEF WalkOK
  <2> QED
    BY <2>1, <2>2 DEF TypeOK, WalkOK, TablesOK
<1> QED
  BY <1>3, <1>4, <1>r, <1>5 DEF Init, TypeInv, Columns, Place, HasKey, InRecord

(* Type correctness, for any uploads.                                      *)
LEMMA TypeAlways == Spec => []TypeInv
<1>1. TypeInv /\ [Next]_vars => TypeInv'
  <2> SUFFICES ASSUME TypeInv, [Next]_vars PROVE TypeInv'
    OBVIOUS
  <2>1. WalkOK' /\ Place' /\ HasKey' /\ TablesOK' /\ Columns'
    BY WalkStep, TablesStep DEF TypeInv
  <2>2. TypeOK'
    BY <2>1 DEF WalkOK, TablesOK, TypeOK
  <2> QED
    BY <2>1, <2>2 DEF TypeInv
<1> QED
  BY <1>1, TypeInit, PTL DEF Spec

(* The tables and the variables of the walk keep their types, for any      *)
(* uploads and whatever statements fail: a row of a dependent table always *)
(* has the key of an employee, and a dictionary never has an unnamed entry *)
(* (readxml.cpp:515-1187).                                                 *)
THEOREM TypeCorrect == Spec => []TypeOK
BY TypeAlways, PTL DEF TypeInv
-----------------------------------------------------------------------------
(* Who is marked *)

(* Keys and persons stay unique: the INSERT of a person runs only when the *)
(* person was not found, with a key that getPrefix found free.             *)
LEMMA PeopleStep ==
  ASSUME TypeInv, People, [Next]_vars
  PROVE  People'
<1> USE ImportAssumption
<1>0. TypeOK /\ Columns /\ Place /\ MaxFailures \in Nat
  BY DEF TypeInv
<1>1. \A d, e \in employee' : d.id = e.id \/ d.person = e.person => d = e
  <2>1. CASE KnownPerson
    <3>1. PICK e \in employee : employee' = (employee \ {e}) \cup {Listed(e, e.refs)}
      BY <1>0, <2>1, KnownEffect
    <3>2. \A f \in employee' : \/ f \in employee /\ f # e
                               \/ f = Listed(e, e.refs) /\ f.id = e.id /\ f.person = e.person
      BY <3>1 DEF Listed
    <3> QED
      BY <3>2 DEF People
  <2>2. CASE UpdatePerson
    <3>1. employee' = {IF e.id = personId THEN Listed(e, refs) ELSE e : e \in employee}
      BY <1>0, <2>2, UpdateEffect
    <3>2. \A f \in employee' : \E e \in employee :
            /\ f = IF e.id = personId THEN Listed(e, refs) ELSE e
            /\ f.id = e.id /\ f.person = e.person
      BY <3>1 DEF Listed
    <3> QED
      BY <3>2 DEF People
  <2>3. CASE InsertPerson
    <3>1. \A e \in employee : e.id # personId'
      BY <1>0, <2>3, InsertEffect
    <3>2. \A e \in employee : e.person # Node.person
      BY <2>3 DEF InsertPerson, People
    <3>3. CASE UNCHANGED employee
      BY <3>3 DEF People
    <3>4. CASE employee' = employee \cup
                 {[id |-> personId', person |-> Node.person, refs |-> refs, fordelete |-> 1]}
      <4>1. \A f \in employee' : \/ f \in employee
                                 \/ /\ f.id = personId' /\ f.person = Node.person
                                    /\ f = [id |-> personId', person |-> Node.person,
                                            refs |-> refs, fordelete |-> 1]
        BY <3>4
      <4> QED
        BY <3>1, <3>2, <4>1 DEF People
    <3> QED
      BY <1>0, <2>3, <3>3, <3>4, InsertEffect
  <2>4. CASE Sweep
    BY <2>4 DEF Sweep, People
  <2>5. CASE ~KnownPerson /\ ~UpdatePerson /\ ~InsertPerson /\ ~Sweep
    <3>1. UNCHANGED employee
      BY <1>0, <2>5, Statements, DictStep, NewRowEffect DEF KeepRow
    <3> QED
      BY <3>1 DEF People
  <2> QED
    BY <2>1, <2>2, <2>3, <2>4, <2>5
<1>2. pc' \in {"org", "employee"} /\ insertEmployee' => \A e \in employee' : e.person # Node'.person
  <2> SUFFICES ASSUME pc' \in {"org", "employee"}, insertEmployee'
               PROVE  \A e \in employee' : e.person # Node'.person
    OBVIOUS
  <2>1. CASE NewPerson
    BY <2>1 DEF NewPerson, db, Node
  <2>2. CASE Org
    <3>1. UNCHANGED <<employee, file, cur, insertEmployee>> /\ pc = "org"
      BY <1>0, <2>2, DictStep DEF Org
    <3> QED
      BY <3>1 DEF People, Node
  <2>3. CASE Midnight \/ UNCHANGED vars
    BY <2>3 DEF Midnight, vars, db, locals, Node, People
  <2>4. CASE KnownPerson
    BY <2>4 DEF KnownPerson
  <2> QED
    BY <2>1, <2>2, <2>3, <2>4 DEF Next, Work, Begin, EndOfFile, Sweep, SkipElement, SpinOnNode,
       InsertPerson, UpdatePerson, EndOfRecord, KeepRow, Programme, NewRow, Crash,
       Goto, NextNode, NextItem
<1> QED
  BY <1>1, <1>2 DEF People

\* The walk is past node j, or has marked its person.
Past(j) == Walking /\ (j < cur \/ (InRecord /\ j = cur))

(* How the walk gets past a record: over a known person whom it marks, or  *)
(* at a new one.                                                           *)
LEMMA PastStep ==
  ASSUME TypeInv, [Next]_vars, NEW j \in 1..Len(file'), Past(j)', IsRecord(j)'
  PROVE  /\ UNCHANGED file /\ IsRecord(j)
         /\ Past(j) \/ (j = cur /\ (KnownPerson \/ NewPerson))
<1>0. /\ cur \in Nat /\ TypeOK /\ Columns /\ Place
      /\ pc \in {"idle", "node", "org", "employee", "update", "item", "row", "sweep", "hung"}
  BY DEF TypeInv, TypeOK
<1>j. j \in Nat
  OBVIOUS
<1>1. CASE Begin
  BY <1>1, <1>j DEF Begin, Goto, Past, InRecord
<1>2. ~Begin => UNCHANGED file
  BY DEF Next, Work, vars, locals, EndOfFile, Sweep, SkipElement, SpinOnNode, KnownPerson,
     NewPerson, Org, InsertPerson, UpdatePerson, EndOfRecord, KeepRow, Programme, NewRow,
     Crash, Midnight
<1>3. CASE UNCHANGED file
  <2>1. IsRecord(j)
    BY <1>3 DEF IsRecord
  <2>2. CASE SkipElement
    <3>1. pc = "node" /\ cur' = cur + 1 /\ pc' = "node" /\ file[cur].kind # "Element"
      BY <2>2 DEF SkipElement, NextNode, Goto, Node
    <3>2. j # cur
      BY <2>1, <3>1 DEF IsRecord
    <3> QED
      BY <1>0, <1>3, <1>j, <2>1, <3>1, <3>2 DEF Past, InRecord, Walking
  <2>3. CASE EndOfRecord
    <3>1. pc = "item" /\ cur' = cur + 1 /\ pc' = "node"
      BY <2>3 DEF EndOfRecord, NextNode, Goto
    <3> QED
      BY <1>0, <1>3, <1>j, <2>1, <3>1 DEF Past, InRecord, Walking
  <2>4. CASE KnownPerson \/ NewPerson
    <3>1. pc = "node" /\ (cur' = cur \/ (cur' = cur + 1 /\ pc' = "node"))
      <4>1. CASE NewPerson
        BY <4>1 DEF NewPerson
      <4>2. CASE KnownPerson
        BY <4>2 DEF KnownPerson, NextNode, Goto
      <4> QED
        BY <2>4, <4>1, <4>2
    <3> QED
      BY <1>0, <1>3, <1>j, <2>1, <2>4, <3>1 DEF Past, InRecord, Walking
  <2>5. CASE EndOfFile \/ Org \/ InsertPerson \/ UpdatePerson \/ KeepRow \/ Programme \/ NewRow
             \/ Midnight \/ UNCHANGED vars
    <3>1. cur' = cur /\ (InRecord' => InRecord) /\ Walking
      BY <1>0, <2>5 DEF EndOfFile, Org, InsertPerson, UpdatePerson, KeepRow, Programme, NewRow,
         Midnight, vars, locals, Goto, NextItem, InRecord, Walking, Past
    <3> QED
      BY <1>3, <2>1, <3>1 DEF Past
  <2>6. CASE Begin \/ Sweep \/ SpinOnNode \/ Crash
    <3>1. ~Past(j)'
      BY <1>1, <2>6, <1>j DEF Begin, Sweep, SpinOnNode, Crash, Goto, Past, Walking, InRecord
    <3> QED
      BY <3>1
  <2> QED
    BY <2>2, <2>3, <2>4, <2>5, <2>6 DEF Next, Work
<1> QED
  BY <1>1, <1>2, <1>3

(* Whoever is listed in the part of the file behind the walk is marked, if *)
(* there (readxml.cpp:244-249, 665).                                       *)
LEMMA MarkedStep ==
  ASSUME TypeInv, People, Marked, [Next]_vars
  PROVE  Marked'
<1>0. TypeOK /\ Columns
  BY DEF TypeInv
<1> SUFFICES ASSUME NEW j \in 1..Len(file'), Past(j)', IsRecord(j)',
                    NEW f \in employee', f.person = file'[j].person
             PROVE  f.fordelete = 1
  BY DEF Marked, Past
<1>1. UNCHANGED file /\ IsRecord(j) /\ (Past(j) \/ (j = cur /\ (KnownPerson \/ NewPerson)))
  BY PastStep
<1>2. CASE Past(j)
  <2>1. \A e \in employee : e.person = file[j].person => e.fordelete = 1
    BY <1>1, <1>2 DEF Marked, Past, IsRecord
  <2>2. \/ \E e \in employee : f.person = e.person /\ (f = e \/ f.fordelete = 1)
        \/ f.fordelete = 1
    BY <1>0, EmployeeStep DEF Listed
  <2> QED
    BY <1>1, <2>1, <2>2
<1>3. CASE j = cur /\ KnownPerson
  <2>1. PICK e \in employee : /\ e.person = Node.person
                              /\ employee' = (employee \ {e}) \cup {Listed(e, e.refs)}
    BY <1>0, <1>3, KnownEffect
  <2>2. f.person = e.person
    BY <1>1, <1>3, <2>1 DEF Node
  <2>3. f = Listed(e, e.refs)
    BY <2>1, <2>2 DEF People
  <2> QED
    BY <2>3 DEF Listed
<1>4. CASE j = cur /\ NewPerson
  <2>1. f \in employee /\ f.person # Node.person
    BY <1>4 DEF NewPerson, db
  <2> QED
    BY <1>1, <1>4, <2>1 DEF Node
<1> QED
  BY <1>1, <1>2, <1>3, <1>4

(* Both, always.                                                           *)
LEMMA MarkedAlways == Spec => [](TypeInv /\ People /\ Marked)
<1>1. Init => People /\ Marked
  BY ImportAssumption DEF Init, People, Marked, Walking, InRecord
<1>2. TypeInv /\ People /\ Marked /\ [Next]_vars => (People /\ Marked)'
  BY PeopleStep, MarkedStep
<1> QED
  BY <1>1, <1>2, TypeAlways, PTL DEF Spec

(* The sweep deletes nobody who is listed in the upload just imported, for *)
(* any uploads, crashes and failed statements: when it runs, the walk is   *)
(* past the whole file, and everybody in it was marked on the way          *)
(* (readxml.cpp:244-249, 154-158).                                         *)
THEOREM ListedAreSpared == Spec => ListedSurvive
<1>1. TypeInv /\ People /\ Marked /\ [Next]_vars =>
        (Sweep => \A e \in employee :
           (\E j \in 1..Len(file) : file[j].kind = "Element" /\ file[j].person = e.person)
           => e \in employee')
  <2> SUFFICES ASSUME TypeInv, Marked, Sweep, NEW e \in employee, NEW j \in 1..Len(file),
                      file[j].kind = "Element", file[j].person = e.person
               PROVE  e \in employee'
    OBVIOUS
  <2>1. pc = "sweep" /\ cur > Len(file) /\ cur \in Nat /\ Len(file) \in Nat
    BY Uploads DEF TypeInv, TypeOK, Place, Sweep
  <2>2. Walking /\ IsRecord(j) /\ j < cur
    BY <2>1 DEF Walking, IsRecord
  <2>3. e.fordelete = 1
    BY <2>2 DEF Marked
  <2> QED
    BY <2>3 DEF Sweep
<1> QED
  BY <1>1, MarkedAlways, PTL DEF Spec, ListedSurvive
-----------------------------------------------------------------------------
(* No second copies *)

(* Which rows keep item i from being inserted, table by table.             *)
ExistingRows ==
  \A i, r : r \in Existing(i) <=>
    /\ r \in child /\ r.table = i.table /\ r.employee = personId
    /\ i.table = "siz" => r.ref = prog
    /\ i.table \notin {"overal", "siz"} => r.key = i.key

(* That is what Existing says.                                             *)
LEMMA ExistingMembers == ExistingRows
<1> SUFFICES ASSUME NEW i, NEW r
             PROVE  r \in Existing(i) <=>
                      /\ r \in child /\ r.table = i.table /\ r.employee = personId
                      /\ i.table = "siz" => r.ref = prog
                      /\ i.table \notin {"overal", "siz"} => r.key = i.key
  BY DEF ExistingRows
<1> DEFINE Same == CASE i.table = "overal" -> TRUE
                     [] i.table = "siz"    -> r.ref = prog
                     [] OTHER              -> r.key = i.key
<1>1. r \in Existing(i) <=> r \in child /\ r.table = i.table /\ r.employee = personId /\ Same
  BY DEF Existing, Rows
<1>o. "overal" # "siz"
  OBVIOUS
<1>2. CASE i.table = "overal"
  <2>1. Same
    BY <1>2, <1>o, Zenon
  <2> HIDE DEF Same
  <2> QED
    BY <1>1, <1>2, <2>1
<1>3. CASE i.table = "siz"
  <2>1. Same <=> r.ref = prog
    BY <1>3, <1>o, Zenon
  <2> HIDE DEF Same
  <2> QED
    BY <1>1, <1>3, <2>1
<1>4. CASE i.table \notin {"overal", "siz"}
  <2>1. i.table # "overal" /\ i.table # "siz"
    BY <1>4
  <2>2. Same <=> r.key = i.key
    BY <2>1, Zenon
  <2> HIDE DEF Same
  <2> QED
    BY <1>1, <1>4, <2>2
<1> QED
  BY <1>2, <1>3, <1>4

\* Rows c and d are two of a kind.
Twins(c, d) ==
  /\ c.table = d.table /\ c.employee = d.employee
  /\ c.table = "siz" => c.ref = d.ref
  /\ c.table \notin {"overal", "siz"} => c.key = d.key /\ c.asked = c.key /\ d.asked = d.key

\* NoTwins without the rows of employee, which are in People.
NoCopies ==
  /\ \A d, e \in dict : d.table = e.table /\ d.name = e.name => d = e
  /\ \A c, d \in child : Twins(c, d) => c = d

(* Twins says what Alike says.                                             *)
LEMMA TwinsAreAlike ==
  ASSUME NEW c, NEW d
  PROVE  Twins(c, d) <=> Alike(c, d)
<1>o. "overal" # "siz"
  OBVIOUS
<1> DEFINE Same == CASE c.table = "overal" -> TRUE
                     [] c.table = "siz"    -> c.ref = d.ref
                     [] OTHER              -> c.key = d.key /\ c.asked = c.key /\ d.asked = d.key
<1>1. Alike(c, d) <=> c.table = d.table /\ c.employee = d.employee /\ Same
  BY DEF Alike
<1>2. CASE c.table = "overal"
  <2>1. Same
    BY <1>2, <1>o, Zenon
  <2> HIDE DEF Same
  <2> QED
    BY <1>1, <1>2, <2>1 DEF Twins
<1>3. CASE c.table = "siz"
  <2>1. Same <=> c.ref = d.ref
    BY <1>3, <1>o, Zenon
  <2> HIDE DEF Same
  <2> QED
    BY <1>1, <1>3, <2>1 DEF Twins
<1>4. CASE c.table # "overal" /\ c.table # "siz"
  <2>1. Same <=> c.key = d.key /\ c.asked = c.key /\ d.asked = d.key
    BY <1>4, Zenon
  <2> HIDE DEF Same
  <2> QED
    BY <1>1, <1>4, <2>1 DEF Twins
<1> QED
  BY <1>2, <1>3, <1>4

(* What has to be shown for NoTwins.                                       *)
LEMMA CopiesAndPeople == People /\ NoCopies => NoTwins
BY TwinsAreAlike DEF People, NoCopies, NoTwins

(* Nothing comes between the look-up of a dependent row and its INSERT     *)
(* that could enter the row.                                               *)
LEMMA SingleStep ==
  ASSUME TypeInv, Single, [Next]_vars
  PROVE  Single'
<1>0. TypeOK /\ Columns
  BY DEF TypeInv
<1> SUFFICES ASSUME pc' = "row", Item'.table # "siz" PROVE Existing(Item)' = {}
  BY DEF Single
<1>1. CASE Programme
  <2>1. UNCHANGED <<file, cur, k, personId, child>>
    BY <1>0, <1>1, DictStep DEF Programme
  <2>2. Item' = Item /\ Existing(Item) = {}
    BY <1>1, <2>1 DEF Programme, Item, Node
  <2>3. \A r : r \in Existing(Item)' <=> r \in Existing(Item)
    <3> TAKE r
    <3>1. ExistingRows /\ ExistingRows'
      BY ExistingMembers, PTL
    <3>2. r \in Existing(Item)' <=>
            /\ r \in child' /\ r.table = Item'.table /\ r.employee = personId'
            /\ Item'.table = "siz" => r.ref = prog'
            /\ Item'.table \notin {"overal", "siz"} => r.key = Item'.key
      BY <3>1 DEF ExistingRows
    <3> QED
      BY <2>1, <2>2, <3>1, <3>2 DEF ExistingRows
  <2> QED
    BY <2>2, <2>3
<1>2. CASE Midnight \/ UNCHANGED vars
  <2>1. UNCHANGED <<pc, file, cur, k, personId, prog, child>>
    BY <1>2 DEF Midnight, vars, locals, db
  <2> QED
    BY <2>1 DEF Single, Existing, Rows, Item, Node
<1>3. CASE ~Programme /\ ~Midnight /\ ~UNCHANGED vars
  BY <1>3 DEF Next, Work, Begin, EndOfFile, Sweep, SkipElement, SpinOnNode, KnownPerson,
     NewPerson, Org, InsertPerson, UpdatePerson, EndOfRecord, KeepRow, NewRow, Crash, Goto,
     NextNode, NextItem
<1> QED
  BY <1>1, <1>2, <1>3
(* An entry or a dependent row is inserted only when none like it was      *)
(* found.                                                                  *)
LEMMA CopiesStep ==
  ASSUME TypeInv, Single, NoCopies, [Next]_vars
  PROVE  NoCopies'
<1>0. TypeOK /\ Columns /\ Place
  BY DEF TypeInv
<1>1. \A d, e \in dict' : d.table = e.table /\ d.name = e.name => d = e
  <2>1. \A d \in dict' \ dict : \A e \in dict : ~(d.table = e.table /\ d.name = e.name)
    BY <1>0, DictStep DEF Named, Entries
  <2>2. \A d, e \in dict' \ dict : d = e
    BY <1>0, DictStep
  <2> QED
    BY <2>1, <2>2 DEF NoCopies
<1>2. CASE ~NewRow
  <2>1. CASE UNCHANGED child
    BY <1>1, <2>1 DEF NoCopies, Twins
  <2>2. ASSUME NEW r \in child, child' = (child \ {r}) \cup {WithResult(r, Item.result)}
        PROVE  NoCopies'
    <3>1. \A d \in child' : \/ d \in child /\ d # r
                            \/ /\ d = WithResult(r, Item.result)
                               /\ d.table = r.table /\ d.employee = r.employee /\ d.ref = r.ref
                               /\ d.key = r.key /\ d.asked = r.asked
      BY <2>2 DEF WithResult
    <3>2. ASSUME NEW c \in child', NEW d \in child', Twins(c, d)
          PROVE  c = d
      BY <3>1, <3>2 DEF NoCopies, Twins
    <3> QED
      BY <1>1, <3>2 DEF NoCopies, Twins
  <2>3. KeepRow \/ UNCHANGED child
    BY <1>0, <1>2, Statements, DictStep, InsertEffect, ImportAssumption
       DEF Sweep, KnownPerson, UpdatePerson
  <2> QED
    BY <1>0, <2>1, <2>2, <2>3, KeepEffect
<1>3. CASE NewRow
  <2>1. Existing(Item) = {} \/ UNCHANGED child
    <3>1. Item.table # "siz" => Existing(Item) = {}
      BY <1>3 DEF Single, NewRow
    <3>2. (Item.table = "siz" => Existing(Item) = {}) \/ UNCHANGED child
      BY <1>0, <1>3, NewRowEffect, ImportAssumption
    <3> QED
      BY <3>1, <3>2
  <2>2. CASE UNCHANGED child
    BY <1>1, <2>2 DEF NoCopies, Twins
  <2>3. CASE Existing(Item) = {}
    <3>1. ~KeepRow
      BY <1>3 DEF NewRow, KeepRow
    <3>2. \A d \in child' : d \in child \/
            /\ d.table = Item.table /\ d.employee = personId /\ d.key = Item.stored
            /\ d.asked = Item.key /\ d.ref = prog /\ \A g \in child' \ child : g = d
      <4> TAKE d \in child'
      <4>1. CASE d = [table |-> Item.table, id |-> d.id, employee |-> personId,
                      key |-> Item.stored, asked |-> Item.key, ref |-> prog,
                      result |-> Item.result, owner |-> Node.person]
                 /\ \A g \in child' \ child : g = d
        BY <4>1
      <4> QED
        BY <1>0, <3>1, <4>1, ChildStep
    <3>3. ASSUME NEW c \in child, NEW d \in child', d \notin child, Twins(c, d) \/ Twins(d, c)
          PROVE  FALSE
      <4>1. c \in Existing(Item)
        BY <3>2, <3>3, ExistingMembers DEF ExistingRows, Twins
      <4> QED
        BY <2>3, <4>1
    <3>4. ASSUME NEW c \in child', NEW d \in child', Twins(c, d)
          PROVE  c = d
      BY <3>2, <3>3, <3>4 DEF NoCopies
    <3> QED
      BY <1>1, <3>4 DEF NoCopies, Twins
  <2> QED
    BY <2>1, <2>2, <2>3
<1> QED
  BY <1>2, <1>3

(* Importing the same upload again makes no second copy of a person, of an *)
(* entry or of a dependent row that is looked up by what it stores, for    *)
(* any uploads, crashes and failed statements: what is about to be         *)
(* inserted was looked for and is not there (readxml.cpp:224-231,          *)
(* 515-1187).                                                              *)
THEOREM NoSecondCopies == Spec => []NoTwins
<1>1. Init => Single /\ NoCopies
  BY TwinsAreAlike, ImportAssumption DEF Init, Single, NoCopies
<1>2. TypeInv /\ Single /\ NoCopies /\ [Next]_vars => (Single /\ NoCopies)'
  BY SingleStep, CopiesStep
<1> QED
  BY <1>1, <1>2, CopiesAndPeople, MarkedAlways, PTL DEF Spec
(* The result of a medical examination is not erased by a later upload     *)
(* whose record has none: rows of dependent tables are never deleted, and  *)
(* the one UPDATE runs only with a result (readxml.cpp:827).               *)
THEOREM ResultsAreKept == Spec => ResultKept
<1>1. TypeInv /\ [Next]_vars =>
        \A r \in Rows("physical") : r.result # NoName =>
          \E s \in child' : s.table = "physical" /\ s.id = r.id /\ s.result # NoName
  <2> SUFFICES ASSUME TypeInv, [Next]_vars, NEW r \in Rows("physical"), r.result # NoName
               PROVE  \E s \in child' : s.table = "physical" /\ s.id = r.id /\ s.result # NoName
    OBVIOUS
  <2>1. r \in child /\ r.table = "physical"
    BY DEF Rows
  <2>2. \E d \in child' : d = r \/ (Item.result # NoName /\ d = WithResult(r, Item.result))
    BY <2>1, ChildStep DEF TypeInv
  <2> QED
    BY <2>1, <2>2 DEF WithResult
<1> QED
  BY <1>1, TypeAlways, PTL DEF Spec, ResultKept

-----------------------------------------------------------------------------
(* Whose rows they are *)

(* Whoever is marked keeps the key and the mark.                           *)
LEMMA SparedKept ==
  ASSUME TypeInv, [Next]_vars, NEW id, NEW p, Spared(id, p)
  PROVE  \E f \in employee' : f.id = id /\ f.person = p /\ f.fordelete = 1
<1>1. PICK e \in employee : e.id = id /\ e.person = p /\ e.fordelete = 1
  BY DEF Spared
<1>2. TypeOK /\ Columns
  BY DEF TypeInv
<1> QED
  BY <1>1, <1>2, EmployeeStep

(* The record's person is marked from the first statement for the record   *)
(* on, under the key that the dependent rows get, and stays so; then no    *)
(* sweep takes the owner of a row, and getPrefix does not give the owner's *)
(* key to somebody else.                                                   *)
LEMMA OwnedStep ==
  ASSUME TypeInv, Owned, [Next]_vars
  PROVE  Owned'
<1>0. TypeOK /\ Columns /\ Place
  BY DEF TypeInv
<1> SUFFICES ASSUME failures' = 0 PROVE Owned'
  BY DEF Owned
<1>f. failures = 0
  BY <1>0, DictStep
<1>1. ASSUME pc' \in {"org", "employee"}, ~insertEmployee'
      PROVE  \E f \in employee' : f.id = personId' /\ f.person = Node'.person /\ f.fordelete = 1
  <2>1. CASE KnownPerson
    <3>1. PICK e \in employee : /\ e.person = Node.person /\ personId' = e.id
                                /\ employee' = (employee \ {e}) \cup {Listed(e, e.refs)}
      BY <1>0, <2>1, KnownEffect
    <3>2. Node' = Node
      BY <1>1, <2>1 DEF KnownPerson, NextNode, Goto, Node
    <3>3. /\ Listed(e, e.refs) \in employee' /\ Listed(e, e.refs).id = e.id
          /\ Listed(e, e.refs).person = e.person /\ Listed(e, e.refs).fordelete = 1
      BY <3>1 DEF Listed
    <3> QED
      BY <3>1, <3>2, <3>3
  <2>2. CASE Org \/ Midnight \/ UNCHANGED vars
    <3>1. UNCHANGED <<file, cur, personId, insertEmployee>> /\ pc \in {"org", "employee"}
      BY <1>1, <2>2 DEF Org, Midnight, vars, locals
    <3>2. Spared(personId, Node.person)
      BY <1>1, <1>f, <3>1 DEF Owned
    <3> QED
      BY <3>1, <3>2, SparedKept DEF Node
  <2>3. CASE NewPerson
    BY <1>1, <2>3 DEF NewPerson
  <2> QED
    BY <1>1, <2>1, <2>2, <2>3 DEF Next, Work, Begin, EndOfFile, Sweep, SkipElement, SpinOnNode,
       InsertPerson, UpdatePerson, EndOfRecord, KeepRow, Programme, NewRow, Crash,
       Goto, NextNode, NextItem
<1>2. ASSUME pc' \in {"update", "item", "row"}
      PROVE  \E f \in employee' : f.id = personId' /\ f.person = Node'.person /\ f.fordelete = 1
  <2>1. CASE InsertPerson
    <3> DEFINE f == [id |-> personId', person |-> Node.person, refs |-> refs, fordelete |-> 1]
    <3>1. f \in employee'
      BY <1>0, <2>1, InsertEffect, ImportAssumption
    <3>2. Node' = Node
      BY <2>1 DEF InsertPerson, Node
    <3>3. f.id = personId' /\ f.person = Node.person /\ f.fordelete = 1
      OBVIOUS
    <3> HIDE DEF f
    <3> QED
      BY <3>1, <3>2, <3>3
  <2>2. CASE UpdatePerson \/ KeepRow \/ Programme \/ NewRow \/ Midnight \/ UNCHANGED vars
    <3>1. /\ UNCHANGED <<file, cur, personId>>
          /\ pc \in {"update", "item", "row"} \/ (pc = "employee" /\ ~insertEmployee)
      BY <1>2, <2>2 DEF UpdatePerson, KeepRow, Programme, NewRow, Midnight, vars, locals
    <3>2. Spared(personId, Node.person)
      BY <1>f, <3>1 DEF Owned
    <3> QED
      BY <3>1, <3>2, SparedKept DEF Node
  <2> QED
    BY <1>2, <2>1, <2>2 DEF Next, Work, Begin, EndOfFile, Sweep, SkipElement, SpinOnNode,
       KnownPerson, NewPerson, Org, EndOfRecord, Crash, Goto, NextNode
<1>3. ASSUME NEW d \in child'
      PROVE  \/ \E f \in employee' : f.id = d.employee /\ f.person = d.owner /\ f.fordelete = 1
             \/ Unlisted(d)
  <2>1. ASSUME NEW c \in child, d = c \/ d = WithResult(c, Item.result)
        PROVE  \/ \E f \in employee' : f.id = d.employee /\ f.person = d.owner /\ f.fordelete = 1
               \/ Unlisted(d)
    <3>1. /\ d.table = c.table /\ d.id = c.id
          /\ d.employee = c.employee /\ d.owner = c.owner
      BY <2>1 DEF WithResult
    <3>2. CASE Spared(c.employee, c.owner)
      BY <3>1, <3>2, SparedKept
    <3>3. CASE Unlisted(c)
      BY <3>1, <3>3 DEF Unlisted
    <3> QED
      BY <1>f, <3>2, <3>3 DEF Owned
  <2>2. CASE /\ NewRow
             /\ d = [table |-> Item.table, id |-> d.id, employee |-> personId,
                     key |-> Item.stored, asked |-> Item.key, ref |-> prog,
                     result |-> Item.result, owner |-> Node.person]
    <3>1. d.employee = personId /\ d.owner = Node.person
      BY <2>2
    <3>2. Spared(personId, Node.person)
      BY <1>f, <2>2 DEF Owned, NewRow
    <3> QED
      BY <3>1, <3>2, SparedKept
  <2> QED
    BY <1>0, <2>1, <2>2, ChildStep
<1>4. \A d : Unlisted(d) => Unlisted(d)'
  BY DEF Unlisted
<1> QED
  BY <1>1, <1>2, <1>3, <1>4 DEF Owned, Spared

(* Owners are marked, always.                                              *)
LEMMA OwnedAlways == Spec => [](TypeInv /\ People /\ Owned)
<1>1. Init => Owned
  <2> SUFFICES ASSUME Init, NEW c \in child
               PROVE  Spared(c.employee, c.owner) \/ Unlisted(c)
    BY DEF Init, Owned
  <2>1. PICK e \in InitEmployees : e.id = c.employee /\ e.person = c.owner
    BY ImportAssumption DEF Init
  <2>2. e.fordelete \in {0, 1} /\ e \in employee /\ c \in InitChildren
    BY ImportAssumption DEF Init
  <2> QED
    BY <2>1, <2>2 DEF Spared, Unlisted
<1>2. TypeInv /\ Owned /\ [Next]_vars => Owned'
  BY OwnedStep
<1> QED
  BY <1>1, <1>2, MarkedAlways, PTL DEF Spec

(* Until an INSERT fails the only rows that anybody inherits are those     *)
(* another program entered for an employee it did not mark, for any        *)
(* uploads, any rows to start from and wherever the service dies:          *)
(* getPrefix does give the key of a deleted employee to somebody else      *)
(* (numprefix.cpp:33-41), but who owns any other row is marked, and is     *)
(* never deleted (readxml.cpp:244-250, 154-158).                           *)
THEOREM OwnersStay == Spec => []Owners
<1>1. People /\ Owned => Owners
  BY DEF People, Owned, Spared, Owners
<1> QED
  BY <1>1, OwnedAlways, PTL
-----------------------------------------------------------------------------
(* No dangling keys *)

(* An entry stays, whatever the step.                                      *)
LEMMA EntriesStay ==
  ASSUME TypeInv, [Next]_vars
  PROVE  /\ \A T, id : IsEntry(T, id) => id = NoRow \/ \E d \in dict' : d.table = T /\ d.id = id
         /\ \A T, id : IsProgramme(T, id) =>
              id = NoRow \/ (T \in DOMAIN Programmes /\
                             \E d \in dict' : d.table = Programmes[T] /\ d.id = id)
<1>1. dict \subseteq dict'
  BY DictStep DEF TypeInv
<1>2. \A T, id : IsEntry(T, id) => id = NoRow \/ \E d \in dict : d.table = T /\ d.id = id
  BY DEF IsEntry, IdsOf, Entries
<1> QED
  BY <1>1, <1>2 DEF IsProgramme

(* Unless its INSERT failed, the entry that a look-up yields is there.     *)
LEMMA Found ==
  ASSUME TypeInv, NEW T, NEW n, NEW id, GetOrCreate(T, n, id), failures' = 0
  PROVE  /\ id = NoRow \/ \E d \in dict' : d.table = T /\ d.id = id
         /\ n # NoName => \E d \in dict' : d.table = T /\ d.name = n /\ d.id = id
<1>1. /\ failures \in 0..MaxFailures /\ MaxFailures \in Nat /\ Bounded
      /\ \A d \in dict : d.id \in Nat \ {NoRow} /\ d.name # NoName
  BY ImportAssumption DEF TypeInv, TypeOK, Columns
<1>2. /\ n = NoName => id = NoRow
      /\ n # NoName => \E d \in dict' : d.table = T /\ d.name = n /\ d.id = id
  BY <1>1, LookUp
<1> QED
  BY <1>2

(* A row is written after the rows it refers to.                           *)
LEMMA LinkedStep ==
  ASSUME TypeInv, Linked, [Next]_vars
  PROVE  Linked'
<1> DEFINE InDict(T, id) == id = NoRow \/ \E d \in dict' : d.table = T /\ d.id = id
           InProg(T, id) == id = NoRow \/ (T \in DOMAIN Programmes /\
                              \E d \in dict' : d.table = Programmes[T] /\ d.id = id)
<1>0. TypeOK /\ Columns /\ Place
  BY DEF TypeInv
<1> SUFFICES ASSUME failures' = 0 PROVE Linked'
  BY DEF Linked
<1>f. failures = 0
  BY <1>0, DictStep
<1>s. /\ \A T, id : IsEntry(T, id) => InDict(T, id)
      /\ \A T, id : IsProgramme(T, id) => InProg(T, id)
  BY EntriesStay
<1>1. \A T \in DOMAIN NoRefs : InDict(T, refs'[T])
  <2>1. CASE UNCHANGED refs
    BY <1>f, <1>s, <2>1 DEF Linked
  <2>2. ASSUME Org, NEW id, GetOrCreate(OrgTables[k], Node.org[OrgTables[k]], id),
               refs' = [refs EXCEPT ![OrgTables[k]] = id]
        PROVE  \A T \in DOMAIN NoRefs : InDict(T, refs'[T])
    <3>1. InDict(OrgTables[k], id)
      BY <2>2, Found
    <3>2. \A T \in DOMAIN NoRefs : InDict(T, refs[T])
      BY <1>f, <1>s DEF Linked
    <3>3. refs \in [DOMAIN NoRefs -> Nat]
      BY <1>0 DEF TypeOK
    <3>4. \A T \in DOMAIN NoRefs : refs'[T] = IF T = OrgTables[k] THEN id ELSE refs[T]
      BY <2>2, <3>3
    <3> HIDE DEF InDict
    <3> QED
      BY <3>1, <3>2, <3>4
  <2>3. UNCHANGED refs \/ (Org /\ \E id : GetOrCreate(OrgTables[k], Node.org[OrgTables[k]], id)
                                          /\ refs' = [refs EXCEPT ![OrgTables[k]] = id])
    <3>1. CASE Org
      BY <3>1 DEF Org
    <3>2. CASE ~Org
      BY <3>2 DEF Next, Work, vars, locals, Begin, EndOfFile, Sweep, SkipElement, SpinOnNode,
         KnownPerson, NewPerson, InsertPerson, UpdatePerson, EndOfRecord, KeepRow, Programme,
         NewRow, Crash, Midnight
    <3> QED
      BY <3>1, <3>2
  <2> QED
    BY <2>1, <2>2, <2>3
<1>2. ASSUME NEW f \in employee', NEW T \in DOMAIN NoRefs
      PROVE  InDict(T, f.refs[T])
  <2>1. f.refs = refs \/ \E e \in employee : f.refs = e.refs
    BY <1>0, EmployeeStep DEF Listed
  <2>2. InDict(T, refs[T]) /\ \A e \in employee : InDict(T, e.refs[T])
    BY <1>f, <1>s DEF Linked
  <2> HIDE DEF InDict
  <2> QED
    BY <2>1, <2>2
<1>3. pc' = "row" => InProg(Item'.table, prog')
  <2> SUFFICES ASSUME pc' = "row" PROVE InProg(Item'.table, prog')
    OBVIOUS
  <2>1. CASE Programme
    <3>1. Item' = Item
      BY <2>1 DEF Programme, Item, Node
    <3>2. CASE Item.table \in DOMAIN Programmes
      <4>1. GetOrCreate(Programmes[Item.table], Item.prog, prog')
        BY <2>1, <3>2 DEF Programme
      <4>2. InDict(Programmes[Item.table], prog')
        BY <4>1, Found
      <4> QED
        BY <3>1, <3>2, <4>2
    <3>3. CASE Item.table \notin DOMAIN Programmes
      BY <2>1, <3>3 DEF Programme
    <3> QED
      BY <3>2, <3>3
  <2>2. CASE Midnight \/ UNCHANGED vars
    <3>1. pc = "row" /\ prog' = prog /\ Item' = Item
      BY <2>2 DEF Midnight, vars, locals, Item, Node
    <3> HIDE DEF InProg
    <3> QED
      BY <1>f, <1>s, <3>1 DEF Linked
  <2> QED
    BY <2>1, <2>2 DEF Next, Work, Begin, EndOfFile, Sweep, SkipElement, SpinOnNode, KnownPerson,
       NewPerson, Org, InsertPerson, UpdatePerson, EndOfRecord, KeepRow, NewRow, Crash, Goto,
       NextNode, NextItem
<1>4. ASSUME NEW d \in child'
      PROVE  InProg(d.table, d.ref)
  <2>1. \/ d.table = Item.table /\ d.ref = prog /\ pc = "row"
        \/ \E c \in child : d.table = c.table /\ d.ref = c.ref
    <3>1. CASE /\ NewRow
               /\ d = [table |-> Item.table, id |-> d.id, employee |-> personId,
                       key |-> Item.stored, asked |-> Item.key, ref |-> prog,
                       result |-> Item.result, owner |-> Node.person]
      BY <3>1 DEF NewRow
    <3>2. CASE \E c \in child : d = c \/ d = WithResult(c, Item.result)
      BY <3>2 DEF WithResult
    <3> QED
      BY <1>0, <3>1, <3>2, ChildStep
  <2>2. /\ pc = "row" => InProg(Item.table, prog)
        /\ \A c \in child : InProg(c.table, c.ref)
    BY <1>f, <1>s DEF Linked
  <2> HIDE DEF InProg
  <2> QED
    BY <2>1, <2>2
<1> QED
  BY <1>1, <1>2, <1>3, <1>4 DEF Linked, IsEntry, IsProgramme, IdsOf, Entries

(* Until an INSERT fails no key dangles but that of a row which another    *)
(* program entered for an employee it did not mark, for any uploads, any   *)
(* rows to start from and wherever the service dies: a row is inserted     *)
(* after the rows it refers to, and the sweep takes no employee who is     *)
(* marked (readxml.cpp:515-1187, 154-158).                                 *)
THEOREM NothingDangles == Spec => []References
<1>1. Init => Linked
  <2>1. \A T \in DOMAIN NoRefs : IsEntry(T, NoRefs[T])
    BY DEF NoRefs, IsEntry
  <2>2. ASSUME Init, NEW T, NEW id, Resolves(T, id)
        PROVE  IsEntry(T, id)
    BY <2>2 DEF Init, Resolves, IsEntry, IdsOf, Entries
  <2>3. ASSUME Init, NEW e \in employee, NEW T \in DOMAIN NoRefs
        PROVE  IsEntry(T, e.refs[T])
    BY <2>2, <2>3, ImportAssumption DEF Init
  <2>4. ASSUME Init, NEW c \in child
        PROVE  IsProgramme(c.table, c.ref)
    BY <2>2, <2>4, ImportAssumption DEF Init, IsProgramme
  <2> QED
    BY <2>1, <2>3, <2>4 DEF Init, Linked
<1>2. TypeInv /\ Linked /\ [Next]_vars => Linked'
  BY LinkedStep
<1>3. Owned /\ Linked => References
  BY DEF Owned, Linked, IsProgramme, IsEntry, Spared, References, IdsOf
<1> QED
  BY <1>1, <1>2, <1>3, OwnedAlways, PTL DEF Spec
-----------------------------------------------------------------------------
(* A Sunday's import *)

(* What the record asks for stays in the tables once it is there.          *)
LEMMA HasKept ==
  ASSUME TypeInv, [Next]_vars, NEW id, NEW i, Has(child, dict, id, i)
  PROVE  Has(child', dict', id, i)
<1> SUFFICES ASSUME i.live PROVE Has(child', dict', id, i)
  BY DEF Has
<1>1. PICK r \in child :
        /\ r.table = i.table /\ r.employee = id
        /\ i.table = "siz" => \E d \in dict : d.table = "siznaim" /\ d.name = i.prog /\ d.id = r.ref
        /\ i.table \notin {"overal", "siz"} => r.key \in {i.key, i.stored}
  BY DEF Has
<1>2. PICK s \in child' : s = r \/ s = WithResult(r, Item.result)
  BY ChildStep DEF TypeInv
<1>3. s.table = r.table /\ s.employee = r.employee /\ s.ref = r.ref /\ s.key = r.key
  BY <1>2 DEF WithResult
<1>4. dict \subseteq dict'
  BY DictStep DEF TypeInv
<1> QED
  BY <1>1, <1>3, <1>4 DEF Has

(* An item's row is there when the walk goes on to the next item: it was   *)
(* found, or has just been inserted.                                       *)
LEMMA ItemDone ==
  ASSUME TypeInv, Repaired, [Next]_vars, KeepRow \/ NewRow, failures' = 0
  PROVE  Has(child', dict', personId, Item)
<1>0. TypeOK /\ Columns
  BY DEF TypeInv
<1>1. ASSUME NEW r \in Existing(Item), pc = "row" \/ Item.table # "siz"
      PROVE  Has(child', dict', personId, Item)
  <2>1. /\ r \in child /\ r.table = Item.table /\ r.employee = personId
        /\ Item.table = "siz" => r.ref = prog
        /\ Item.table \notin {"overal", "siz"} => r.key = Item.key
    BY ExistingMembers DEF ExistingRows
  <2>2. failures = 0
    BY <1>0, DictStep
  <2>3. Has(child, dict, personId, Item)
    BY <1>1, <2>1, <2>2 DEF Has, Repaired
  <2> QED
    BY <2>3, HasKept
<1>2. CASE KeepRow
  <2>1. Item.table # "siz" /\ \E r \in Existing(Item) : TRUE
    BY <1>2 DEF KeepRow
  <2> QED
    BY <1>1, <2>1
<1>3. CASE NewRow
  <2>1. pc = "row"
    BY <1>3 DEF NewRow
  <2>2. CASE Existing(Item) # {}
    BY <1>1, <2>1, <2>2
  <2>3. CASE ~Item.live
    BY <2>3 DEF Has
  <2>4. CASE \E id \in Nat \ {NoRow} :
               child' = child \cup
                 {[table |-> Item.table, id |-> id, employee |-> personId,
                   key |-> Item.stored, asked |-> Item.key, ref |-> prog,
                   result |-> Item.result, owner |-> Node.person]}
    <3>1. PICK r \in child' : /\ r.table = Item.table /\ r.employee = personId
                              /\ r.ref = prog /\ r.key = Item.stored
      <4>1. PICK id \in Nat \ {NoRow} :
               child' = child \cup
                 {[table |-> Item.table, id |-> id, employee |-> personId,
                   key |-> Item.stored, asked |-> Item.key, ref |-> prog,
                   result |-> Item.result, owner |-> Node.person]}
        BY <2>4
      <4> DEFINE row == [table |-> Item.table, id |-> id, employee |-> personId,
                         key |-> Item.stored, asked |-> Item.key, ref |-> prog,
                         result |-> Item.result, owner |-> Node.person]
      <4>2. row \in child'
        BY <4>1
      <4>3. row.table = Item.table /\ row.employee = personId /\ row.ref = prog
            /\ row.key = Item.stored
        OBVIOUS
      <4> HIDE DEF row
      <4> QED
        BY <4>2, <4>3
    <3>2. failures = 0 /\ dict \subseteq dict'
      BY <1>0, DictStep
    <3>3. Item.table = "siz" => \E d \in dict : d.table = "siznaim" /\ d.name = Item.prog /\ d.id = prog
      BY <2>1, <3>2 DEF Repaired
    <3> QED
      BY <3>1, <3>2, <3>3 DEF Has
  <2> QED
    BY <1>0, <1>3, <2>2, <2>3, <2>4, NewRowEffect, ImportAssumption
<1> QED
  BY <1>2, <1>3

(* The garment of the row about to be entered is in its dictionary.        *)
LEMMA GarmentStep ==
  ASSUME TypeInv, Repaired, [Next]_vars, failures' = 0, pc' = "row", Item'.table = "siz"
  PROVE  \E d \in dict' : d.table = "siznaim" /\ d.name = Item'.prog /\ d.id = prog'
<1>1. CASE Programme
  <2>1. Item' = Item
    BY <1>1 DEF Programme, Item, Node
  <2>2. GetOrCreate("siznaim", Item.prog, prog')
    BY <1>1, <2>1 DEF Programme, Programmes
  <2>3. Item.prog # NoName
    <3>1. IsRecord(cur) /\ cur \in 1..Len(file) /\ k <= Len(Node.items) /\ k \in Nat \ {0}
      BY <1>1 DEF Programme, TypeInv, TypeOK, Place, InRecord, IsRecord
    <3>2. Len(file[cur].items) \in Nat
      BY <3>1, Uploads DEF TypeInv
    <3>3. k \in 1..Len(file[cur].items)
      BY <3>1, <3>2 DEF Node
    <3> QED
      BY <2>1, <3>1, <3>3, Uploads DEF TypeInv, Item, Node
  <2> QED
    BY <2>1, <2>2, <2>3, Found
<1>2. CASE Midnight \/ UNCHANGED vars
  <2>1. UNCHANGED <<pc, prog, dict, failures>> /\ Item' = Item
    BY <1>2 DEF Midnight, vars, locals, db, budget, Item, Node
  <2> QED
    BY <2>1 DEF Repaired
<1> QED
  BY <1>1, <1>2 DEF Next, Work, Begin, EndOfFile, Sweep, SkipElement, SpinOnNode, KnownPerson,
     NewPerson, Org, InsertPerson, UpdatePerson, EndOfRecord, KeepRow, NewRow, Crash, Goto,
     NextNode, NextItem

(* It is Sunday as long as allSunday says so.                              *)
LEMMA SundayStep ==
  ASSUME Repaired, [Next]_vars
  PROVE  (allSunday' => sunday') /\ (allSunday' /\ ~Begin => allSunday)
<1>1. CASE Begin
  BY <1>1 DEF Begin, Repaired
<1>2. CASE Midnight
  BY <1>2 DEF Midnight
<1>3. CASE ~Begin /\ ~Midnight
  <2>1. UNCHANGED <<sunday, allSunday>>
    BY <1>3 DEF Next, Work, vars, EndOfFile, Sweep, SkipElement, SpinOnNode, KnownPerson,
       NewPerson, Org, InsertPerson, UpdatePerson, EndOfRecord, KeepRow, Programme, NewRow, Crash
  <2> QED
    BY <2>1 DEF Repaired
<1> QED
  BY <1>1, <1>2, <1>3

(* The items behind the walk, of the record it is in.                      *)
LEMMA ItemsStep ==
  ASSUME TypeInv, Repaired, [Next]_vars, failures' = 0, allSunday', pc' \in {"item", "row"},
         NEW n \in 1..Len(Node'.items), n < k'
  PROVE  Has(child', dict', personId', Node'.items[n])
<1>0. TypeOK /\ Columns /\ failures = 0 /\ k \in Nat /\ n \in Nat
  BY DictStep DEF TypeInv, TypeOK
<1>s. ~Begin => allSunday
  BY SundayStep
<1>1. CASE UpdatePerson
  <2>1. k' = 1
    BY <1>1 DEF UpdatePerson, TypeInv, Place
  <2> QED
    BY <1>0, <2>1
<1>2. CASE Programme \/ Midnight \/ UNCHANGED vars
  <2>1. Node' = Node /\ k' = k /\ personId' = personId /\ pc \in {"item", "row"} /\ allSunday
    BY <1>2, <1>s DEF Programme, Midnight, vars, locals, Node, Begin
  <2>2. Has(child, dict, personId, Node.items[n])
    BY <1>0, <2>1 DEF Repaired
  <2> QED
    BY <2>1, <2>2, HasKept
<1>3. CASE KeepRow \/ NewRow
  <2>1. /\ Node' = Node /\ k' = k + 1 /\ personId' = personId /\ pc \in {"item", "row"}
        /\ allSunday
    BY <1>3, <1>s DEF KeepRow, NewRow, NextItem, locals, Node, Begin
  <2>2. CASE n = k
    BY <1>3, <2>1, <2>2, ItemDone DEF Item
  <2>3. CASE n < k
    <3>1. Has(child, dict, personId, Node.items[n])
      BY <1>0, <2>1, <2>3 DEF Repaired
    <3> QED
      BY <2>1, <3>1, HasKept
  <2> QED
    BY <1>0, <2>1, <2>2, <2>3
<1> QED
  BY <1>1, <1>2, <1>3 DEF Next, Work, Begin, EndOfFile, Sweep, SkipElement, SpinOnNode,
     KnownPerson, NewPerson, Org, InsertPerson, EndOfRecord, Crash, Goto, NextNode

(* The records behind the walk.                                            *)
LEMMA RecordsStep ==
  ASSUME TypeInv, Owned, Repaired, [Next]_vars, failures' = 0, allSunday', Walking',
         NEW j \in 1..Len(file'), IsRecord(j)', j < cur'
  PROVE  \E f \in employee' :
           /\ f.person = file'[j].person
           /\ \A n \in 1..Len(file'[j].items) : Has(child', dict', f.id, file'[j].items[n])
<1>0. TypeOK /\ Columns /\ Place /\ failures = 0 /\ cur \in Nat /\ j \in Nat
  BY DictStep DEF TypeInv, TypeOK
<1>1. UNCHANGED file /\ IsRecord(j) /\ (Past(j) \/ (j = cur /\ (KnownPerson \/ NewPerson)))
  <2>1. Past(j)'
    BY DEF Past
  <2> QED
    BY <2>1, PastStep
<1>2. ~Begin /\ ~Sweep
  <2>1. ~Begin
    <3>1. ~(j < 1)
      BY <1>0
    <3> QED
      BY <3>1 DEF Begin
  <2>2. ~Sweep
    BY DEF Sweep, Goto, Walking, InRecord
  <2> QED
    BY <2>1, <2>2
<1>3. allSunday /\ sunday
  BY <1>2, SundayStep DEF Repaired
<1>4. ASSUME NEW e \in employee, e.person = file[j].person,
             \A n \in 1..Len(file[j].items) : Has(child, dict, e.id, file[j].items[n])
      PROVE  \E f \in employee' :
               /\ f.person = file'[j].person
               /\ \A n \in 1..Len(file'[j].items) : Has(child', dict', f.id, file'[j].items[n])
  <2>1. PICK f \in employee' : f.id = e.id /\ f.person = e.person
    BY <1>0, <1>2, EmployeeStep
  <2>2. \A n \in 1..Len(file[j].items) : Has(child', dict', e.id, file[j].items[n])
    BY <1>4, HasKept
  <2> QED
    BY <1>1, <1>4, <2>1, <2>2
<1>5. CASE Walking /\ j < cur
  BY <1>0, <1>1, <1>3, <1>4, <1>5 DEF Repaired, IsRecord
<1>6. CASE ~(Walking /\ j < cur)
  <2>1. j = cur
    BY <1>1, <1>6 DEF Past
  <2>2. cur' # cur
    BY <1>0, <2>1
  <2>3. EndOfRecord
    BY <1>0, <1>1, <1>2, <1>3, <2>1, <2>2 DEF Next, Work, vars, locals, EndOfFile, SkipElement,
       SpinOnNode, KnownPerson, NewPerson, Org, InsertPerson, UpdatePerson, KeepRow, Programme,
       NewRow, Crash, Midnight, IsRecord, Node
  <2>4. pc = "item" /\ k > Len(Node.items) /\ k \in Nat
    BY <1>0, <2>3 DEF EndOfRecord, TypeOK
  <2>5. PICK e \in employee : e.id = personId /\ e.person = Node.person
    BY <1>0, <2>4 DEF Owned, Spared
  <2>6. Len(file[j].items) \in Nat
    BY <1>0, <1>1, Uploads DEF IsRecord
  <2>7. \A n \in 1..Len(file[j].items) : Has(child, dict, e.id, file[j].items[n])
    BY <1>0, <1>3, <2>1, <2>4, <2>5, <2>6 DEF Repaired, Node
  <2> QED
    BY <1>4, <2>1, <2>5, <2>7 DEF Node
<1> QED
  BY <1>5, <1>6

(* The walk leaves nothing of what is behind it undone, on a Sunday.       *)
LEMMA RepairedStep ==
  ASSUME TypeInv, Owned, Repaired, [Next]_vars
  PROVE  Repaired'
<1>1. allSunday' => sunday'
  BY SundayStep
<1>2. failures' = 0 /\ pc' = "row" /\ Item'.table = "siz"
      => \E d \in dict' : d.table = "siznaim" /\ d.name = Item'.prog /\ d.id = prog'
  BY GarmentStep
<1>3. failures' = 0 /\ allSunday' /\ Walking' =>
       \A j \in 1..Len(file') : IsRecord(j)' /\ j < cur' =>
         \E e \in employee' :
           /\ e.person = file'[j].person
           /\ \A n \in 1..Len(file'[j].items) : Has(child', dict', e.id, file'[j].items[n])
  BY RecordsStep
<1>4. failures' = 0 /\ allSunday' /\ pc' \in {"item", "row"} =>
       \A n \in 1..Len(Node'.items) : n < k' => Has(child', dict', personId', Node'.items[n])
  BY ItemsStep
<1> QED
  BY <1>1, <1>2, <1>3, <1>4 DEF Repaired

(* A row that counts for the invariant counts for SundayComplete.          *)
LEMMA HasFulfils ==
  ASSUME NEW id, NEW i, Has(child, dict, id, i), i.live
  PROVE  \E r \in Rows(i.table) : r.employee = id /\ Fulfils(r, i)
<1>1. PICK r \in child :
        /\ r.table = i.table /\ r.employee = id
        /\ i.table = "siz" => \E d \in dict : d.table = "siznaim" /\ d.name = i.prog /\ d.id = r.ref
        /\ i.table \notin {"overal", "siz"} => r.key \in {i.key, i.stored}
  BY DEF Has
<1>o. "overal" # "siz"
  OBVIOUS
<1>2. i.table = "overal" => Fulfils(r, i)
  BY <1>o, Zenon DEF Fulfils
<1>3. i.table = "siz" /\ (\E d \in Named("siznaim", i.prog) : d.id = r.ref) => Fulfils(r, i)
  BY <1>o, Zenon DEF Fulfils
<1>4. i.table # "overal" /\ i.table # "siz" /\ r.key \in {i.key, i.stored} => Fulfils(r, i)
  BY Zenon DEF Fulfils
<1>5. Fulfils(r, i)
  BY <1>1, <1>2, <1>3, <1>4 DEF Named, Entries
<1> QED
  BY <1>1, <1>5 DEF Rows

(* A Sunday's import repairs what earlier crashes left out, for any        *)
(* uploads, as long as no INSERT fails: at its end every person of the     *)
(* file is in the database with every row of the record (readxml.cpp:259,  *)
(* 690-1187).                                                              *)
THEOREM SundayRepairs == Spec => []SundayComplete
<1>1. Init => Repaired
  BY DEF Init, Repaired, Walking, InRecord
<1>2. TypeInv /\ Owned /\ Repaired /\ [Next]_vars => Repaired'
  BY RepairedStep
<1>3. TypeInv /\ Repaired => SundayComplete
  <2> SUFFICES ASSUME TypeInv, Repaired, pc = "sweep", allSunday, failures = 0,
                      NEW j \in 1..Len(file), file[j].kind = "Element"
               PROVE  \E e \in employee :
                        /\ e.person = file[j].person
                        /\ \A n \in 1..Len(file[j].items) :
                             LET i == file[j].items[n] IN
                               i.live => \E r \in Rows(i.table) : r.employee = e.id /\ Fulfils(r, i)
    BY DEF SundayComplete
  <2>1. Walking /\ IsRecord(j) /\ j < cur
    <3>1. cur > Len(file) /\ cur \in Nat /\ Len(file) \in Nat
      BY Uploads DEF TypeInv, TypeOK, Place
    <3> QED
      BY <3>1 DEF Walking, IsRecord
  <2>2. PICK e \in employee :
          /\ e.person = file[j].person
          /\ \A n \in 1..Len(file[j].items) : Has(child, dict, e.id, file[j].items[n])
    BY <2>1 DEF Repaired
  <2> QED
    BY <2>2, HasFulfils
<1> QED
  BY <1>1, <1>2, <1>3, OwnedAlways, PTL DEF Spec
=============================================================================
