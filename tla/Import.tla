------------------------------- MODULE Import -------------------------------
(***************************************************************************)
(* Importing a full upload: updateBaseXML and traverseAllInformation       *)
(* (readxml.cpp), statement by statement.  Every INSERT, UPDATE and DELETE *)
(* commits by itself, so a crash can come between any two of them, and an  *)
(* INSERT that fails is logged and otherwise ignored.                      *)
(*                                                                         *)
(* A file is the sequence of the nodes of its XML tree in the order of the *)
(* traversal.  A record is a node named "Element"; it carries a person,    *)
(* the names of four dictionary entries and a list of items, one for each  *)
(* row that a dependent table may need.  A row's identity is abstracted to *)
(* one key; texts that no statement compares are left out.                 *)
(***************************************************************************)
EXTENDS Integers, Sequences, FiniteSets, RowId

CONSTANTS
  Persons,        (* employees: a name and a date of birth                   *)
  Files,          (* the contents of the uploads                             *)
  InitEmployees,  (* the rows of table employee, of the dependent tables     *)
  InitChildren,   (* and of the dictionaries that other programs entered     *)
  InitDict,       (* before the first import                                 *)
  MaxImports,     (* bound: imports begun                                    *)
  MaxCrashes,     (* bound: how often the service dies                       *)
  MaxFailures     (* bound: INSERT statements that fail                      *)

NoName == "no name"     (* an empty attribute                                *)
NoRow  == 0             (* the id that stands for no row                     *)

\* Dictionaries, in the order the record's names are looked up.
OrgTables == <<"obosobl", "subdivision", "post", "grafikrabot">>

\* The dictionary a row of a dependent table refers to.
Programmes == [industrialsecurity |-> "pbprogramma", laborprotection |-> "otprogramma",
               ptm |-> "ptmprogramma", siz |-> "siznaim"]

VARIABLES
  pc, file, cur,       (* the walk: step, nodes, index of the node           *)
  k,                   (* index into OrgTables or into the record's items    *)
  personId, insertEmployee, refs, prog,   (* locals of the loop body         *)
  dict, employee, child,                  (* the tables                      *)
  sunday,              (* QDate::currentDate().dayOfWeek() == 7              *)
  imports, crashes, failures,
  allSunday            (* history: it was Sunday all through this import     *)

db     == <<dict, employee, child>>
locals == <<file, personId, insertEmployee, refs, prog>>
budget == <<imports, crashes, failures>>
vars   == <<pc, locals, cur, k, db, sunday, budget, allSunday>>

-----------------------------------------------------------------------------
(* Tables *)

IdsOf(rows) == {r.id : r \in rows}

Entries(T)  == {r \in dict : r.table = T}
Rows(T)     == {r \in child : r.table = T}

Named(T, n) == {r \in Entries(T) : r.name = n}

\* An INSERT that may fail.
Inserting(done) == \/ done /\ UNCHANGED failures
                   \/ /\ failures < MaxFailures /\ failures' = failures + 1
                      /\ UNCHANGED db

InsertEntry(T, n, id) ==
  Inserting(/\ dict' = dict \cup {[table |-> T, id |-> id, name |-> n]}
            /\ UNCHANGED <<employee, child>>)

\* The id by which a row refers to entry n of dictionary T.
EntryIds(T, n) == CASE n = NoName        -> {NoRow}
                    [] Named(T, n) # {}  -> IdsOf(Named(T, n))
                    [] OTHER             -> {getPrefix(IdsOf(Entries(T)))}

\* Take that id: the one of the entry that is there, or the key of the row just
\* inserted, without asking whether the INSERT succeeded.
GetOrCreate(T, n, id) ==
  /\ id \in EntryIds(T, n)
  /\ IF n # NoName /\ Named(T, n) = {} THEN InsertEntry(T, n, id)
                                       ELSE UNCHANGED <<db, failures>>

-----------------------------------------------------------------------------
(* updateBaseXML *)

Node == file[cur]
Item == Node.items[k]

Goto(l) == pc' = l

\* Mutation: the statement of readxml.cpp:123 is valid and marks every employee.
BeginMarksAll ==
  /\ pc = "idle" /\ imports < MaxImports /\ imports' = imports + 1
  /\ \E f \in Files : file' = f
  /\ cur' = 1 /\ Goto("node") /\ allSunday' = sunday
  /\ employee' = {[e EXCEPT !.fordelete = 0] : e \in employee}
  /\ UNCHANGED <<k, personId, insertEmployee, refs, prog, dict, child, sunday, crashes, failures>>

\* The statement meant to set fordelete = 0 first (readxml.cpp:123) is not
\* valid SQL, so its loop marks nobody.  A file that does not parse has no
\* nodes.
Begin ==
  /\ pc = "idle" /\ imports < MaxImports /\ imports' = imports + 1
  /\ \E f \in Files : file' = f
  /\ cur' = 1 /\ Goto("node") /\ allSunday' = sunday
  /\ UNCHANGED <<k, personId, insertEmployee, refs, prog, db, sunday, crashes, failures>>

EndOfFile ==
  /\ pc = "node" /\ cur > Len(file) /\ Goto("sweep")
  /\ UNCHANGED <<locals, cur, k, db, sunday, budget, allSunday>>

\* DELETE FROM employee WHERE fordelete = 0, and nothing else.
Sweep ==
  /\ pc = "sweep" /\ Goto("idle")
  /\ employee' = {e \in employee : e.fordelete # 0}
  /\ UNCHANGED <<locals, cur, k, dict, child, sunday, budget, allSunday>>

-----------------------------------------------------------------------------
(* traverseAllInformation: one node *)

NextNode == cur' = cur + 1 /\ Goto("node")

SkipElement ==
  /\ pc = "node" /\ cur <= Len(file) /\ Node.kind = "element"
  /\ NextNode
  /\ UNCHANGED <<locals, k, db, sunday, budget, allSunday>>

\* A comment or a text: nextSibling() is inside if(isElement()), so the loop
\* looks at this node forever.
SpinOnNode ==
  /\ pc = "node" /\ cur <= Len(file) /\ Node.kind = "other"
  /\ Goto("hung")
  /\ UNCHANGED <<locals, cur, k, db, sunday, budget, allSunday>>

\* Mutation: a known person's record is never read again.
KnownPersonSkipped ==
  /\ pc = "node" /\ cur <= Len(file) /\ Node.kind = "Element"
  /\ \E e \in employee :
       /\ e.person = Node.person
       /\ employee' = (employee \ {e}) \cup {[e EXCEPT !.fordelete = 1]}
       /\ personId' = e.id
  /\ insertEmployee' = FALSE /\ NextNode
  /\ UNCHANGED <<file, k, refs, prog, dict, child, sunday, budget, allSunday>>

\* Mutation: a known person is not marked as listed.
KnownPersonUnmarked ==
  /\ pc = "node" /\ cur <= Len(file) /\ Node.kind = "Element"
  /\ \E e \in employee : e.person = Node.person /\ personId' = e.id
  /\ insertEmployee' = FALSE
  /\ IF sunday THEN Goto("org") /\ k' = 1 /\ UNCHANGED cur
               ELSE NextNode /\ UNCHANGED k
  /\ UNCHANGED <<file, refs, prog, db, sunday, budget, allSunday>>

\* The record's person is known: the row is marked as listed; the rest of the
\* record is read on Sundays only.
KnownPerson ==
  /\ pc = "node" /\ cur <= Len(file) /\ Node.kind = "Element"
  /\ \E e \in employee :
       /\ e.person = Node.person
       /\ employee' = (employee \ {e}) \cup {[e EXCEPT !.fordelete = 1]}
       /\ personId' = e.id
  /\ insertEmployee' = FALSE
  /\ IF sunday THEN Goto("org") /\ k' = 1 /\ UNCHANGED cur
               ELSE NextNode /\ UNCHANGED k
  /\ UNCHANGED <<file, refs, prog, dict, child, sunday, budget, allSunday>>

NewPerson ==
  /\ pc = "node" /\ cur <= Len(file) /\ Node.kind = "Element"
  /\ \A e \in employee : e.person # Node.person
  /\ insertEmployee' = TRUE /\ Goto("org") /\ k' = 1
  /\ UNCHANGED <<file, cur, personId, refs, prog, db, sunday, budget, allSunday>>

\* obosobl, subdivision, post and grafikrabot in turn.  Without a subdivision
\* or a post, continue goes back to the same node.
Org ==
  /\ pc = "org"
  /\ LET T == OrgTables[k]  n == Node.org[T] IN
       IF n = NoName /\ T \in {"subdivision", "post"}
         THEN Goto("node") /\ UNCHANGED <<refs, k, db, failures>>
         ELSE /\ \E id \in EntryIds(T, n) :
                   GetOrCreate(T, n, id) /\ refs' = [refs EXCEPT ![T] = id]
              /\ IF k < Len(OrgTables) THEN k' = k + 1 /\ UNCHANGED pc
                                       ELSE k' = 1 /\ Goto("employee")
  /\ UNCHANGED <<file, cur, personId, insertEmployee, prog, sunday, imports, crashes, allSunday>>

InsertPerson ==
  /\ pc = "employee" /\ insertEmployee
  /\ LET id == getPrefix(IdsOf(employee)) IN
       /\ personId' = id
       /\ Inserting(/\ employee' = employee \cup {[id |-> id, person |-> Node.person,
                                                   refs |-> refs, fordelete |-> 1]}
                    /\ UNCHANGED <<dict, child>>)
  /\ Goto("update")
  /\ UNCHANGED <<file, cur, k, insertEmployee, refs, prog, sunday, imports, crashes, allSunday>>

\* UPDATE employee ... WHERE employeeid = personId
UpdatePerson ==
  /\ \/ pc = "update"
     \/ pc = "employee" /\ ~insertEmployee
  /\ employee' = {IF e.id = personId THEN [e EXCEPT !.refs = refs, !.fordelete = 1]
                                     ELSE e : e \in employee}
  /\ Goto("item")
  /\ UNCHANGED <<locals, cur, k, dict, child, sunday, budget, allSunday>>

-----------------------------------------------------------------------------
(* traverseAllInformation: the dependent rows of a record *)

\* Mutation: the programme is compared before it was looked up.
ExistingWithProgramme(i) ==
  {r \in Rows(i.table) : r.employee = personId /\ r.key = i.key /\ r.ref = prog}

\* The rows that keep an item from being inserted again.
Existing(i) ==
  {r \in Rows(i.table) :
     /\ r.employee = personId
     /\ CASE i.table = "overal" -> TRUE            \* one per employee
          [] i.table = "siz"    -> r.ref = prog    \* one per kind of garment
          [] OTHER              -> r.key = i.key}

\* ptm is looked up by ptmPTMDate but stored with ptmData: "stored" is the key
\* the row gets.
InsertRow(i) ==
  LET row == [table |-> i.table, id |-> getPrefix(IdsOf(Rows(i.table))),
              employee |-> personId, key |-> i.stored, asked |-> i.key, ref |-> prog,
              result |-> i.result, owner |-> Node.person]
  IN  Inserting(child' = child \cup {row} /\ UNCHANGED <<dict, employee>>)

NextItem == k' = k + 1 /\ Goto("item")

\* Mutation: the step to the next sibling is missing.
EndOfRecordStays ==
  /\ pc = "item" /\ k > Len(Node.items) /\ Goto("node")
  /\ UNCHANGED <<locals, cur, k, db, sunday, budget, allSunday>>

EndOfRecord ==
  /\ pc = "item" /\ k > Len(Node.items) /\ NextNode
  /\ UNCHANGED <<locals, k, db, sunday, budget, allSunday>>

\* Mutation: an empty result overwrites the one in the table.
KeepRowOverwrites ==
  /\ pc = "item" /\ k <= Len(Node.items) /\ Item.table # "siz"
  /\ \E r \in Existing(Item) :
       IF Item.table = "physical"
         THEN child' = (child \ {r}) \cup {[r EXCEPT !.result = Item.result]}
         ELSE UNCHANGED child
  /\ NextItem
  /\ UNCHANGED <<locals, cur, dict, employee, sunday, budget, allSunday>>

\* The row is there.  Only table physical is brought up to date, and only when
\* the record has a result of the examination.
KeepRow ==
  /\ pc = "item" /\ k <= Len(Node.items) /\ Item.table # "siz"
  /\ \E r \in Existing(Item) :
       IF Item.table = "physical" /\ Item.result # NoName
         THEN child' = (child \ {r}) \cup {[r EXCEPT !.result = Item.result]}
         ELSE UNCHANGED child
  /\ NextItem
  /\ UNCHANGED <<locals, cur, dict, employee, sunday, budget, allSunday>>

\* Mutation: the key of a new programme is taken but its row is not inserted.
ProgrammeKeyOnly ==
  /\ pc = "item" /\ k <= Len(Node.items)
  /\ Item.table = "siz" \/ Existing(Item) = {}
  /\ prog' = IF Item.table \in DOMAIN Programmes
               THEN getPrefix(IdsOf(Entries(Programmes[Item.table]))) ELSE NoRow
  /\ Goto("row")
  /\ UNCHANGED <<file, cur, k, personId, insertEmployee, refs, db, sunday, budget, allSunday>>

\* The training programme or the garment the row will refer to.  For siz this
\* comes before the row itself is looked for.
Programme ==
  /\ pc = "item" /\ k <= Len(Node.items)
  /\ Item.table = "siz" \/ Existing(Item) = {}
  /\ IF Item.table \in DOMAIN Programmes
       THEN \E id \in EntryIds(Programmes[Item.table], Item.prog) :
              GetOrCreate(Programmes[Item.table], Item.prog, id) /\ prog' = id
       ELSE prog' = NoRow /\ UNCHANGED <<db, failures>>
  /\ Goto("row")
  /\ UNCHANGED <<file, cur, k, personId, insertEmployee, refs, sunday, imports, crashes, allSunday>>

\* A garment is entered only while it has not worn out (live).
NewRow ==
  /\ pc = "row"
  /\ IF Item.table = "siz" /\ (Existing(Item) # {} \/ ~Item.live)
       THEN UNCHANGED <<db, failures>>
       ELSE InsertRow(Item)
  /\ NextItem
  /\ UNCHANGED <<locals, cur, sunday, imports, crashes, allSunday>>

-----------------------------------------------------------------------------

Crash ==
  /\ pc # "idle" /\ Goto("idle")
  /\ crashes < MaxCrashes /\ crashes' = crashes + 1
  /\ UNCHANGED <<locals, cur, k, db, sunday, imports, failures, allSunday>>

Midnight ==
  /\ sunday' = ~sunday /\ allSunday' = FALSE
  /\ UNCHANGED <<pc, locals, cur, k, db, budget>>

Work == \/ EndOfFile \/ Sweep
        \/ SkipElement \/ SpinOnNode \/ KnownPerson \/ NewPerson
        \/ Org \/ InsertPerson \/ UpdatePerson
        \/ EndOfRecord \/ KeepRow \/ Programme \/ NewRow

NoRefs == [T \in {OrgTables[j] : j \in 1..Len(OrgTables)} |-> NoRow]

LastKey == 999999999    (* the largest number of nine digits *)

\* The keys of the rows of one table are different.
KeysDiffer(rows) == \A d, e \in rows : d.table = e.table /\ d.id = e.id => d = e

\* An id that an initial row uses for an entry of dictionary T.
Resolves(T, id) == id = NoRow \/ \E d \in InitDict : d.table = T /\ d.id = id

\* Two rows of a dependent table that a record's item would find alike; rows of
\* ptm whose stored date is not the one they are looked up by are found by none.
Alike(c, d) ==
  /\ c.table = d.table /\ c.employee = d.employee
  /\ CASE c.table = "overal" -> TRUE
       [] c.table = "siz"    -> c.ref = d.ref
       [] OTHER              -> c.key = d.key /\ c.asked = c.key /\ d.asked = d.key

\* A record names its person; a garment without a name is not an item
\* (readxml.cpp:1095).  The database that the imports start with is sound: keys
\* identify rows, names and people are there once, and what a row refers to is
\* there.  Its employees may have dependent rows whether or not they are marked.
ASSUME ImportAssumption ==
  /\ \A f \in Files :
       /\ Len(f) \in Nat
       /\ \A j \in 1..Len(f) : f[j].kind = "Element" =>
            /\ f[j].person \in Persons /\ Len(f[j].items) \in Nat
            /\ \A n \in 1..Len(f[j].items) :
                 f[j].items[n].table = "siz" => f[j].items[n].prog # NoName
  /\ InitEmployees \subseteq [id : 1..LastKey, person : Persons,
                              refs : [DOMAIN NoRefs -> Nat], fordelete : {0, 1}]
  /\ \A d, e \in InitEmployees : d.id = e.id \/ d.person = e.person => d = e
  /\ \A e \in InitEmployees, T \in DOMAIN NoRefs : Resolves(T, e.refs[T])
  /\ \A d \in InitDict : d.id \in 1..LastKey /\ d.name # NoName
  /\ \A d, e \in InitDict : d.table = e.table /\ d.name = e.name => d = e
  /\ \A c \in InitChildren :
       /\ c = [table |-> c.table, id |-> c.id, employee |-> c.employee, key |-> c.key,
               asked |-> c.asked, ref |-> c.ref, result |-> c.result, owner |-> c.owner]
       /\ c.id \in 1..LastKey
       /\ \E e \in InitEmployees : e.id = c.employee /\ e.person = c.owner
       /\ \/ c.ref = NoRow
          \/ c.table \in DOMAIN Programmes /\ Resolves(Programmes[c.table], c.ref)
  /\ \A c, d \in InitChildren : Alike(c, d) => c = d
  /\ KeysDiffer(InitDict) /\ KeysDiffer(InitChildren)
  /\ {MaxImports, MaxCrashes, MaxFailures} \subseteq Nat

\* The service has just started: whatever other programs entered is there.
Init ==
  /\ pc = "idle" /\ file = <<>> /\ cur = 1 /\ k = 1
  /\ personId = NoRow /\ insertEmployee = FALSE /\ refs = NoRefs /\ prog = NoRow
  /\ dict = InitDict /\ employee = InitEmployees /\ child = InitChildren
  /\ sunday \in BOOLEAN /\ allSunday = FALSE
  /\ imports = 0 /\ crashes = 0 /\ failures = 0

Next == Begin \/ Work \/ Crash \/ Midnight

Spec == Init /\ [][Next]_vars

FairSpec == Spec /\ WF_vars(Work)
-----------------------------------------------------------------------------
(* Properties *)

TypeOK ==
  /\ pc \in {"idle", "node", "org", "employee", "update", "item", "row", "sweep", "hung"}
  /\ file \in Files \cup {<<>>} /\ cur \in 1..(Len(file) + 1) /\ k \in Nat \ {0}
  /\ personId \in Nat /\ prog \in Nat /\ insertEmployee \in BOOLEAN
  /\ refs \in [DOMAIN NoRefs -> Nat]
  /\ \A d \in dict : d.id \in Nat \ {NoRow} /\ d.name # NoName
  /\ \A e \in employee : /\ e.id \in Nat \ {NoRow} /\ e.person \in Persons
                        /\ e.refs \in [DOMAIN NoRefs -> Nat] /\ e.fordelete \in {0, 1}
  /\ \A c \in child : c.id \in Nat \ {NoRow} /\ c.employee \in Nat \ {NoRow} /\ c.ref \in Nat
  /\ {sunday, allSunday} \subseteq BOOLEAN
  /\ imports \in 0..MaxImports /\ crashes \in 0..MaxCrashes /\ failures \in 0..MaxFailures

\* A row that was there at the start, of an employee no import had marked then.
Unlisted(c) ==
  \E d \in InitChildren, e \in InitEmployees :
    /\ d.table = c.table /\ d.id = c.id
    /\ e.id = d.employee /\ e.fordelete = 0

\* Until an INSERT fails, which nobody notices, a dangling key can only be that
\* of a row whose employee another program entered and no import had marked
\* when the service started: those employees the sweep takes without looking at
\* their rows (readxml.cpp:145-160).  Whatever statement a crash follows, every
\* other row finds its employee, and every row its dictionary entries: a row is
\* inserted after the rows it refers to, and who has rows of an import is marked
\* (readxml.cpp:244-250, 515-1187).
References ==
  failures = 0 =>
  /\ \A c \in child :
       /\ c.employee \in IdsOf(employee) \/ Unlisted(c)
       /\ c.ref = NoRow \/ c.ref \in IdsOf(Entries(Programmes[c.table]))
  /\ \A e \in employee, T \in DOMAIN NoRefs :
       e.refs[T] = NoRow \/ e.refs[T] \in IdsOf(Entries(T))

\* Until an INSERT fails, the only rows that anybody inherits are those same
\* ones: getPrefix hands out the key of a swept employee again
\* (numprefix.cpp:33-41), and with it the rows the sweep left behind.  No row
\* that an import entered ever passes to another person, because whoever gets
\* rows here is marked first (readxml.cpp:244-250, 665) and the mark is never
\* taken back.
Owners ==
  failures = 0 =>
    \A c \in child, e \in employee :
      e.id = c.employee => e.person = c.owner \/ Unlisted(c)

\* Importing the same upload again, after a crash too, makes no second copy of
\* a person, of a dictionary entry or of a dependent row.  Only a ptm row whose
\* stored date is not the one it is looked up by (readxml.cpp:963, 1009) is
\* exempt: the code enters it again and again.
NoTwins ==
  /\ \A d, e \in dict : d.table = e.table /\ d.name = e.name => d = e
  /\ \A d, e \in employee : d.person = e.person => d = e
  /\ \A c, d \in child : Alike(c, d) => c = d

\* The dependent row that item i asks for.
Fulfils(r, i) == CASE i.table = "overal" -> TRUE
                   [] i.table = "siz"    -> \E d \in Named("siznaim", i.prog) : d.id = r.ref
                   [] OTHER              -> r.key \in {i.key, i.stored}

\* A Sunday's import repairs what earlier crashes left out: at its end every
\* person of the file is in the database with every row of the record
\* ("Update all employees data", readxml.cpp:259).
SundayComplete ==
  pc = "sweep" /\ allSunday /\ failures = 0 =>
    \A j \in 1..Len(file) : file[j].kind = "Element" =>
      \E e \in employee :
        /\ e.person = file[j].person
        /\ \A n \in 1..Len(file[j].items) :
             LET i == file[j].items[n] IN
               i.live => \E r \in Rows(i.table) : r.employee = e.id /\ Fulfils(r, i)

\* The sweep deletes nobody who is listed in the upload just imported, whatever
\* crashes and failures came before (readxml.cpp:244-249, 154-158).
ListedSurvive ==
  [][Sweep => \A e \in employee :
       (\E j \in 1..Len(file) : file[j].kind = "Element" /\ file[j].person = e.person)
       => e \in employee']_vars

\* The result of a medical examination is not erased by a later upload whose
\* record has none (readxml.cpp:827).
ResultKept ==
  [][\A r \in Rows("physical") : r.result # NoName =>
       \E s \in child' : s.table = "physical" /\ s.id = r.id /\ s.result # NoName]_vars

WellFormed(f) ==
  \A j \in 1..Len(f) :
    /\ f[j].kind # "other"
    /\ f[j].kind = "Element" => /\ f[j].org["subdivision"] # NoName
                                /\ f[j].org["post"] # NoName

\* The walk comes to an end on every file of elements whose records all have a
\* subdivision and a post; nothing is promised of other files, on which the
\* loop of traverseAllInformation may stay at one node for good
\* (readxml.cpp:212, 560, 584, 1190-1192).
Terminates == pc = "node" /\ WellFormed(file) ~> pc = "idle"
=============================================================================
