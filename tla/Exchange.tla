------------------------------ MODULE Exchange ------------------------------
(***************************************************************************)
(* The exchange loop of readxml.cpp: a directory watcher calls updateDir,  *)
(* which serves one marker of Change/ at a time.                           *)
(*                                                                         *)
(*   - NullObmenAll.arh announces a full upload, ObmenAll.arh: it is moved *)
(*     to Base/ and imported by updateBaseXML;                             *)
(*   - Null.txt announces update files: every file of the directory is     *)
(*     executed as SQL text and removed, in name order, the marker among   *)
(*     them;                                                               *)
(*   - either way baseToArhiv then writes Base/CE_SQLite.arh, the          *)
(*     compressed database that clients fetch.                             *)
(*                                                                         *)
(* One action is one system call the file system or a crash can come       *)
(* between.  Clients write into Change/ concurrently.  What an import does *)
(* to the tables is the subject of module Import; here a file is executed  *)
(* in full, not at all, or (bad XML, see BadUploads) forever.              *)
(***************************************************************************)
EXTENDS Integers

CONSTANTS
  Updates,     (* names of update files, each used by a client once          *)
  Uploads,     (* the successive contents of ObmenAll.arh                    *)
  BadUploads,  (* uploads on which traverseAllInformation does not return    *)
  Rank,        (* position of a file name in name order                      *)
  Overlap,     (* may a client start while another exchange is in progress   *)
  MaxCrashes   (* bound: how often the service dies                          *)

Null         == "Null.txt"
NullObmenAll == "NullObmenAll.arh"
ObmenAll     == "ObmenAll.arh"
Markers      == {Null, NullObmenAll}
Names        == Updates \cup Markers \cup {ObmenAll}
Dirs         == {"Change", "Base"}

Absent == "absent"   (* no such file                                         *)
Torn   == "torn"     (* a file its writer has not finished                   *)
Whole  == "whole"    (* a finished update file, or a marker                  *)
Content == Uploads \cup {Absent, Torn, Whole}

Inputs == Updates \cup Uploads

ASSUME ExchangeAssumption ==
  /\ Rank \in [Names -> Nat]
  /\ \A m, n \in Names : Rank[m] = Rank[n] => m = n
  /\ Rank[Null] < Rank[NullObmenAll] /\ Rank[NullObmenAll] < Rank[ObmenAll]
  /\ BadUploads \subseteq Uploads
  /\ Overlap \in BOOLEAN
  /\ MaxCrashes \in Nat
  /\ Updates \cap (Markers \cup {ObmenAll} \cup Uploads) = {}
  /\ Uploads \cap {Absent, Torn, Whole} = {}

VARIABLES
  pc,          (* where updateDir stands; "idle": in the event loop          *)
  cwd,         (* current directory of the process                           *)
  modifyBase,  (* the member variable of ReadXML                             *)
  rest,        (* what is left of listFiles                                  *)
  pending,     (* a directoryChanged signal is queued                        *)
  fs,          (* fs[d][n]: file n of directory d                            *)
  execs,       (* the database: how often each input went into it            *)
  arh,         (* Base/CE_SQLite.arh: is it whole, and of which database     *)
  sent,        (* how far the client of an input has come                    *)
  woken,       (* history: a signal was delivered since the last start       *)
  crashes      (* history: number of crashes                                 *)

service == <<pc, cwd, modifyBase, rest>>
vars == <<service, pending, fs, execs, arh, sent, woken, crashes>>

Steps == {"down", "idle", "check", "copy", "rmData", "rmMarker", "update",
          "traverse", "hung", "rmBase", "null", "list", "exec", "rm",
          "archive", "write"}

TypeOK ==
  /\ pc \in Steps /\ cwd \in Dirs /\ modifyBase \in BOOLEAN
  /\ rest \in SUBSET Names
  /\ pending \in BOOLEAN /\ woken \in BOOLEAN /\ crashes \in 0..MaxCrashes
  /\ fs \in [Dirs -> [Names -> Content]]
  /\ execs \in [Inputs -> Nat]
  /\ arh \in [whole : BOOLEAN, db : [Inputs -> Nat]]
  /\ sent \in [Inputs -> {"new", "writing", "ready", "announced"}]

-----------------------------------------------------------------------------
(* Files *)

Has(d, n) == fs[d][n] # Absent

Put(d, n, c) == fs' = [fs EXCEPT ![d][n] = c]

\* A file listing of Change/ changed: the watcher queues directoryChanged.
Signal(d) == pending' = (pending \/ (d = "Change" /\ pc # "down"))

\* QFile::remove of a relative name.  It fails on a missing file, and it may
\* fail on one that another process still has open for writing.
Remove(n) == \/ Has(cwd, n) /\ Put(cwd, n, Absent) /\ Signal(cwd)
             \/ fs[cwd][n] \in {Absent, Torn} /\ UNCHANGED <<fs, pending>>

Goto(l) == pc' = l

-----------------------------------------------------------------------------
(* Clients (not in this repository) *)

Busy(x) == sent[x] \in {"writing", "ready"}

\* May the client of x start?  Clients that do not overlap wait until no
\* marker is left and no other exchange is being prepared; the files of one
\* Null.txt exchange are prepared side by side.
MayStart(x) ==
  \/ Overlap
  \/ /\ \A m \in Markers : ~Has("Change", m)
     /\ \A y \in Inputs : Busy(y) => {x, y} \subseteq Updates

FileOf(x) == IF x \in Uploads THEN ObmenAll ELSE x

BeginWrite(x) ==
  /\ sent[x] = "new" /\ MayStart(x)
  /\ x \in Uploads => \A y \in Uploads : sent[y] # "writing"
  /\ sent' = [sent EXCEPT ![x] = "writing"]
  /\ Put("Change", FileOf(x), Torn) /\ Signal("Change")
  /\ UNCHANGED <<service, execs, arh, woken, crashes>>

\* The last byte.  If the file was removed meanwhile nothing reappears.
EndWrite(x) ==
  /\ sent[x] = "writing"
  /\ sent' = [sent EXCEPT ![x] = "ready"]
  /\ IF Has("Change", FileOf(x))
       THEN Put("Change", FileOf(x), IF x \in Uploads THEN x ELSE Whole)
       ELSE UNCHANGED fs
  /\ UNCHANGED <<service, pending, execs, arh, woken, crashes>>

AnnounceUpload(x) ==
  /\ x \in Uploads /\ sent[x] = "ready"
  /\ sent' = [sent EXCEPT ![x] = "announced"]
  /\ Put("Change", NullObmenAll, Whole) /\ Signal("Change")
  /\ UNCHANGED <<service, execs, arh, woken, crashes>>

AnnounceUpdates ==
  /\ \E u \in Updates : sent[u] = "ready"
  /\ Overlap \/ \A u \in Updates : sent[u] # "writing"
  /\ sent' = [x \in Inputs |-> IF x \in Updates /\ sent[x] = "ready"
                                 THEN "announced" ELSE sent[x]]
  /\ Put("Change", Null, Whole) /\ Signal("Change")
  /\ UNCHANGED <<service, execs, arh, woken, crashes>>

Client == \/ \E x \in Inputs : BeginWrite(x) \/ EndWrite(x) \/ AnnounceUpload(x)
          \/ AnnounceUpdates

-----------------------------------------------------------------------------
(* ReadXML::ReadXML and the event loop *)

\* The constructor watches Change/ but does not look into it.
Start ==
  /\ pc = "down" /\ Goto("idle")
  /\ cwd' = "Change" /\ modifyBase' = FALSE /\ rest' = {}
  /\ pending' = FALSE /\ woken' = FALSE
  /\ UNCHANGED <<fs, execs, arh, sent, crashes>>

\* Mutation: the current directory stays what baseToArhiv left it.
DeliverWithoutSetCurrent ==
  /\ pc = "idle" /\ pending
  /\ pending' = FALSE /\ woken' = TRUE
  /\ IF modifyBase THEN UNCHANGED pc ELSE Goto("check")
  /\ UNCHANGED <<cwd, modifyBase, rest, fs, execs, arh, sent, crashes>>

\* Mutation: setCurrent with a path that is neither of the two directories.
DeliverElsewhere ==
  /\ pc = "idle" /\ pending
  /\ pending' = FALSE /\ woken' = TRUE
  /\ Goto("check") /\ cwd' = "ServerEmployee"
  /\ UNCHANGED <<modifyBase, rest, fs, execs, arh, sent, crashes>>

\* updateDir is called; a set modifyBase makes it return at once.
Deliver ==
  /\ pc = "idle" /\ pending
  /\ pending' = FALSE /\ woken' = TRUE
  /\ IF modifyBase THEN UNCHANGED <<pc, cwd>>
                   ELSE Goto("check") /\ cwd' = "Change"
  /\ UNCHANGED <<modifyBase, rest, fs, execs, arh, sent, crashes>>

\* if(file.exists()) of NullObmenAll.arh
Check ==
  /\ pc = "check"
  /\ IF Has(cwd, NullObmenAll)
       THEN Goto("copy") /\ UNCHANGED modifyBase
       ELSE Goto("null") /\ modifyBase' = TRUE
  /\ UNCHANGED <<cwd, rest, pending, fs, execs, arh, sent, woken, crashes>>

-----------------------------------------------------------------------------
(* A full upload *)

\* QFile::copy does not overwrite and its result is not looked at.
Copy ==
  /\ pc = "copy" /\ Goto("rmData")
  /\ IF Has(cwd, ObmenAll) /\ ~Has("Base", ObmenAll)
       THEN Put("Base", ObmenAll, fs[cwd][ObmenAll])
       ELSE UNCHANGED fs
  /\ UNCHANGED <<cwd, modifyBase, rest, pending, execs, arh, sent, woken, crashes>>

RemoveData ==
  /\ pc = "rmData" /\ Goto("rmMarker")
  /\ Remove(ObmenAll)
  /\ UNCHANGED <<cwd, modifyBase, rest, execs, arh, sent, woken, crashes>>

RemoveMarker ==
  /\ pc = "rmMarker" /\ Goto("update")
  /\ Remove(NullObmenAll)
  /\ UNCHANGED <<cwd, modifyBase, rest, execs, arh, sent, woken, crashes>>

\* Mutation: the archive is removed without having been traversed.
UpdateBaseSkipsTraverse ==
  /\ pc = "update" /\ cwd' = "Base"
  /\ IF Has("Base", ObmenAll)
       THEN Goto("rmBase") /\ modifyBase' = TRUE
       ELSE Goto("archive") /\ modifyBase' = FALSE
  /\ UNCHANGED <<rest, pending, fs, execs, arh, sent, woken, crashes>>

\* Mutation: no archive is written when there was nothing to import.
UpdateBaseReturns ==
  /\ pc = "update" /\ cwd' = "Base"
  /\ IF Has("Base", ObmenAll)
       THEN Goto("traverse") /\ modifyBase' = TRUE
       ELSE Goto("idle") /\ modifyBase' = FALSE
  /\ UNCHANGED <<rest, pending, fs, execs, arh, sent, woken, crashes>>

\* updateBaseXML up to its test for Base/ObmenAll.arh; without the file it
\* returns and updateDir resets modifyBase.
UpdateBase ==
  /\ pc = "update" /\ cwd' = "Base"
  /\ IF Has("Base", ObmenAll)
       THEN Goto("traverse") /\ modifyBase' = TRUE
       ELSE Goto("archive") /\ modifyBase' = FALSE
  /\ UNCHANGED <<rest, pending, fs, execs, arh, sent, woken, crashes>>

\* qUncompress, setContent, traverseAllInformation.  A torn archive does not
\* parse and is skipped.
Traverse ==
  /\ pc = "traverse"
  /\ LET x == fs[cwd][ObmenAll] IN
       IF x \in BadUploads THEN Goto("hung") /\ UNCHANGED execs
       ELSE /\ Goto("rmBase")
            /\ execs' = IF x \in Uploads THEN [execs EXCEPT ![x] = @ + 1] ELSE execs
  /\ UNCHANGED <<cwd, modifyBase, rest, pending, fs, arh, sent, woken, crashes>>

\* Mutation: Base/ObmenAll.arh is left behind after the import.
RemoveBaseForgotten ==
  /\ pc = "rmBase" /\ Goto("archive")
  /\ modifyBase' = FALSE
  /\ UNCHANGED <<cwd, rest, pending, fs, execs, arh, sent, woken, crashes>>

\* Base/ObmenAll.arh is removed (also when it did not parse), the sweep runs
\* (module Import) and updateDir resets modifyBase.
RemoveBase ==
  /\ pc = "rmBase" /\ Goto("archive")
  /\ Put(cwd, ObmenAll, Absent)
  /\ modifyBase' = FALSE
  /\ UNCHANGED <<cwd, rest, pending, execs, arh, sent, woken, crashes>>

-----------------------------------------------------------------------------
(* Update files *)

\* if(file.exists()) of Null.txt
CheckNull ==
  /\ pc = "null" /\ Goto(IF Has(cwd, Null) THEN "list" ELSE "archive")
  /\ UNCHANGED <<cwd, modifyBase, rest, pending, fs, execs, arh, sent, woken, crashes>>

\* entryList takes every file, the markers and unannounced files included.
List ==
  /\ pc = "list" /\ Goto("exec")
  /\ rest' = {n \in Names : Has("Change", n)}
  /\ UNCHANGED <<cwd, modifyBase, pending, fs, execs, arh, sent, woken, crashes>>

\* Mutation: the list comes in reversed name order.
FirstReversed(n) == n \in rest /\ \A m \in rest : Rank[n] >= Rank[m]

First(n) == n \in rest /\ \A m \in rest : Rank[n] <= Rank[m]

\* Mutation: return after the update files, without archive and reset.
ExecReturns ==
  /\ pc = "exec"
  /\ \/ rest = {} /\ Goto("idle") /\ UNCHANGED execs
     \/ \E n \in rest :
          /\ First(n) /\ Goto("rm")
          /\ execs' = IF n \in Updates /\ fs[cwd][n] = Whole
                        THEN [execs EXCEPT ![n] = @ + 1] ELSE execs
  /\ UNCHANGED <<cwd, modifyBase, rest, pending, fs, arh, sent, woken, crashes>>

\* readUpDateFile: the lines of an unfinished file are not all there yet, and
\* those of a marker or of an ObmenAll.arh are no statements.
Exec ==
  /\ pc = "exec"
  /\ \/ rest = {} /\ Goto("archive") /\ UNCHANGED execs
     \/ \E n \in rest :
          /\ First(n) /\ Goto("rm")
          /\ execs' = IF n \in Updates /\ fs[cwd][n] = Whole
                        THEN [execs EXCEPT ![n] = @ + 1] ELSE execs
  /\ UNCHANGED <<cwd, modifyBase, rest, pending, fs, arh, sent, woken, crashes>>

\* Mutation: the files of the list are all removed after the first one.
RemoveExecutedAll ==
  /\ pc = "rm" /\ Goto("exec")
  /\ fs' = [fs EXCEPT ![cwd] = [n \in Names |-> IF n \in rest THEN Absent ELSE @[n]]]
  /\ Signal(cwd) /\ rest' = {}
  /\ UNCHANGED <<cwd, modifyBase, execs, arh, sent, woken, crashes>>

RemoveExecuted ==
  /\ pc = "rm" /\ Goto("exec")
  /\ \E n \in rest : First(n) /\ Remove(n) /\ rest' = rest \ {n}
  /\ UNCHANGED <<cwd, modifyBase, execs, arh, sent, woken, crashes>>

-----------------------------------------------------------------------------
(* baseToArhiv *)

OpenArchive ==
  /\ pc = "archive" /\ Goto("write")
  /\ cwd' = "Base"
  /\ arh' = [arh EXCEPT !.whole = FALSE]
  /\ UNCHANGED <<modifyBase, rest, pending, fs, execs, sent, woken, crashes>>

\* Mutation: signals that arrived while updateDir ran are dropped.
WriteArchiveDropsSignals ==
  /\ pc = "write" /\ Goto("idle")
  /\ arh' = [whole |-> TRUE, db |-> execs]
  /\ modifyBase' = FALSE /\ pending' = FALSE
  /\ UNCHANGED <<cwd, rest, fs, execs, sent, woken, crashes>>

\* The data is written and closed, and updateDir returns.
WriteArchive ==
  /\ pc = "write" /\ Goto("idle")
  /\ arh' = [whole |-> TRUE, db |-> execs]
  /\ modifyBase' = FALSE
  /\ UNCHANGED <<cwd, rest, pending, fs, execs, sent, woken, crashes>>

-----------------------------------------------------------------------------

\* The process dies anywhere; a stop of the service is a death in "idle".
Crash ==
  /\ pc # "down" /\ Goto("down")
  /\ crashes < MaxCrashes /\ crashes' = crashes + 1
  /\ pending' = FALSE
  /\ UNCHANGED <<cwd, modifyBase, rest, fs, execs, arh, sent, woken>>

UpdateDir == \/ Deliver \/ Check \/ Copy \/ RemoveData \/ RemoveMarker
             \/ UpdateBase \/ Traverse \/ RemoveBase
             \/ CheckNull \/ List \/ Exec \/ RemoveExecuted
             \/ OpenArchive \/ WriteArchive

Init ==
  /\ pc = "down" /\ cwd = "Change" /\ modifyBase = FALSE /\ rest = {}
  /\ pending = FALSE /\ woken = FALSE /\ crashes = 0
  /\ fs = [d \in Dirs |-> [n \in Names |-> Absent]]
  /\ execs = [x \in Inputs |-> 0]
  /\ arh = [whole |-> FALSE, db |-> [x \in Inputs |-> 0]]
  /\ sent = [x \in Inputs |-> "new"]

Next == Client \/ Start \/ UpdateDir \/ Crash

Spec == Init /\ [][Next]_vars

\* The service thread runs whenever it can.  Nothing makes clients act, the
\* service manager restart the service, or the process die.
FairSpec == Spec /\ WF_vars(UpdateDir)
-----------------------------------------------------------------------------
(* Properties *)

\* No marker is overlooked: when updateDir has returned, every marker in the
\* directory has a signal queued that will bring the service back to it.  This
\* is why the watcher's coalesced signals are enough (readxml.cpp:11-16, 21).
\* Only a marker that lay there before the process started is an exception,
\* until any other signal arrives (woken).
NoMissedMarker ==
  pc = "idle" /\ woken => \A m \in Markers : Has("Change", m) => pending

\* The archive that clients fetch is the database: after every return of
\* updateDir, CE_SQLite.arh is whole and holds the effect of every input
\* that was executed, whatever crashes came before (readxml.cpp:72).
ArchiveFresh ==
  pc = "idle" /\ woken => arh = [whole |-> TRUE, db |-> execs]

Finished(x) == sent[x] \in {"ready", "announced"}
Stored(x)   == \E d \in Dirs : fs[d][FileOf(x)] = IF x \in Uploads THEN x ELSE Whole

\* The three removals of updateDir and updateBaseXML (readxml.cpp:29, 67, 142)
\* delete the last copy of an input that the database has not seen in one case
\* only: a crash kept an old Base/ObmenAll.arh, which made copy() of the next
\* upload fail before remove() deleted it (readxml.cpp:28-29).
OnlyBlockedCopyLoses ==
  [][\A x \in Inputs :
       Finished(x) /\ execs[x] = 0 /\ Stored(x) /\ ~Stored(x)'
       => crashes > 0 /\ pc = "rmData" /\ fs["Base"][ObmenAll] \notin {Absent, x}]_vars

\* An input goes into the database at most once per life of the process:
\* updateDir never executes a file a second time because its own removals
\* signalled the watcher (readxml.cpp:66-67, 142).
OncePerLife == \A x \in Inputs : execs[x] <= crashes + 1

\* Files are executed in name order, so a crash that leaves announced files
\* behind leaves the marker with those whose names precede "Null.txt"; only
\* later names can be stranded without one (readxml.cpp:39-69).
MarkerOutlivesEarlierNames ==
  \A u \in Updates :
    sent[u] = "announced" /\ Has("Change", u) /\ Rank[u] < Rank[Null] => Has("Change", Null)

\* The service implements the mailbox its clients count on.
MB == INSTANCE Mailbox WITH
        box  <- {u \in Updates : Has("Change", u)},
        done <- {u \in Updates : execs[u] > 0}

\* An update file leaves Change/ only after it was executed in full
\* (readxml.cpp:66-67), however often the process dies.
ImplementsMailbox == MB!Spec

\* A marker that a running service can know of is eventually taken away, unless
\* the service dies before.
MarkerServed ==
  \A m \in Markers :
    Has("Change", m) /\ (woken \/ pending) ~> ~Has("Change", m) \/ pc = "down"

\* Without a crash an announced input eventually goes into the database, and a
\* whole archive that holds it follows.
AnnouncedReachesClients ==
  \A x \in Inputs :
    sent[x] = "announced" /\ (woken \/ pending)
    ~> crashes > 0 \/ (arh.whole /\ arh.db[x] > 0)
=============================================================================
