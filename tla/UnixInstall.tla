---------------------------- MODULE UnixInstall ----------------------------
(***************************************************************************)
(* Installing on Unix: the service's group in the system's QSettings, and  *)
(* the processes that write and read it (qtservice_unix.cpp 150-257,       *)
(* 419-443; exec with -i and -u, qtservice.cpp 773-808).  QSettings keeps  *)
(* changes until sync(), which merges them into the file under a lock: one *)
(* step.  The texts of the entries are abstracted to the copy of the       *)
(* program that wrote them.                                                *)
(***************************************************************************)
CONSTANTS Callers,     (* processes that install, uninstall, start or ask    *)
          Copies,      (* copies of the program, each with its file path     *)
          StartType,   (* StartType[p]: what copy p calls setStartupType with*)
          None         (* no copy                                            *)

StartupType == {"AutoStartup", "ManualStartup"}

ASSUME UnixInstallAssumption == None \notin Copies /\ StartType \in [Copies -> StartupType]

VARIABLES
  settings, (* the group of the service, a function on its keys              *)
  upc,      (* upc[c]: where the call of c stands                            *)
  uop,      (* uop[c]: the operation                                         *)
  copy,     (* copy[c]: the copy to install; the path read to start          *)
  returned, (* returned[c]: what the operation returned                      *)
  known     (* known[c]: settings when c's last operation returned           *)

uvars == <<settings, upc, uop, copy, returned, known>>

\* The file has no group of the service.
Empty == [k \in {} |-> None]

\* The three keys install() sets.
Entries(p) == [path |-> p, description |-> p, automaticStartup |-> StartType[p]]

isInstalled == DOMAIN settings # {}

TypeOK ==
  /\ DOMAIN settings \subseteq {"path", "description", "automaticStartup"}
  /\ upc \in [Callers -> {"idle", "checked", "running?", "path"}]
  /\ uop \in [Callers -> {"install", "uninstall", "start", "startupType"}]
  /\ copy \in [Callers -> Copies \cup {None}]
  /\ returned \in [Callers -> {"none", "true", "false"} \cup StartupType]
  /\ \A c \in Callers : upc[c] = "idle" <=> returned[c] # "none"

Return(c, r) == /\ upc' = [upc EXCEPT ![c] = "idle"]
                /\ returned' = [returned EXCEPT ![c] = r]
                /\ known' = [known EXCEPT ![c] = settings']

Continue(c, l) == /\ upc' = [upc EXCEPT ![c] = l]
                  /\ returned' = [returned EXCEPT ![c] = "none"]
                  /\ UNCHANGED known

\* exec with -i, of copy p, or the controller's install(p), which runs it and
\* returns whether the exit code is 0: it is for a service that is installed.
Install(c, p) ==
  /\ upc[c] = "idle"
  /\ uop' = [uop EXCEPT ![c] = "install"] /\ copy' = [copy EXCEPT ![c] = p]
  /\ UNCHANGED <<settings>>
  /\ IF isInstalled THEN Return(c, "true") ELSE Continue(c, "checked")

\* exec with -u, or the controller's uninstall()
Uninstall(c) ==
  /\ upc[c] = "idle"
  /\ uop' = [uop EXCEPT ![c] = "uninstall"] /\ copy' = [copy EXCEPT ![c] = None]
  /\ UNCHANGED <<settings>>
  /\ IF isInstalled THEN Continue(c, "checked") ELSE Return(c, "true")

\* install(): the keys and sync()
Write(c) ==
  /\ upc[c] = "checked" /\ uop[c] = "install"
  /\ settings' = Entries(copy[c])
  /\ Return(c, "true")
  /\ UNCHANGED <<uop, copy>>

\* uninstall(): remove and sync()
Remove(c) ==
  /\ upc[c] = "checked" /\ uop[c] = "uninstall"
  /\ settings' = Empty
  /\ Return(c, "true")
  /\ UNCHANGED <<uop, copy>>

\* Mutation: the status is not looked at.
AccessErrorIgnored(c) ==
  /\ upc[c] = "checked" /\ uop[c] \in {"install", "uninstall"}
  /\ UNCHANGED <<settings, uop, copy>>
  /\ Return(c, "true")

\* sync() could not write the file: exit code -1.
AccessError(c) ==
  /\ upc[c] = "checked" /\ uop[c] \in {"install", "uninstall"}
  /\ UNCHANGED <<settings, uop, copy>>
  /\ Return(c, "false")

\* start() of the controller asks isInstalled, then isRunning ...
Start(c) ==
  /\ upc[c] = "idle"
  /\ uop' = [uop EXCEPT ![c] = "start"] /\ copy' = [copy EXCEPT ![c] = None]
  /\ UNCHANGED <<settings>>
  /\ IF isInstalled THEN Continue(c, "running?") ELSE Return(c, "false")

isRunning(c) ==
  /\ upc[c] = "running?"
  /\ UNCHANGED <<settings, uop, copy>>
  /\ Continue(c, "path") \/ Return(c, "false")

\* ... and starts serviceFilePath(), read only now; an empty path fails, and so
\* may that of a file which is no longer there.
startDetached(c) ==
  /\ upc[c] = "path" /\ UNCHANGED <<settings, uop>>
  /\ IF isInstalled THEN /\ copy' = [copy EXCEPT ![c] = settings.path]
                         /\ Return(c, "true") \/ Return(c, "false")
                    ELSE Return(c, "false") /\ UNCHANGED copy

\* A missing value is 0 as a number, which is AutoStartup.
startupType(c) ==
  /\ upc[c] = "idle"
  /\ uop' = [uop EXCEPT ![c] = "startupType"] /\ copy' = [copy EXCEPT ![c] = None]
  /\ UNCHANGED <<settings>>
  /\ Return(c, IF "startupType" \in DOMAIN settings THEN settings.startupType
               ELSE "AutoStartup")

Call(c) == \/ \E p \in Copies : Install(c, p)
           \/ Uninstall(c) \/ Write(c) \/ Remove(c) \/ AccessError(c)
           \/ Start(c) \/ isRunning(c) \/ startDetached(c) \/ startupType(c)

Init ==
  /\ settings = Empty
  /\ upc = [c \in Callers |-> "idle"] /\ uop = [c \in Callers |-> "start"]
  /\ copy = [c \in Callers |-> None] /\ returned = [c \in Callers |-> "false"]
  /\ known = [c \in Callers |-> Empty]

Next == \E c \in Callers : Call(c)

Spec == Init /\ [][Next]_uvars

-----------------------------------------------------------------------------
(* Properties *)

\* A call that returned true left the service installed, or removed, or started
\* the copy that was installed then, although the decision was made on an
\* earlier look at the settings (qtservice.cpp:779-808; qtservice_unix.cpp:192,
\* 214-218, 432-443).
TrueMeansDone ==
  \A c \in Callers : returned[c] = "true" =>
    /\ uop[c] \in {"install", "start"} => known[c] # Empty
    /\ uop[c] = "uninstall" => known[c] = Empty
    /\ uop[c] = "start" => known[c].path = copy[c]

\* startupType() returns what was installed ("Returns the startup type of the
\* controlled service", qtservice.cpp:287).  The code does not keep it, as run
\* UnixInstall_type shows: it reads another key than install() writes.
StartupTypeIsInstalled ==
  \A c \in Callers :
    uop[c] = "startupType" /\ returned[c] # "none" /\ known[c] # Empty
    => returned[c] = known[c].automaticStartup
=============================================================================
