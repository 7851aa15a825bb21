---------------------------- MODULE UnixService ----------------------------
(***************************************************************************)
(* Running as a Unix daemon (qtservice_unix.cpp, QtServiceBasePrivate::run *)
(* in qtservice.cpp, qtunixserversocket.cpp).  A running instance listens  *)
(* at a socket file whose name all instances of the service share; the     *)
(* controller of another process, and a second start of the program,       *)
(* connect to it, send one command and wait for "true" or "false".         *)
(*                                                                         *)
(* One action is one system call on the socket file or on a connection, or *)
(* one slot of the event loop.  The commands are handled between imports:  *)
(* ReadXML::updateDir, which the loop runs too, only delays a step here    *)
(* (its own state is in module ServXML).                                   *)
(***************************************************************************)
EXTENDS FiniteSets, Naturals

CONSTANTS Instances,    (* bound: processes started to run as the service    *)
          Callers,      (* processes that start or control the service       *)
          Nobody,       (* no instance, no caller                            *)
          ServiceFlags, (* of the service, a subset of the two below         *)
          MaxCrashes    (* bound: instances that are killed                  *)

ASSUME UnixServiceAssumption ==
  /\ Nobody \notin Instances \cup Callers
  /\ "accept" \notin Callers
  /\ ServiceFlags \subseteq {"CanBeSuspended", "CannotBeStopped"}
  /\ MaxCrashes \in Nat

Commands   == {"terminate", "pause", "resume", "num"}
Operations == Commands \cup {"start", "controller start", "isRunning"}
Replies    == {"none", "true", "false"}

VARIABLES
  ipc,     (* ipc[i]: where instance i stands                                *)
  app,     (* app[i]: what the callbacks of its service have done            *)
  quit,    (* quit[i]: QCoreApplication::quit() was called                   *)
  round,   (* round[i]: what the event loop found ready and has yet to serve *)
  serving, (* serving[i]: the caller whose command slotReady has performed   *)
  path_,   (* path_[i]: the server socket's path_ is set                     *)
  file,    (* the instance whose socket the file names                       *)
  pc,      (* pc[c]: "idle", "detached" (to start), "waiting" for the reply  *)
  op,      (* op[c]: the operation asked for last                            *)
  conn,    (* conn[c]: the connection of c                                   *)
  result,  (* result[c]: what the operation returned                         *)
  served,  (* served[c]: the instance that performed c's command             *)
  late,    (* late[c]: the instance had been told to quit when c connected   *)
  serial   (* history: each start and stop so far waited for the one before  *)

process == <<ipc, app, quit, round, serving>>
socket  == <<path_, file>>
caller  == <<pc, op, result, late, serial>>
vars == <<process, socket, caller, conn, served>>

Finished == {"unborn", "gone", "killed"}
InLoop(i) == ipc[i] = "loop" /\ ~quit[i]

TypeOK ==
  /\ ipc \in [Instances -> Finished \cup {"detached", "unlinked", "loop", "cleanup",
                                          "closed", "deleting"}]
  /\ app \in [Instances -> {"created", "running", "paused", "stopped"}]
  /\ quit \in [Instances -> BOOLEAN] /\ path_ \in [Instances -> BOOLEAN]
  /\ round \in [Instances -> SUBSET (Callers \cup {"accept"})]
  /\ serving \in [Instances -> Callers \cup {Nobody}]
  /\ file \in Instances \cup {Nobody}
  /\ pc \in [Callers -> {"idle", "detached", "waiting"}]
  /\ op \in [Callers -> Operations]
  /\ conn \in [Callers -> [peer: Instances \cup {Nobody}, accepted: BOOLEAN,
                           unread: BOOLEAN, reply: Replies]]
  /\ result \in [Callers -> Replies]
  /\ \A c \in Callers : pc[c] # "idle" <=> result[c] = "none"
  /\ served \in [Callers -> Instances \cup {Nobody}]
  /\ late \in [Callers -> BOOLEAN] /\ serial \in BOOLEAN

-----------------------------------------------------------------------------
(* The socket file *)

\* connect() succeeds on a file whose socket is still listening.
Listening(i) == path_[i] /\ ipc[i] \in {"loop", "cleanup"}
Peer == IF file # Nobody /\ Listening(file) THEN file ELSE Nobody

NoConnection == [peer |-> Nobody, accepted |-> FALSE, unread |-> FALSE, reply |-> "none"]

\* The end of a process or of its sockets closes the connections in S; a reply
\* already written can still be read.
Drop(S) == conn' = [c \in Callers |-> IF c \in S THEN [conn[c] EXCEPT !.peer = Nobody]
                                                ELSE conn[c]]

ConnectionsOf(i) == {c \in Callers : conn[c].peer = i}
Backlog(i)  == {c \in ConnectionsOf(i) : ~conn[c].accepted}
Readable(i) == {c \in ConnectionsOf(i) : conn[c].accepted /\ conn[c].unread}

-----------------------------------------------------------------------------
(* The callers *)

StartOrStop == {"start", "controller start", "terminate"}

\* Is every earlier start and stop over: no other caller has one under way, and
\* no process is between its start and its loop, or between quit() and its end?
Settled == /\ \A i \in Instances : ipc[i] \in Finished \/ InLoop(i)
           /\ \A c \in Callers : pc[c] # "idle" => op[c] \notin StartOrStop

\* Nothing in the code makes callers wait for each other; serial records whether
\* they did.
Asks(o) == serial' = (serial /\ (o \in StartOrStop => Settled))

\* sendCmd: connect, write and flush.  Writing cannot be told apart from a
\* connection that is made later; without a listener sendCmd returns false.
sendCmd(c, o) ==
  /\ pc' = [pc EXCEPT ![c] = "waiting"]
  /\ op' = [op EXCEPT ![c] = o]
  /\ result' = [result EXCEPT ![c] = "none"]
  /\ served' = [served EXCEPT ![c] = Nobody]
  /\ late' = [late EXCEPT ![c] = Peer # Nobody /\ quit[Peer]]
  /\ conn' = [conn EXCEPT ![c] = [NoConnection EXCEPT !.peer = Peer, !.unread = TRUE]]
  /\ UNCHANGED <<process, socket>>

\* stop(), pause(), resume(), sendCommand() of the controller; and "start", the
\* program started without an option, which asks the running one "alive".
Send(c, o) == pc[c] = "idle" /\ Asks(o) /\ sendCmd(c, o)

StarterAsks(c) == pc[c] = "detached" /\ UNCHANGED serial /\ sendCmd(c, "start")

\* isRunning() connects and hangs up.
isRunning(c) ==
  /\ pc[c] = "idle"
  /\ op' = [op EXCEPT ![c] = "isRunning"]
  /\ result' = [result EXCEPT ![c] = IF Peer # Nobody THEN "true" ELSE "false"]
  /\ served' = [served EXCEPT ![c] = Nobody]
  /\ UNCHANGED <<process, socket, pc, conn, late, serial>>

\* The controller's start() of an installed service: unless it is running, the
\* program is started detached, without QTSERVICE_RUN.
ControllerStart(c) ==
  /\ pc[c] = "idle" /\ Asks("controller start")
  /\ op' = [op EXCEPT ![c] = "controller start"]
  /\ IF Peer # Nobody
     THEN result' = [result EXCEPT ![c] = "false"] /\ UNCHANGED pc
     ELSE result' = [result EXCEPT ![c] = "none"] /\ pc' = [pc EXCEPT ![c] = "detached"]
  /\ served' = [served EXCEPT ![c] = Nobody]
  /\ UNCHANGED <<process, socket, conn, late>>

\* Mutations: the reply's text is returned, an empty one too; the program is
\* started whatever the answer to "alive".
EndCallUnmapped(c) ==
  /\ result' = [result EXCEPT ![c] = conn[c].reply]
  /\ UNCHANGED ipc
EndCallStartsAnyway(c) ==
  IF op[c] # "start"
  THEN result' = [result EXCEPT ![c] = IF conn[c].reply = "true" THEN "true" ELSE "false"]
       /\ UNCHANGED ipc
  ELSE \E i \in Instances : /\ ipc[i] = "unborn"
                            /\ ipc' = [ipc EXCEPT ![i] = "detached"]
                            /\ result' = [result EXCEPT ![c] = "true"]

\* The value returned.  A start that was answered "true" is refused; otherwise
\* the program is started detached, now with QTSERVICE_RUN, if that succeeds.
EndCall(c) ==
  \/ /\ op[c] # "start" \/ conn[c].reply = "true"
     /\ result' = [result EXCEPT ![c] =
                     IF op[c] # "start" /\ conn[c].reply = "true" THEN "true" ELSE "false"]
     /\ UNCHANGED ipc
  \/ /\ op[c] = "start" /\ conn[c].reply # "true"
     /\ \/ \E i \in Instances : /\ ipc[i] = "unborn"
                                /\ ipc' = [ipc EXCEPT ![i] = "detached"]
                                /\ result' = [result EXCEPT ![c] = "true"]
        \/ result' = [result EXCEPT ![c] = "false"] /\ UNCHANGED ipc

\* waitForReadyRead(-1) ends with data or with the connection.
Return(c) ==
  /\ pc[c] = "waiting" /\ (conn[c].reply # "none" \/ conn[c].peer = Nobody)
  /\ EndCall(c)
  /\ pc' = [pc EXCEPT ![c] = "idle"]
  /\ conn' = [conn EXCEPT ![c] = NoConnection]
  /\ UNCHANGED <<app, quit, round, serving, socket, op, served, late, serial>>

Caller(c) == \/ \E o \in Commands \cup {"start"} : Send(c, o)
             \/ StarterAsks(c) \/ isRunning(c) \/ ControllerStart(c) \/ Return(c)

-----------------------------------------------------------------------------
(* An instance: run(true) *)

Goto(i, l) == ipc' = [ipc EXCEPT ![i] = l]

\* Mutation: the old socket file is left where it is.
UnlinkForgotten(i) ==
  /\ ipc[i] = "detached" /\ Goto(i, "unlinked")
  /\ UNCHANGED <<app, quit, round, serving, socket, caller, conn, served>>

\* sysInit, createApplication; then setPath removes the file, whosever it is.
Unlink(i) ==
  /\ ipc[i] = "detached" /\ Goto(i, "unlinked")
  /\ file' = Nobody
  /\ UNCHANGED <<app, quit, round, serving, path_, caller, conn, served>>

\* bind, listen and setSocketDescriptor.  bind fails if the file is there
\* again; nobody looks, and the instance runs without a socket.  (Between bind
\* and listen connect() fails as before bind.)
Bind(i) ==
  /\ ipc[i] = "unlinked" /\ Goto(i, "loop")
  /\ IF file = Nobody THEN file' = i /\ path_' = [path_ EXCEPT ![i] = TRUE]
                      ELSE UNCHANGED socket
  /\ UNCHANGED <<app, quit, round, serving, caller, conn, served>>

\* The single shot of the starter is the first event of the loop.
startService(i) ==
  /\ ipc[i] = "loop" /\ app[i] = "created"
  /\ app' = [app EXCEPT ![i] = "running"]
  /\ UNCHANGED <<ipc, quit, round, serving, socket, caller, conn, served>>

Idle(i) == ipc[i] = "loop" /\ round[i] = {} /\ serving[i] = Nobody

Ready(i) == Readable(i) \cup (IF Backlog(i) # {} THEN {"accept"} ELSE {})

\* Mutation: the loop goes on after quit().
PollAfterQuit(i) ==
  /\ Idle(i) /\ app[i] # "created" /\ Ready(i) # {}
  /\ round' = [round EXCEPT ![i] = Ready(i)]
  /\ UNCHANGED <<ipc, app, quit, serving, socket, caller, conn, served>>

\* One round of the event loop: every source that is ready now is served
\* before quit() is looked at.
Poll(i) ==
  /\ Idle(i) /\ app[i] # "created" /\ ~quit[i] /\ Ready(i) # {}
  /\ round' = [round EXCEPT ![i] = Ready(i)]
  /\ UNCHANGED <<ipc, app, quit, serving, socket, caller, conn, served>>

Serves(i, x) == /\ ipc[i] = "loop" /\ serving[i] = Nobody /\ x \in round[i]
                /\ round' = [round EXCEPT ![i] = @ \ {x}]

\* incomingConnection, for every connection made so far
incomingConnection(i) ==
  /\ Serves(i, "accept")
  /\ conn' = [c \in Callers |-> IF c \in Backlog(i) THEN [conn[c] EXCEPT !.accepted = TRUE]
                                                   ELSE conn[c]]
  /\ UNCHANGED <<ipc, app, quit, serving, socket, caller, served>>

\* Does slotReady call the service, and answer "true"?
Allowed(o) == CASE o = "terminate"          -> "CannotBeStopped" \notin ServiceFlags
                [] o \in {"pause", "resume"} -> "CanBeSuspended" \in ServiceFlags
                [] o \in {"start", "num"}    -> TRUE

Callback(a, o) == CASE o = "terminate" -> "stopped"
                    [] o = "pause"     -> "paused"
                    [] o = "resume"    -> "running"
                    [] OTHER           -> a

\* Mutation: the command stays in the cache.
PerformAgain(i, c) ==
  /\ Serves(i, c) /\ serving' = [serving EXCEPT ![i] = c]
  /\ IF Allowed(op[c])
     THEN /\ app' = [app EXCEPT ![i] = Callback(@, op[c])]
          /\ quit' = [quit EXCEPT ![i] = @ \/ op[c] = "terminate"]
          /\ served' = [served EXCEPT ![c] = i]
     ELSE UNCHANGED <<app, quit, served>>
  /\ UNCHANGED <<ipc, socket, caller, conn>>

\* slotReady: the command is taken from the cache and performed ...
Perform(i, c) ==
  /\ Serves(i, c) /\ serving' = [serving EXCEPT ![i] = c]
  /\ conn' = [conn EXCEPT ![c].unread = FALSE]
  /\ IF Allowed(op[c])
     THEN /\ app' = [app EXCEPT ![i] = Callback(@, op[c])]
          /\ quit' = [quit EXCEPT ![i] = @ \/ op[c] = "terminate"]
          /\ served' = [served EXCEPT ![c] = i]
     ELSE UNCHANGED <<app, quit, served>>
  /\ UNCHANGED <<ipc, socket, caller>>

\* Mutations: only "true" is ever written; nothing is written after quit().
ReplyOnlyTrue(i) ==
  \E c \in Callers :
    /\ serving[i] = c /\ serving' = [serving EXCEPT ![i] = Nobody]
    /\ conn' = IF Allowed(op[c]) THEN [conn EXCEPT ![c].reply = "true"] ELSE conn
    /\ UNCHANGED <<ipc, app, quit, round, socket, caller, served>>
ReplyNotAfterQuit(i) ==
  \E c \in Callers :
    /\ serving[i] = c /\ serving' = [serving EXCEPT ![i] = Nobody]
    /\ conn' = IF quit[i] THEN conn
               ELSE [conn EXCEPT ![c].reply = IF Allowed(op[c]) THEN "true" ELSE "false"]
    /\ UNCHANGED <<ipc, app, quit, round, socket, caller, served>>

\* ... and the answer is written.
Reply(i) ==
  \E c \in Callers :
    /\ serving[i] = c /\ serving' = [serving EXCEPT ![i] = Nobody]
    /\ conn' = [conn EXCEPT ![c].reply = IF Allowed(op[c]) THEN "true" ELSE "false"]
    /\ UNCHANGED <<ipc, app, quit, round, socket, caller, served>>

\* executeApplication() returns after the round in which quit() was called;
\* the application is deleted.
LeaveLoop(i) ==
  /\ Idle(i) /\ quit[i] /\ Goto(i, "cleanup")
  /\ UNCHANGED <<app, quit, round, serving, socket, caller, conn, served>>

\* sysCleanup: QTcpServer::close() ...
Close(i) ==
  /\ ipc[i] = "cleanup" /\ Goto(i, "closed")
  /\ Drop(Backlog(i))
  /\ UNCHANGED <<app, quit, round, serving, socket, caller, served>>

\* Mutation: path_ is cleared and the file forgotten.
UnlinkPathForgotten(i) ==
  /\ ipc[i] = "closed" /\ Goto(i, "deleting")
  /\ path_' = [path_ EXCEPT ![i] = FALSE]
  /\ UNCHANGED <<app, quit, round, serving, file, caller, conn, served>>

\* ... the file is removed if this instance had bound one ...
UnlinkPath(i) ==
  /\ ipc[i] = "closed" /\ Goto(i, "deleting")
  /\ file' = IF path_[i] THEN Nobody ELSE file
  /\ path_' = [path_ EXCEPT ![i] = FALSE]
  /\ UNCHANGED <<app, quit, round, serving, caller, conn, served>>

\* ... and the accepted connections are deleted with their server.
Delete(i) ==
  /\ ipc[i] = "deleting" /\ Goto(i, "gone")
  /\ Drop(ConnectionsOf(i))
  /\ UNCHANGED <<app, quit, round, serving, socket, caller, served>>

\* The process is killed; the kernel closes its sockets, the file stays.
Crash(i) ==
  /\ ipc[i] \notin Finished
  /\ Cardinality({j \in Instances : ipc[j] = "killed"}) < MaxCrashes
  /\ Goto(i, "killed") /\ Drop(ConnectionsOf(i))
  /\ round' = [round EXCEPT ![i] = {}] /\ serving' = [serving EXCEPT ![i] = Nobody]
  /\ path_' = [path_ EXCEPT ![i] = FALSE]
  /\ UNCHANGED <<app, quit, file, caller, served>>

Instance(i) ==
  \/ Unlink(i) \/ Bind(i) \/ startService(i) \/ Poll(i)
  \/ incomingConnection(i)
  \/ (\E c \in Callers : Perform(i, c)) \/ Reply(i)
  \/ LeaveLoop(i) \/ Close(i) \/ UnlinkPath(i) \/ Delete(i)

-----------------------------------------------------------------------------

Init ==
  /\ ipc = [i \in Instances |-> "unborn"] /\ app = [i \in Instances |-> "created"]
  /\ quit = [i \in Instances |-> FALSE] /\ path_ = [i \in Instances |-> FALSE]
  /\ round = [i \in Instances |-> {}] /\ serving = [i \in Instances |-> Nobody]
  /\ file = Nobody
  /\ pc = [c \in Callers |-> "idle"] /\ op = [c \in Callers |-> "isRunning"]
  /\ conn = [c \in Callers |-> NoConnection]
  /\ result = [c \in Callers |-> "false"]
  /\ served = [c \in Callers |-> Nobody] /\ late = [c \in Callers |-> FALSE]
  /\ serial = TRUE

Next == \/ \E i \in Instances : Instance(i) \/ Crash(i)
        \/ \E c \in Callers : Caller(c)

Spec == Init /\ [][Next]_vars

\* A running process takes its next step, and an import returns; a caller whose
\* wait is over goes on.  Nobody has to ask anything.
FairSpec == /\ Spec
            /\ \A i \in Instances : WF_vars(Instance(i))
            /\ \A c \in Callers : WF_vars(Return(c))

-----------------------------------------------------------------------------
(* Properties *)

\* An answer is true: "true" means that the service performed this command, and
\* "false" that it did not, unless it was killed in between, whatever else was
\* asked at the same time (qtservice_unix.cpp:94-108, 322-361).
TruthfulReplies ==
  \A c \in Callers : pc[c] = "idle" /\ op[c] \in Commands =>
    /\ result[c] = "true" => served[c] # Nobody
    /\ result[c] = "false" /\ served[c] # Nobody => ipc[served[c]] = "killed"

\* A command is performed at most once, however its connection is polled
\* (qtservice_unix.cpp:325-326, 358, 371-376).
AtMostOnce ==
  [][\A i \in Instances, c \in Callers :
       serving[i] # c /\ serving'[i] = c => served[c] = Nobody /\ pc[c] = "waiting"]_vars

\* A command sent to an instance that was already told to quit has no effect,
\* and an "alive" among them is not answered, so that a start may follow a stop
\* (qtservice_unix.cpp:331, 409; QCoreApplication::quit ends the loop with the
\* round).
LateCallsAreRefused == \A c \in Callers : late[c] => served[c] = Nobody

\* As long as starts and stops wait for each other, one instance at a time runs
\* the service ("Already running", qtservice_unix.cpp:409-412), and once it
\* runs it can be found and stopped: the file names its socket, also after an
\* earlier instance was killed and left a file behind ("Returns true if the
\* service is running", qtservice.cpp:260; qtunixserversocket.cpp:73, 89).
RunningIsSeen ==
  serial => /\ \A i, j \in Instances : {ipc[i], ipc[j]} \cap Finished = {} => i = j
            /\ \A i \in Instances : InLoop(i) => Peer = i

\* The same for a single instance that is left, whatever starts and stops went
\* before it.  The code does not keep it, as run UnixService_race shows: the
\* end of an instance removes the file of the one that was started meanwhile.
RunningIsFound ==
  \A i \in Instances :
    InLoop(i) /\ (\A j \in Instances \ {i} : ipc[j] \in Finished) => Peer = i

\* Nobody waits for ever for a reply, although sendCmd sets no limit of time:
\* each connection is answered or closed (qtservice_unix.cpp:101, 398-405).
CallsReturn == \A c \in Callers : pc[c] = "waiting" ~> pc[c] = "idle"

\* An accepted stop ends the process and leaves no socket file of it
\* (qtservice_unix.cpp:331-335, 398-405).
StopEnds ==
  \A i \in Instances : quit[i] ~> ipc[i] \in Finished /\ (file = i => ipc[i] = "killed")
=============================================================================
