------------------------- MODULE UnixServiceProofs -------------------------
(***************************************************************************)
(* Proofs about UnixService, for any instances, callers and service flags  *)
(* and any number of crashes: answers are true, a command is performed at  *)
(* most once and not after quit(), and a service whose starts and stops    *)
(* wait for each other runs in one process, which the file names.          *)
(*                                                                         *)
(* The argument: what an event loop has found ready is an accepted, unread *)
(* connection of a caller that waits; reading it is what makes it served,  *)
(* so it is answered by the instance that performed it, or that instance   *)
(* was killed.  A start that finds no listener finds no process either,    *)
(* for the file names the socket of the one there is, and no other start   *)
(* or stop is under way that could change this before it forks.            *)
(***************************************************************************)
EXTENDS UnixService, TLAPS

\* Of the callers only those that wait have a connection.
Calling ==
  /\ \A c \in Callers : pc[c] = "waiting" => op[c] \in Commands \cup {"start"}
  /\ \A c \in Callers : pc[c] = "detached" => op[c] = "controller start"
  /\ \A c \in Callers : pc[c] # "waiting" => conn[c] = NoConnection

\* A process polls and serves in its loop only, and has neither a socket nor
\* been stopped before it.
Processes ==
  \A i \in Instances :
    /\ ipc[i] # "loop" => round[i] = {} /\ serving[i] = Nobody
    /\ ipc[i] \in {"unborn", "detached", "unlinked"} => ~quit[i] /\ ~path_[i]

\* What the loop has found ready and not served yet.
Polled ==
  \A i \in Instances, c \in Callers :
    c \in round[i] => /\ pc[c] = "waiting" /\ ~late[c]
                      /\ conn[c].peer = i /\ conn[c].accepted /\ conn[c].unread

\* A command not yet read was neither performed nor answered.
Unread == \A c \in Callers : conn[c].unread => conn[c].reply = "none" /\ served[c] = Nobody

\* Between slotReady's call of the service and its answer.
Serving ==
  \A i \in Instances, c \in Callers :
    serving[i] = c => /\ pc[c] = "waiting" /\ conn[c].peer = i
                      /\ ~conn[c].unread /\ conn[c].reply = "none"
                      /\ served[c] = IF Allowed(op[c]) THEN i ELSE Nobody

\* What was answered is true, and what was performed will be answered.
Answers ==
  \A c \in Callers : pc[c] = "waiting" =>
    /\ conn[c].reply = "true" => served[c] # Nobody
    /\ conn[c].reply = "false" => served[c] = Nobody /\ op[c] # "start"
    /\ conn[c].reply = "none" /\ served[c] # Nobody =>
         serving[served[c]] = c \/ ipc[served[c]] = "killed"

\* A late call is connected to an instance that ends.
Lateness ==
  \A c \in Callers : late[c] => /\ served[c] = Nobody
                                /\ conn[c].peer # Nobody => quit[conn[c].peer]

\* A start or a stop is under way.
Critical(c) == pc[c] # "idle" /\ op[c] \in StartOrStop

NoProcess == \A i \in Instances : ipc[i] \in Finished

\* As long as starts and stops wait for each other, there is one process, ...
OneProcess == \A i, j \in Instances : {ipc[i], ipc[j]} \cap Finished = {} => i = j

\* ... one start or stop at a time, ...
OneStartOrStop == \A c, d \in Callers : Critical(c) /\ Critical(d) => c = d

\* ... the file names the process from bind() until it is told to quit, ...
FileNamesIt ==
  \A i \in Instances : /\ InLoop(i) => file = i /\ path_[i]
                       /\ ipc[i] = "unlinked" => file = Nobody

\* ... and a start that is not connected to it has none beside it.
StartsAlone ==
  \A c \in Callers :
    /\ pc[c] = "detached" => NoProcess
    /\ pc[c] = "waiting" /\ op[c] = "start" =>
         \/ NoProcess \/ conn[c].reply = "true"
         \/ \E i \in Instances : InLoop(i) /\ conn[c].peer = i

OneAtATime == OneProcess /\ OneStartOrStop /\ FileNamesIt /\ StartsAlone

CallInv == /\ TypeOK /\ Calling /\ Processes /\ Polled /\ Unread /\ Serving /\ Answers
           /\ Lateness /\ TruthfulReplies

IInv == CallInv /\ (serial => OneAtATime)

\* The types of the processes, of the connections and of the callers.
ProcessTypes ==
  /\ ipc \in [Instances -> Finished \cup {"detached", "unlinked", "loop", "cleanup",
                                          "closed", "deleting"}]
  /\ app \in [Instances -> {"created", "running", "paused", "stopped"}]
  /\ quit \in [Instances -> BOOLEAN] /\ path_ \in [Instances -> BOOLEAN]
  /\ round \in [Instances -> SUBSET (Callers \cup {"accept"})]
  /\ serving \in [Instances -> Callers \cup {Nobody}]
  /\ file \in Instances \cup {Nobody}

Connections == [peer: Instances \cup {Nobody}, accepted: BOOLEAN, unread: BOOLEAN,
                reply: Replies]

CallerTypes ==
  /\ pc \in [Callers -> {"idle", "detached", "waiting"}]
  /\ op \in [Callers -> Operations]
  /\ result \in [Callers -> Replies]
  /\ \A c \in Callers : pc[c] # "idle" <=> result[c] = "none"
  /\ served \in [Callers -> Instances \cup {Nobody}]
  /\ late \in [Callers -> BOOLEAN] /\ serial \in BOOLEAN

ConnectionTypes == conn \in [Callers -> Connections]

-----------------------------------------------------------------------------
(* Lemmas *)

\* The peer of a new connection is an instance that still listens, if any.
LEMMA PeerType == TypeOK => Peer \in Instances \cup {Nobody}
BY DEF TypeOK, Peer

\* Instances, callers and the listening descriptor are told apart.
LEMMA Names ==
  Nobody \notin Instances /\ Nobody \notin Callers /\ "accept" \notin Callers
BY UnixServiceAssumption

\* A caller without a connection.
LEMMA NoConn ==
  /\ NoConnection.peer = Nobody /\ NoConnection.reply = "none"
  /\ ~NoConnection.accepted /\ ~NoConnection.unread
BY DEF NoConnection

\* Type correctness, part by part.
LEMMA Types == TypeOK <=> ProcessTypes /\ CallerTypes /\ ConnectionTypes
BY DEF TypeOK, ProcessTypes, CallerTypes, ConnectionTypes, Connections

\* Nobody has called and nothing runs at first.
LEMMA InitCall == Init => CallInv
BY Names DEF Init, CallInv, TypeOK, Calling, Processes, Polled, Unread, Serving, Answers,
   Lateness, TruthfulReplies, Finished, Operations, Replies, NoConnection

\* The callers
LEMMA CallerCall ==
  ASSUME CallInv, NEW c \in Callers, Caller(c)
  PROVE  CallInv'
<1>0. /\ TypeOK /\ Calling /\ Processes /\ Polled /\ Unread /\ Serving /\ Answers
      /\ Lateness /\ TruthfulReplies
  BY DEF CallInv
<1>type. ProcessTypes /\ CallerTypes /\ ConnectionTypes
  BY <1>0, Types
<1>peer. Peer \in Instances \cup {Nobody}
  BY <1>0, PeerType
<1>1. ASSUME NEW o \in Commands \cup {"start"}, pc[c] # "waiting", sendCmd(c, o),
            serial' \in BOOLEAN
     PROVE  CallInv'
  <2>1. \A d \in Callers \ {c} :
          UNCHANGED <<pc[d], op[d], result[d], conn[d], served[d], late[d]>>
    BY <1>1 DEF sendCmd
  <2>2. /\ pc'[c] = "waiting" /\ op'[c] = o /\ served'[c] = Nobody
        /\ conn'[c].peer = Peer /\ conn'[c].unread /\ conn'[c].reply = "none"
    BY <1>type, <1>1 DEF sendCmd, NoConnection, CallerTypes, ConnectionTypes
  <2>3. pc[c] # "waiting" /\ (late'[c] => Peer # Nobody /\ quit[Peer])
    BY <1>type, <1>1 DEF sendCmd, CallerTypes
  <2>4. UNCHANGED <<ipc, quit, round, serving, path_>>
    BY <1>1 DEF sendCmd, process, socket
  <2>5. ProcessTypes'
    BY <1>type, <1>1 DEF ProcessTypes, process, socket, sendCmd
  <2>6. ConnectionTypes'
    BY <1>type, <1>1, <1>peer DEF ConnectionTypes, Connections, Replies, sendCmd,
       NoConnection
  <2>7. CallerTypes'
    BY <1>type, <1>1 DEF CallerTypes, Operations, Replies, sendCmd
  <2>8. TypeOK'
    BY <2>5, <2>6, <2>7, Types, PTL
  <2>9. Calling'
    BY <1>0, <2>1, <2>2 DEF Calling
  <2>10. Processes'
    BY <1>0, <2>4 DEF Processes
  <2>11. Polled'
    BY <1>0, <2>1, <2>3, <2>4 DEF Polled
  <2>12. Unread'
    BY <1>0, <2>1, <2>2 DEF Unread
  <2>13. Serving'
    BY <1>0, <2>1, <2>3, <2>4 DEF Serving
  <2>14. Answers'
    BY <1>0, <2>1, <2>2, <2>4 DEF Answers
  <2>15. Lateness'
    BY <1>0, <2>1, <2>2, <2>3, <2>4 DEF Lateness
  <2>16. TruthfulReplies'
    BY <1>0, <2>1, <2>2, <2>4 DEF TruthfulReplies
  <2> QED  BY <2>8, <2>9, <2>10, <2>11, <2>12, <2>13, <2>14, <2>15, <2>16 DEF CallInv
<1>2. CASE isRunning(c)
  <2>1. \A d \in Callers \ {c} : UNCHANGED <<op[d], result[d], served[d]>>
    BY <1>2 DEF isRunning
  <2>2. pc[c] = "idle" /\ op'[c] = "isRunning" /\ served'[c] = Nobody
    BY <1>type, <1>2 DEF isRunning, CallerTypes
  <2>3. UNCHANGED <<pc, conn, late, ipc, quit, round, serving, path_>>
    BY <1>2 DEF isRunning, process, socket
  <2>4. ProcessTypes'
    BY <1>type, <1>2 DEF ProcessTypes, process, socket, isRunning
  <2>5. ConnectionTypes'
    BY <1>type, <1>2 DEF ConnectionTypes, isRunning
  <2>6. CallerTypes'
    BY <1>type, <1>2 DEF CallerTypes, Operations, Replies, isRunning
  <2>7. TypeOK'
    BY <2>4, <2>5, <2>6, Types, PTL
  <2>8. Calling'
    BY <1>0, <2>1, <2>2, <2>3 DEF Calling
  <2>9. Processes'
    BY <1>0, <2>3 DEF Processes
  <2>10. Polled'
    BY <1>0, <2>3 DEF Polled
  <2>11. Unread'
    BY <1>0, <2>1, <2>2, <2>3 DEF Unread
  <2>12. Serving'
    BY <1>0, <2>1, <2>2, <2>3 DEF Serving
  <2>13. Answers'
    BY <1>0, <2>1, <2>2, <2>3 DEF Answers
  <2>14. Lateness'
    BY <1>0, <2>1, <2>2, <2>3 DEF Lateness
  <2>15. TruthfulReplies'
    BY <1>0, <2>1, <2>2, <2>3 DEF TruthfulReplies, Commands
  <2> QED  BY <2>7, <2>8, <2>9, <2>10, <2>11, <2>12, <2>13, <2>14, <2>15 DEF CallInv
<1>3. CASE ControllerStart(c)
  <2>1. \A d \in Callers \ {c} : UNCHANGED <<pc[d], result[d]>>
    BY <1>type, <1>3 DEF ControllerStart, CallerTypes
  <2>2. \A d \in Callers \ {c} : UNCHANGED <<op[d], served[d]>>
    BY <1>type, <1>3 DEF ControllerStart, CallerTypes
  <2>3. /\ pc[c] = "idle" /\ pc'[c] \in {"idle", "detached"}
        /\ op'[c] = "controller start" /\ served'[c] = Nobody
    BY <1>type, <1>3 DEF ControllerStart, CallerTypes
  <2>4. UNCHANGED <<conn, late, ipc, quit, round, serving, path_>>
    BY <1>3 DEF ControllerStart, process, socket
  <2>5. ProcessTypes'
    BY <1>type, <1>3 DEF ProcessTypes, process, socket, ControllerStart
  <2>6. ConnectionTypes'
    BY <1>type, <1>3 DEF ConnectionTypes, ControllerStart
  <2>7. CallerTypes'
    <3>1. CASE Peer # Nobody
      BY <1>type, <1>3, <3>1 DEF CallerTypes, Operations, Replies, ControllerStart, Asks
    <3>2. CASE Peer = Nobody
      BY <1>type, <1>3, <3>2 DEF CallerTypes, Operations, Replies, ControllerStart, Asks
    <3> QED  BY <3>1, <3>2
  <2>8. TypeOK'
    BY <2>5, <2>6, <2>7, Types, PTL
  <2>9. Calling'
    BY <1>0, <2>1, <2>2, <2>3, <2>4 DEF Calling
  <2>10. Processes'
    BY <1>0, <2>4 DEF Processes
  <2>11. Polled'
    BY <1>0, <2>1, <2>2, <2>3, <2>4, <1>type, NoConn, Names DEF Polled
  <2>12. Unread'
    BY <1>0, <2>2, <2>3, <2>4 DEF Unread
  <2>13. Serving'
    <3>1. \A i \in Instances : serving[i] # c
      BY <1>0, <2>3 DEF Serving
    <3> QED  BY <1>0, <2>1, <2>2, <2>4, <3>1 DEF Serving
  <2>14. Answers'
    BY <1>0, <2>1, <2>2, <2>3, <2>4, <1>type, NoConn, Names DEF Answers
  <2>15. Lateness'
    BY <1>0, <2>2, <2>3, <2>4 DEF Lateness
  <2>16. TruthfulReplies'
    BY <1>0, <2>1, <2>2, <2>3, <2>4, <1>type, NoConn, Names DEF TruthfulReplies, Commands
  <2> QED  BY <2>8, <2>9, <2>10, <2>11, <2>12, <2>13, <2>14, <2>15, <2>16 DEF CallInv
<1>4. CASE Return(c)
  <2>1. \A d \in Callers \ {c} : UNCHANGED <<pc[d], conn[d], result[d]>>
    BY <1>type, <1>4 DEF Return, EndCall, CallerTypes
  <2>2. /\ pc[c] = "waiting" /\ pc'[c] = "idle" /\ conn'[c] = NoConnection
        /\ conn[c].reply # "none" \/ conn[c].peer = Nobody
    BY <1>type, <1>4 DEF Return, CallerTypes, ConnectionTypes
  <2>3. op[c] # "start" => result'[c] = IF conn[c].reply = "true" THEN "true" ELSE "false"
    BY <1>type, <1>4 DEF Return, EndCall, CallerTypes
  <2>4. \A j \in Instances : ipc'[j] # ipc[j] => ipc[j] = "unborn" /\ ipc'[j] = "detached"
    BY <1>type, <1>4 DEF Return, EndCall, ProcessTypes
  <2>5. UNCHANGED <<op, served, late, quit, round, serving, path_>>
    BY <1>4 DEF Return, socket
  <2>6. ProcessTypes'
    BY <1>type, <1>4 DEF ProcessTypes, socket, Return, EndCall
  <2>7. ConnectionTypes'
    BY <1>type, <1>4 DEF ConnectionTypes, Connections, Replies, Return, NoConnection
  <2>8. CallerTypes'
    BY <1>type, <1>4 DEF CallerTypes, Replies, Return, EndCall
  <2>9. TypeOK'
    BY <2>6, <2>7, <2>8, Types, PTL
  <2>10. Calling'
    BY <1>0, <2>1, <2>2, <2>3, <2>5 DEF Calling
  <2>11. Processes'
    BY <1>0, <2>4, <2>5 DEF Processes
  <2>12. Polled'
    BY <1>0, <2>1, <2>2, <2>5, Names DEF Polled, Unread
  <2>13. Unread'
    BY <1>0, <2>1, <2>2, <2>5, NoConn DEF Unread
  <2>14. Serving'
    BY <1>0, <2>1, <2>2, <2>5, Names DEF Serving
  <2>15. Answers'
    BY <1>0, <1>type, <2>1, <2>2, <2>4, <2>5 DEF Answers, CallerTypes
  <2>16. Lateness'
    BY <1>0, <2>1, <2>2, <2>5, NoConn DEF Lateness
  <2>17. TruthfulReplies'
    <3>1. ASSUME op[c] \in Commands
          PROVE  /\ result'[c] = "true" => served[c] # Nobody
                 /\ result'[c] = "false" /\ served[c] # Nobody => ipc[served[c]] = "killed"
      <4>1. result'[c] = "true" <=> conn[c].reply = "true"
        BY <2>3, <3>1 DEF Commands
      <4>2. conn[c].reply \in Replies /\ served[c] \in Instances \cup {Nobody}
        BY <1>type DEF ConnectionTypes, Connections, CallerTypes
      <4>3. served[c] # Nobody => serving[served[c]] # c \/ conn[c].peer # Nobody
        BY <1>0, <4>2 DEF Serving
      <4> QED  BY <1>0, <2>2, <4>1, <4>2, <4>3 DEF Answers, Replies
    <3>2. \A d \in Callers : served[d] # Nobody /\ ipc[served[d]] = "killed" => ipc'[served[d]] = "killed"
      BY <1>type, <2>4 DEF CallerTypes
    <3> QED  BY <1>0, <2>1, <2>5, <3>1, <3>2 DEF TruthfulReplies
  <2> QED  BY <2>9, <2>10, <2>11, <2>12, <2>13, <2>14, <2>15, <2>16, <2>17 DEF CallInv
<1>5. CASE \E o \in Commands \cup {"start"} : Send(c, o)
  <2>1. PICK o \in Commands \cup {"start"} : Send(c, o)
    BY <1>5
  <2>2. pc[c] # "waiting" /\ sendCmd(c, o) /\ serial' \in BOOLEAN
    BY <2>1 DEF Send, Asks
  <2> QED  BY <1>1, <2>2
<1>6. CASE StarterAsks(c)
  <2>1. pc[c] # "waiting" /\ sendCmd(c, "start") /\ serial' \in BOOLEAN
    BY <1>0, <1>6 DEF StarterAsks, TypeOK
  <2> QED  BY <1>1, <2>1
<1> QED  BY <1>2, <1>3, <1>4, <1>5, <1>6 DEF Caller

\* An instance
LEMMA InstanceCall ==
  ASSUME CallInv, NEW i \in Instances, Instance(i) \/ Crash(i)
  PROVE  CallInv'
<1>0. /\ TypeOK /\ Calling /\ Processes /\ Polled /\ Unread /\ Serving /\ Answers
      /\ Lateness /\ TruthfulReplies
  BY DEF CallInv
<1>type. ProcessTypes /\ CallerTypes /\ ConnectionTypes
  BY <1>0, Types
<1>1. CASE Unlink(i) \/ Bind(i) \/ startService(i) \/ LeaveLoop(i) \/ UnlinkPath(i)
  <2>1. \A j \in Instances \ {i} : UNCHANGED <<ipc[j], path_[j]>>
    BY <1>type, <1>1 DEF Unlink, Bind, startService, LeaveLoop, UnlinkPath, Goto, socket,
       ProcessTypes
  <2>2. /\ ipc[i] # "killed" /\ ipc'[i] \notin {"unborn", "detached"}
        /\ ipc'[i] = "unlinked" => ipc[i] = "detached" /\ path_' = path_
        /\ ipc[i] = "loop" => ipc'[i] = "loop" \/ (round[i] = {} /\ serving[i] = Nobody)
    BY <1>type, <1>1 DEF Unlink, Bind, startService, LeaveLoop, UnlinkPath, Goto, Idle,
       ProcessTypes
  <2>3. UNCHANGED <<quit, round, serving, pc, op, result, late, conn, served>>
    BY <1>1 DEF Unlink, Bind, startService, LeaveLoop, UnlinkPath, caller
  <2>4. ProcessTypes'
    BY <1>type, <1>1 DEF ProcessTypes, socket, Unlink, Bind, startService, LeaveLoop,
       UnlinkPath, Goto
  <2>5. ConnectionTypes'
    BY <1>type, <1>1 DEF ConnectionTypes, Unlink, Bind, startService, LeaveLoop, UnlinkPath
  <2>6. CallerTypes'
    BY <1>type, <1>1 DEF CallerTypes, caller, Unlink, Bind, startService, LeaveLoop,
       UnlinkPath, caller
  <2>7. TypeOK'
    BY <2>4, <2>5, <2>6, Types, PTL
  <2>8. Calling'
    BY <1>0, <2>3 DEF Calling
  <2>9. Processes'
    BY <1>0, <2>1, <2>2, <2>3 DEF Processes
  <2>10. Polled'
    BY <1>0, <2>3 DEF Polled
  <2>11. Unread'
    BY <1>0, <2>3 DEF Unread
  <2>12. Serving'
    BY <1>0, <2>3 DEF Serving
  <2>13. Answers'
    BY <1>0, <2>1, <2>2, <2>3, <1>type DEF Answers, CallerTypes
  <2>14. Lateness'
    BY <1>0, <2>3 DEF Lateness
  <2>15. TruthfulReplies'
    BY <1>0, <2>1, <2>2, <2>3, <1>type DEF TruthfulReplies, CallerTypes
  <2> QED  BY <2>7, <2>8, <2>9, <2>10, <2>11, <2>12, <2>13, <2>14, <2>15 DEF CallInv
<1>2. CASE Close(i) \/ Delete(i) \/ Crash(i)
  <2>1. \A j \in Instances \ {i} : UNCHANGED <<ipc[j], path_[j], round[j], serving[j]>>
    BY <1>type, <1>2 DEF Close, Delete, Crash, Goto, socket, ProcessTypes
  <2>2. /\ round'[i] = {} /\ serving'[i] = Nobody /\ ipc[i] \notin Finished
        /\ ipc'[i] = "killed" \/ (ipc'[i] \in {"closed", "gone"} /\ serving[i] = Nobody)
    BY <1>0, <1>type, <1>2 DEF Close, Delete, Crash, Goto, Processes, Finished, ProcessTypes
  <2>3. \A d \in Callers : /\ conn'[d].unread = conn[d].unread /\ conn'[d].reply = conn[d].reply
                           /\ conn'[d].accepted = conn[d].accepted
                           /\ conn'[d].peer \in {Nobody, conn[d].peer}
    BY <1>type, <1>2 DEF Close, Delete, Crash, Drop, ConnectionTypes, Connections
  <2>4. \A d \in Callers : conn[d].peer # i => conn'[d] = conn[d]
    BY <1>2 DEF Close, Delete, Crash, Drop, Backlog, ConnectionsOf
  <2>5. UNCHANGED <<quit, pc, op, result, late, served>>
    BY <1>2 DEF Close, Delete, Crash, caller
  <2>6. ProcessTypes'
    BY <1>type, <1>2 DEF ProcessTypes, Finished, socket, Close, Delete, Crash, Goto,
       Finished
  <2>7. ConnectionTypes'
    BY <1>type, <1>2 DEF ConnectionTypes, Connections, Close, Delete, Crash, Drop
  <2>8. CallerTypes'
    BY <1>type, <1>2 DEF CallerTypes, caller, Close, Delete, Crash, caller
  <2>9. TypeOK'
    BY <2>6, <2>7, <2>8, Types, PTL
  <2>10. Calling'
    BY <1>0, <2>4, <2>5, NoConn, Names DEF Calling
  <2>11. Processes'
    BY <1>0, <2>1, <2>2, <2>5 DEF Processes
  <2>12. Polled'
    BY <1>0, <2>1, <2>2, <2>4, <2>5 DEF Polled
  <2>13. Unread'
    BY <1>0, <2>3, <2>5 DEF Unread
  <2>14. Serving'
    BY <1>0, <2>1, <2>2, <2>4, <2>5, Names DEF Serving
  <2>15. Answers'
    BY <1>0, <2>1, <2>2, <2>3, <2>5, <1>type DEF Answers, CallerTypes, Finished
  <2>16. Lateness'
    BY <1>0, <2>3, <2>5 DEF Lateness
  <2>17. TruthfulReplies'
    BY <1>0, <2>1, <2>2, <2>5, <1>type DEF TruthfulReplies, CallerTypes, Finished
  <2> QED  BY <2>9, <2>10, <2>11, <2>12, <2>13, <2>14, <2>15, <2>16, <2>17 DEF CallInv
<1>3. CASE Poll(i)
  <2>1. /\ \A j \in Instances \ {i} : round'[j] = round[j]
        /\ \A d \in Callers : d \in round'[i] => conn[d].peer = i /\ conn[d].accepted /\ conn[d].unread
    <3>1. round'[i] \subseteq Readable(i) \cup {"accept"}
      BY <1>type, <1>3 DEF Poll, Ready, ProcessTypes
    <3> QED  BY <1>3, <3>1, Names DEF Poll, Readable, ConnectionsOf
  <2>2. ipc[i] = "loop" /\ ~quit[i]
    BY <1>3 DEF Poll, Idle
  <2>3. UNCHANGED <<ipc, quit, serving, path_, pc, op, result, late, conn, served>>
    BY <1>3 DEF Poll, caller, socket
  <2>4. ProcessTypes'
    BY <1>type, <1>3 DEF ProcessTypes, socket, Poll, Ready, Readable, ConnectionsOf
  <2>5. ConnectionTypes'
    BY <1>type, <1>3 DEF ConnectionTypes, Poll
  <2>6. CallerTypes'
    BY <1>type, <1>3 DEF CallerTypes, caller, Poll, caller
  <2>7. TypeOK'
    BY <2>4, <2>5, <2>6, Types, PTL
  <2>8. Calling'
    BY <1>0, <2>3 DEF Calling
  <2>9. Processes'
    BY <1>0, <2>1, <2>2, <2>3 DEF Processes
  <2>10. Polled'
    <3>1. \A d \in Callers : conn[d].peer = i => pc[d] = "waiting"
      BY <1>0, NoConn, Names DEF Calling
    <3>2. \A d \in Callers : conn[d].peer = i => ~late[d]
      BY <1>0, <2>2, Names DEF Lateness
    <3> QED  BY <1>0, <2>1, <2>3, <3>1, <3>2 DEF Polled
  <2>11. Unread'
    BY <1>0, <2>3 DEF Unread
  <2>12. Serving'
    BY <1>0, <2>3 DEF Serving
  <2>13. Answers'
    BY <1>0, <2>3 DEF Answers
  <2>14. Lateness'
    BY <1>0, <2>3 DEF Lateness
  <2>15. TruthfulReplies'
    BY <1>0, <2>3 DEF TruthfulReplies
  <2> QED  BY <2>7, <2>8, <2>9, <2>10, <2>11, <2>12, <2>13, <2>14, <2>15 DEF CallInv
<1>4. CASE incomingConnection(i)
  <2>1. /\ ipc[i] = "loop" /\ \A j \in Instances \ {i} : round'[j] = round[j]
        /\ round'[i] \subseteq round[i]
    BY <1>4 DEF incomingConnection, Serves
  <2>2. \A d \in Callers : /\ conn'[d].unread = conn[d].unread /\ conn'[d].reply = conn[d].reply
                           /\ conn[d].accepted => conn'[d].accepted
                           /\ conn'[d].peer = conn[d].peer
    BY <1>4 DEF incomingConnection
  <2>3. \A d \in Callers : conn[d].peer # i => conn'[d] = conn[d]
    BY <1>4 DEF incomingConnection, Backlog, ConnectionsOf
  <2>4. UNCHANGED <<ipc, quit, serving, path_, pc, op, result, late, served>>
    BY <1>4 DEF incomingConnection, caller, socket
  <2>5. ProcessTypes'
    BY <1>type, <1>4 DEF ProcessTypes, socket, incomingConnection, Serves
  <2>6. ConnectionTypes'
    BY <1>type, <1>4 DEF ConnectionTypes, Connections, Replies, process, socket,
       incomingConnection
  <2>7. CallerTypes'
    BY <1>type, <1>4 DEF CallerTypes, caller, incomingConnection, caller
  <2>8. TypeOK'
    BY <2>5, <2>6, <2>7, Types, PTL
  <2>9. Calling'
    BY <1>0, <2>3, <2>4, NoConn, Names DEF Calling
  <2>10. Processes'
    BY <1>0, <2>1, <2>4 DEF Processes
  <2>11. Polled'
    BY <1>0, <2>1, <2>2, <2>4 DEF Polled
  <2>12. Unread'
    BY <1>0, <2>2, <2>4 DEF Unread
  <2>13. Serving'
    BY <1>0, <2>2, <2>4 DEF Serving
  <2>14. Answers'
    BY <1>0, <2>2, <2>4 DEF Answers
  <2>15. Lateness'
    BY <1>0, <2>2, <2>4 DEF Lateness
  <2>16. TruthfulReplies'
    BY <1>0, <2>4 DEF TruthfulReplies
  <2> QED  BY <2>8, <2>9, <2>10, <2>11, <2>12, <2>13, <2>14, <2>15, <2>16 DEF CallInv
<1>5. ASSUME NEW c \in Callers, Perform(i, c) PROVE CallInv'
  <2>1. /\ ipc[i] = "loop" /\ serving[i] = Nobody /\ c \in round[i]
        /\ round'[i] = round[i] \ {c} /\ serving'[i] = c
        /\ \A j \in Instances \ {i} : UNCHANGED <<round[j], serving[j], quit[j]>>
    BY <1>type, <1>5 DEF Perform, Serves, ProcessTypes
  <2>0. /\ pc[c] = "waiting" /\ ~late[c] /\ conn[c].peer = i
        /\ conn[c].unread /\ conn[c].reply = "none" /\ served[c] = Nobody
    BY <1>0, <2>1 DEF Polled, Unread
  <2>2. /\ \A d \in Callers \ {c} : UNCHANGED <<conn[d], served[d]>>
        /\ conn'[c].peer = conn[c].peer /\ conn'[c].reply = conn[c].reply /\ ~conn'[c].unread
    BY <1>type, <1>5 DEF Perform, CallerTypes, ConnectionTypes
  <2>3. served'[c] = IF Allowed(op[c]) THEN i ELSE served[c]
    BY <1>type, <1>5 DEF Perform, CallerTypes
  <2>4. quit[i] => quit'[i]
    BY <1>type, <1>5 DEF Perform, ProcessTypes
  <2>5. UNCHANGED <<ipc, path_, pc, op, result, late>>
    BY <1>5 DEF Perform, caller, socket
  <2>6. ProcessTypes'
    BY <1>type, <1>5 DEF ProcessTypes, socket, Perform, Serves, Callback
  <2>7. ConnectionTypes'
    BY <1>type, <1>5 DEF ConnectionTypes, Connections, Replies, process, socket, Perform
  <2>8. CallerTypes'
    BY <1>type, <1>5 DEF CallerTypes, caller, Perform, caller
  <2>9. TypeOK'
    BY <2>6, <2>7, <2>8, Types, PTL
  <2>10. Calling'
    BY <1>0, <2>0, <2>2, <2>5 DEF Calling
  <2>11. Processes'
    BY <1>0, <2>1, <2>5 DEF Processes
  <2>12. Polled'
    BY <1>0, <2>1, <2>2, <2>5 DEF Polled
  <2>13. Unread'
    BY <1>0, <2>2 DEF Unread
  <2>14. Serving'
    BY <1>0, <2>0, <2>1, <2>2, <2>3, <2>5 DEF Serving
  <2>15. Answers'
    <3>1. \A d \in Callers \ {c} : conn[d].reply = "none" /\ served[d] # Nobody /\ pc[d] = "waiting"
            => served[d] \in Instances \ {i} \/ ipc[served[d]] = "killed"
      BY <1>0, <1>type, <2>1, Names DEF Answers, CallerTypes
    <3> QED  BY <1>0, <2>0, <2>1, <2>2, <2>3, <2>5, <3>1 DEF Answers
  <2>16. Lateness'
    BY <1>0, <1>type, <2>0, <2>1, <2>2, <2>4, <2>5 DEF Lateness, ConnectionTypes, Connections
  <2>17. TruthfulReplies'
    BY <1>0, <2>0, <2>2, <2>5 DEF TruthfulReplies
  <2> QED  BY <2>9, <2>10, <2>11, <2>12, <2>13, <2>14, <2>15, <2>16, <2>17 DEF CallInv
<1>6. CASE Reply(i)
  <2>0. PICK c \in Callers : serving[i] = c
    BY <1>6 DEF Reply
  <2>a. /\ pc[c] = "waiting" /\ conn[c].peer = i /\ ~conn[c].unread /\ conn[c].reply = "none"
        /\ served[c] = IF Allowed(op[c]) THEN i ELSE Nobody
    BY <1>0, <2>0 DEF Serving
  <2>b. op[c] = "start" => Allowed(op[c])
    BY DEF Allowed
  <2>1. /\ \A j \in Instances \ {i} : serving'[j] = serving[j]
        /\ serving'[i] = Nobody
    BY <1>type, <1>6 DEF Reply, ProcessTypes
  <2>2. /\ \A d \in Callers \ {c} : conn'[d] = conn[d]
        /\ conn'[c].peer = conn[c].peer /\ conn'[c].unread = conn[c].unread
        /\ conn'[c].reply = IF Allowed(op[c]) THEN "true" ELSE "false"
    BY <1>type, <1>6, <2>0 DEF Reply, ConnectionTypes
  <2>3. UNCHANGED <<ipc, quit, round, path_, pc, op, result, late, served>>
    BY <1>6 DEF Reply, caller, socket
  <2>4. ProcessTypes'
    BY <1>type, <1>6 DEF ProcessTypes, socket, Reply
  <2>5. ConnectionTypes'
    BY <1>type, <1>6 DEF ConnectionTypes, Connections, Replies, Reply
  <2>6. CallerTypes'
    BY <1>type, <1>6 DEF CallerTypes, caller, Reply, caller
  <2>7. TypeOK'
    BY <2>4, <2>5, <2>6, Types, PTL
  <2>8. Calling'
    BY <1>0, <2>a, <2>2, <2>3 DEF Calling
  <2>9. Processes'
    BY <1>0, <2>1, <2>3 DEF Processes
  <2>10. Polled'
    BY <1>0, <2>a, <2>2, <2>3 DEF Polled
  <2>11. Unread'
    BY <1>0, <2>a, <2>2, <2>3 DEF Unread
  <2>12. Serving'
    BY <1>0, <2>0, <2>1, <2>2, <2>3, Names DEF Serving
  <2>13. Answers'
    BY <1>0, <1>type, <2>0, <2>a, <2>b, <2>1, <2>2, <2>3, Names DEF Answers, CallerTypes
  <2>14. Lateness'
    BY <1>0, <2>2, <2>3 DEF Lateness
  <2>15. TruthfulReplies'
    BY <1>0, <2>3 DEF TruthfulReplies
  <2> QED  BY <2>7, <2>8, <2>9, <2>10, <2>11, <2>12, <2>13, <2>14, <2>15 DEF CallInv
<1> QED  BY <1>1, <1>2, <1>3, <1>4, <1>5, <1>6 DEF Instance
-----------------------------------------------------------------------------
(* One process at a time *)

\* A new connection is one to the process in its loop, if there is one.
LEMMA LoopIsPeer == CallInv /\ FileNamesIt => \A i \in Instances : InLoop(i) => Peer = i
BY DEF FileNamesIt, InLoop, Peer, Listening

\* When all starts and stops are over, a connection fails only if there is no
\* process.
LEMMA SettledPeer ==
  ASSUME CallInv, FileNamesIt, Settled
  PROVE  NoProcess \/ \E i \in Instances : InLoop(i) /\ Peer = i
BY LoopIsPeer DEF Settled, NoProcess

\* A caller's step keeps it at one process.
LEMMA CallerOne ==
  ASSUME IInv, NEW c \in Callers, Caller(c), serial'
  PROVE  OneAtATime'
<1>type. CallInv /\ ProcessTypes /\ CallerTypes /\ ConnectionTypes
  BY Types DEF IInv, CallInv
<1> USE DEF StartOrStop
<1>1. ASSUME NEW o \in Commands \cup {"start"}, OneAtATime, pc[c] # "waiting", sendCmd(c, o),
             o \in StartOrStop => \A d \in Callers \ {c} : ~Critical(d),
             o = "start" => NoProcess \/ \E i \in Instances : InLoop(i) /\ Peer = i
      PROVE  OneAtATime'
  <2>1. \A d \in Callers \ {c} : UNCHANGED <<pc[d], op[d], conn[d]>>
    BY <1>type, <1>1 DEF sendCmd, CallerTypes, ConnectionTypes
  <2>2. pc'[c] = "waiting" /\ op'[c] = o /\ conn'[c].peer = Peer
    BY <1>type, <1>1 DEF sendCmd, CallerTypes, ConnectionTypes, NoConnection
  <2>3. UNCHANGED <<ipc, quit, path_, file>>
    BY <1>1 DEF sendCmd, process, socket
  <2>4. OneProcess' /\ FileNamesIt' /\ (NoProcess' <=> NoProcess)
    BY <1>1, <2>3 DEF OneAtATime, OneProcess, FileNamesIt, InLoop, NoProcess
  <2>5. OneStartOrStop'
    BY <1>1, <2>1, <2>2 DEF OneAtATime, OneStartOrStop, Critical
  <2>6. \A i \in Instances : InLoop(i)' <=> InLoop(i)
    BY <2>3 DEF InLoop
  <2>7. o = "start" => NoProcess' \/ \E i \in Instances : InLoop(i)' /\ conn'[c].peer = i
    BY <1>1, <2>2, <2>4, <2>6
  <2>8. StartsAlone'
    BY <1>1, <2>1, <2>2, <2>4, <2>6 DEF OneAtATime, StartsAlone
  <2> QED  BY <2>4, <2>5, <2>8 DEF OneAtATime
<1>2. ASSUME NEW o \in Commands \cup {"start"}, Send(c, o)
      PROVE  OneAtATime'
  <2>1. serial /\ OneAtATime /\ (o \in StartOrStop => Settled) /\ pc[c] = "idle" /\ sendCmd(c, o)
    BY <1>2 DEF Send, Asks, IInv
  <2>2. o \in StartOrStop => \A d \in Callers \ {c} : ~Critical(d)
    BY <2>1 DEF Settled, Critical
  <2>3. o = "start" => NoProcess \/ \E i \in Instances : InLoop(i) /\ Peer = i
    BY <1>type, <2>1, SettledPeer DEF OneAtATime
  <2> QED  BY <1>1, <2>1, <2>2, <2>3
<1>3. CASE StarterAsks(c)
  <2>1. OneAtATime /\ pc[c] = "detached" /\ sendCmd(c, "start")
    BY <1>3 DEF StarterAsks, IInv
  <2>2. Critical(c) /\ NoProcess
    BY <1>type, <2>1 DEF CallInv, Calling, Critical, OneAtATime, StartsAlone
  <2>3. \A d \in Callers \ {c} : ~Critical(d)
    BY <2>1, <2>2 DEF OneAtATime, OneStartOrStop
  <2> QED  BY <1>1, <2>1, <2>2, <2>3
<1>4. CASE isRunning(c)
  <2>1. OneAtATime /\ pc[c] = "idle"
    BY <1>4 DEF isRunning, IInv
  <2>2. \A d \in Callers \ {c} : op'[d] = op[d]
    BY <1>4 DEF isRunning
  <2>3. UNCHANGED <<ipc, quit, path_, file, pc, conn>>
    BY <1>4 DEF isRunning, process, socket
  <2> QED  BY <2>1, <2>2, <2>3 DEF OneAtATime, OneProcess, OneStartOrStop, FileNamesIt,
             StartsAlone, InLoop, NoProcess, Critical
<1>5. CASE ControllerStart(c)
  <2>1. OneAtATime /\ pc[c] = "idle" /\ Settled
    BY <1>5 DEF ControllerStart, Asks, IInv
  <2>2. \A d \in Callers \ {c} : UNCHANGED <<pc[d], op[d]>> /\ ~Critical(d)
    BY <1>type, <1>5, <2>1 DEF ControllerStart, CallerTypes, Settled, Critical
  <2>3. pc'[c] = "idle" \/ (pc'[c] = "detached" /\ Peer = Nobody)
    BY <1>type, <1>5 DEF ControllerStart, CallerTypes
  <2>4. Peer = Nobody => NoProcess
    BY <1>type, <2>1, SettledPeer, Names DEF OneAtATime
  <2>5. UNCHANGED <<ipc, quit, path_, file, conn>>
    BY <1>5 DEF ControllerStart, process, socket
  <2>6. OneProcess' /\ FileNamesIt' /\ (NoProcess' <=> NoProcess)
    BY <2>1, <2>5 DEF OneAtATime, OneProcess, FileNamesIt, InLoop, NoProcess
  <2>7. OneStartOrStop'
    BY <2>2 DEF OneStartOrStop, Critical
  <2>8. StartsAlone'
    BY <2>1, <2>2, <2>3, <2>4, <2>5, <2>6 DEF OneAtATime, StartsAlone, InLoop
  <2> QED  BY <2>6, <2>7, <2>8 DEF OneAtATime
<1>6. CASE Return(c)
  <2>1. OneAtATime /\ pc[c] = "waiting" /\ (conn[c].reply # "none" \/ conn[c].peer = Nobody)
    BY <1>6 DEF Return, IInv
  <2>2. \A d \in Callers \ {c} : UNCHANGED <<pc[d], conn[d]>>
    BY <1>6 DEF Return
  <2>3. pc'[c] = "idle" /\ UNCHANGED <<op, quit, path_, file>>
    BY <1>type, <1>6 DEF Return, CallerTypes, socket
  <2>4. OneStartOrStop'
    BY <2>1, <2>2, <2>3 DEF OneAtATime, OneStartOrStop, Critical
  <2>5. CASE ipc' = ipc
    BY <2>1, <2>2, <2>3, <2>4, <2>5 DEF OneAtATime, OneProcess, FileNamesIt, StartsAlone,
       InLoop, NoProcess
  <2>6. CASE ipc' # ipc
    <3>1. PICK j \in Instances : ipc' = [ipc EXCEPT ![j] = "detached"]
      BY <1>6, <2>6 DEF Return, EndCall
    <3>2. op[c] = "start" /\ conn[c].reply # "true"
      BY <1>6, <2>6 DEF Return, EndCall
    <3>3. conn[c].reply = "none" /\ conn[c].peer = Nobody
      <4>1. conn[c].reply \in Replies
        BY <1>type DEF ConnectionTypes, Connections
      <4> QED  BY <1>type, <2>1, <3>2, <4>1 DEF CallInv, Answers, Replies
    <3>4. NoProcess
      BY <2>1, <3>2, <3>3, Names DEF OneAtATime, StartsAlone
    <3>5. \A i \in Instances : ipc'[i] \in Finished \/ (i = j /\ ipc'[i] = "detached")
      BY <3>1, <3>4 DEF NoProcess
    <3>6. OneProcess' /\ FileNamesIt'
      BY <3>5 DEF OneProcess, FileNamesIt, InLoop, Finished
    <3>7. \A d \in Callers \ {c} : ~Critical(d)
      BY <2>1, <3>2 DEF OneAtATime, OneStartOrStop, Critical
    <3>8. StartsAlone'
      BY <1>type, <2>2, <2>3, <3>7 DEF StartsAlone, Critical, CallInv, Calling
    <3> QED  BY <2>4, <3>6, <3>8 DEF OneAtATime
  <2> QED  BY <2>5, <2>6
<1> QED  BY <1>2, <1>3, <1>4, <1>5, <1>6 DEF Caller

\* So does an instance's, and its end.
LEMMA InstanceOne ==
  ASSUME IInv, NEW i \in Instances, Instance(i) \/ Crash(i), serial'
  PROVE  OneAtATime'
<1>type. CallInv /\ ProcessTypes /\ CallerTypes /\ ConnectionTypes
  BY Types DEF IInv, CallInv
<1>0. UNCHANGED <<pc, op, serial>> /\ ipc[i] \notin Finished
  <2>1. CASE Reply(i)
    BY <1>type, <2>1, Names DEF Reply, CallInv, Processes, caller, Finished
  <2>2. CASE incomingConnection(i) \/ \E c \in Callers : Perform(i, c)
    BY <2>2 DEF incomingConnection, Perform, Serves, caller, Finished
  <2>3. CASE Unlink(i) \/ Bind(i) \/ startService(i) \/ Poll(i) \/ LeaveLoop(i) \/ Close(i)
             \/ UnlinkPath(i) \/ Delete(i) \/ Crash(i)
    BY <2>3 DEF Unlink, Bind, startService, Poll, LeaveLoop, Close, UnlinkPath, Delete, Crash,
       Idle, caller, Finished
  <2> QED  BY <2>1, <2>2, <2>3 DEF Instance
<1>one. OneAtATime
  BY <1>0 DEF IInv
<1>2. /\ \A j \in Instances \ {i} : ipc[j] \in Finished
      /\ ~NoProcess /\ \A c \in Callers : pc[c] # "detached"
  BY <1>0, <1>one DEF OneAtATime, OneProcess, StartsAlone, NoProcess
<1>3. OneStartOrStop'
  BY <1>0, <1>one DEF OneAtATime, OneStartOrStop, Critical
<1>4. CASE Unlink(i) \/ Bind(i) \/ UnlinkPath(i) \/ Close(i)
  <2>1. /\ \A j \in Instances \ {i} : ipc'[j] = ipc[j]
        /\ ipc'[i] \in {"unlinked", "loop", "deleting", "closed"} /\ ipc[i] # "loop"
    BY <1>type, <1>4 DEF Unlink, Bind, UnlinkPath, Close, Goto, ProcessTypes
  <2>2. ipc'[i] = "unlinked" => file' = Nobody
    BY <1>type, <1>4 DEF Unlink, Bind, UnlinkPath, Close, Goto, ProcessTypes
  <2>3. ipc'[i] = "loop" => file' = i /\ path_'[i]
    BY <1>type, <1>4, <1>one DEF Unlink, Bind, UnlinkPath, Close, Goto, ProcessTypes, OneAtATime, FileNamesIt
  <2>4. \A c \in Callers : conn'[c].reply = conn[c].reply
    BY <1>type, <1>4 DEF Unlink, Bind, UnlinkPath, Close, Drop, ConnectionTypes, Connections
  <2>5. OneProcess' /\ FileNamesIt'
    BY <1>2, <2>1, <2>2, <2>3 DEF OneProcess, FileNamesIt, InLoop, Finished
  <2>6. StartsAlone'
    BY <1>0, <1>one, <1>2, <2>1, <2>4 DEF OneAtATime, StartsAlone, InLoop, Finished
  <2> QED  BY <1>3, <2>5, <2>6 DEF OneAtATime
<1>5. CASE Delete(i) \/ Crash(i)
  <2>1. \A j \in Instances : ipc'[j] \in Finished
    BY <1>type, <1>2, <1>5 DEF Delete, Crash, Goto, ProcessTypes, Finished
  <2> QED  BY <1>3, <2>1 DEF OneAtATime, OneProcess, FileNamesIt, StartsAlone, NoProcess, InLoop, Finished
<1>6. CASE LeaveLoop(i)
  <2>1. /\ \A j \in Instances \ {i} : ipc'[j] = ipc[j]
        /\ ipc'[i] = "cleanup" /\ quit[i] /\ UNCHANGED <<conn, file, path_, quit>>
    BY <1>type, <1>6 DEF LeaveLoop, Goto, ProcessTypes, socket
  <2>2. OneProcess' /\ FileNamesIt'
    BY <1>2, <2>1 DEF OneProcess, FileNamesIt, InLoop, Finished
  <2>3. StartsAlone'
    BY <1>0, <1>one, <1>2, <2>1 DEF OneAtATime, StartsAlone, InLoop
  <2> QED  BY <1>3, <2>2, <2>3 DEF OneAtATime
<1>7. CASE startService(i) \/ Poll(i) \/ incomingConnection(i) \/ Reply(i)
  <2>1. UNCHANGED <<ipc, quit, file, path_>>
    BY <1>7 DEF startService, Poll, incomingConnection, Reply, socket
  <2>2. \A c \in Callers : conn'[c].peer = conn[c].peer
    BY <1>type, <1>7 DEF startService, Poll, incomingConnection, Reply, ConnectionTypes, Connections
  <2>3. \A c \in Callers : conn[c].reply = "true" => conn'[c].reply = "true"
    <3>1. CASE Reply(i)
      <4>1. PICK c \in Callers : /\ serving[i] = c
                                 /\ conn' = [conn EXCEPT ![c].reply = IF Allowed(op[c]) THEN "true" ELSE "false"]
        BY <3>1 DEF Reply
      <4>2. conn[c].reply = "none"
        BY <1>type, <4>1 DEF CallInv, Serving
      <4> QED  BY <4>1, <4>2
    <3>2. CASE ~Reply(i)
      BY <1>type, <1>7, <3>2 DEF startService, Poll, incomingConnection, ConnectionTypes, Connections
    <3> QED  BY <3>1, <3>2
  <2>4. OneProcess' /\ FileNamesIt'
    BY <1>one, <2>1 DEF OneAtATime, OneProcess, FileNamesIt, InLoop
  <2>5. StartsAlone'
    BY <1>0, <1>one, <1>2, <2>1, <2>2, <2>3 DEF OneAtATime, StartsAlone, InLoop
  <2> QED  BY <1>3, <2>4, <2>5 DEF OneAtATime
<1>8. ASSUME NEW c \in Callers, Perform(i, c)
      PROVE  OneAtATime'
  <2>1. UNCHANGED <<ipc, file, path_>> /\ \A j \in Instances : quit[j] => quit'[j]
    BY <1>type, <1>8 DEF Perform, socket, ProcessTypes
  <2>2. \A d \in Callers : conn'[d].peer = conn[d].peer /\ conn'[d].reply = conn[d].reply
    BY <1>8 DEF Perform
  <2>3. op[c] # "terminate" => quit' = quit
    BY <1>type, <1>8 DEF Perform, ProcessTypes
  <2>4. pc[c] = "waiting"
    BY <1>type, <1>8 DEF Perform, Serves, CallInv, Polled
  <2>5. op[c] = "terminate" => \A d \in Callers : pc[d] = "waiting" => op[d] # "start"
    BY <1>one, <2>4 DEF OneAtATime, OneStartOrStop, Critical, StartOrStop
  <2>6. OneProcess' /\ FileNamesIt'
    BY <1>one, <2>1 DEF OneAtATime, OneProcess, FileNamesIt, InLoop
  <2>7. StartsAlone'
    BY <1>0, <1>one, <1>2, <2>1, <2>2, <2>3, <2>5 DEF OneAtATime, StartsAlone, InLoop
  <2> QED  BY <1>3, <2>6, <2>7 DEF OneAtATime
<1> QED  BY <1>4, <1>5, <1>6, <1>7, <1>8 DEF Instance

-----------------------------------------------------------------------------
(* Theorems *)

\* The invariant holds always.
LEMMA InitIInv == Init => IInv
<1> SUFFICES ASSUME Init PROVE OneAtATime
  BY InitCall DEF IInv
<1>1. \A i \in Instances : ipc[i] = "unborn"
  BY DEF Init
<1>2. \A c \in Callers : pc[c] = "idle"
  BY DEF Init
<1> QED  BY <1>1, <1>2 DEF OneAtATime, OneProcess, OneStartOrStop, FileNamesIt, StartsAlone,
           Critical, InLoop, Finished

LEMMA StutterIInv == IInv /\ UNCHANGED vars => IInv'
<1> SUFFICES ASSUME IInv, UNCHANGED vars PROVE IInv'  OBVIOUS
<1>0. UNCHANGED <<ipc, app, quit, round, serving, path_, file, pc, op, conn, result, served,
                  late, serial>>
  BY DEF vars, process, socket, caller
<1>1. TypeOK'
  BY <1>0 DEF IInv, CallInv, TypeOK
<1>2. Calling' /\ Unread'
  BY <1>0 DEF IInv, CallInv, Calling, Unread
<1>5. Processes' /\ Polled'
  BY <1>0 DEF IInv, CallInv, Processes, Polled
<1>3. Serving' /\ Answers' /\ Lateness' /\ TruthfulReplies'
  BY <1>0 DEF IInv, CallInv, Serving, Answers, Lateness, TruthfulReplies
<1>4. OneAtATime => OneAtATime'
  BY <1>0 DEF OneAtATime, OneProcess, OneStartOrStop, FileNamesIt, StartsAlone, NoProcess,
     Critical, InLoop
<1> QED  BY <1>0, <1>1, <1>2, <1>3, <1>4, <1>5 DEF IInv, CallInv

LEMMA NextIInv == IInv /\ [Next]_vars => IInv'
<1> SUFFICES ASSUME IInv, Next PROVE IInv'
  BY StutterIInv
<1>1. ASSUME NEW i \in Instances, Instance(i) \/ Crash(i) PROVE IInv'
  BY <1>1, InstanceCall, InstanceOne DEF IInv
<1>2. ASSUME NEW c \in Callers, Caller(c) PROVE IInv'
  BY <1>2, CallerCall, CallerOne DEF IInv
<1> QED  BY <1>1, <1>2 DEF Next

LEMMA AlwaysIInv == Spec => []IInv
BY InitIInv, NextIInv, PTL DEF Spec

(* Type correctness, for any instances and callers.                        *)
THEOREM TypeCorrect == Spec => []TypeOK
<1>1. IInv => TypeOK
  BY DEF IInv, CallInv
<1> QED  BY <1>1, AlwaysIInv, PTL

(* Every answer is true: "true" means that the service performed the       *)
(* command, "false" that it did not unless it was killed before answering  *)
(* (sendCmd and slotReady), however many callers talk to however many      *)
(* instances at once.                                                      *)
THEOREM AnswersAreTrue == Spec => []TruthfulReplies
<1>1. IInv => TruthfulReplies
  BY DEF IInv, CallInv
<1> QED  BY <1>1, AlwaysIInv, PTL

(* No command is performed twice: only slotReady performs one, on a        *)
(* connection whose command was not read yet.                              *)
THEOREM PerformedOnce == Spec => AtMostOnce
<1> DEFINE Once == \A i \in Instances, c \in Callers :
                     serving[i] # c /\ serving'[i] = c => served[c] = Nobody /\ pc[c] = "waiting"
<1>1. IInv /\ [Next]_vars => [Once]_vars
  <2> SUFFICES ASSUME IInv, Next PROVE Once
    OBVIOUS
  <2>0. ProcessTypes /\ Polled /\ Unread
    BY Types DEF IInv, CallInv
  <2>1. ASSUME NEW i \in Instances, NEW c \in Callers, Perform(i, c) PROVE Once
    <3>1. c \in round[i] /\ \A j \in Instances \ {i} : serving'[j] = serving[j]
      BY <2>1 DEF Perform, Serves
    <3>2. serving'[i] = c
      BY <2>0, <2>1 DEF Perform, ProcessTypes
    <3> QED  BY <2>0, <3>1, <3>2 DEF Polled, Unread
  <2>2. ASSUME NEW i \in Instances, Reply(i) \/ Crash(i) PROVE Once
    <3>1. \A j \in Instances : serving'[j] \in {Nobody, serving[j]}
      BY <2>0, <2>2 DEF Reply, Crash, ProcessTypes
    <3> QED  BY <3>1, Names
  <2>3. CASE UNCHANGED serving
    BY <2>3
  <2>4. ASSUME NEW i \in Instances, Instance(i) PROVE Once
    BY <2>1, <2>2, <2>4 DEF Instance, Unlink, Bind, startService, Poll, incomingConnection,
       LeaveLoop, Close, UnlinkPath, Delete
  <2>5. ASSUME NEW c \in Callers, Caller(c) PROVE Once
    BY <2>5 DEF Caller, Send, StarterAsks, sendCmd, isRunning, ControllerStart, Return,
       process
  <2> QED  BY <2>2, <2>4, <2>5 DEF Next
<1> QED  BY <1>1, AlwaysIInv, PTL DEF Spec, AtMostOnce

(* A command that reaches an instance already told to quit is not          *)
(* performed: the loop ends with the round in which quit() was called.     *)
THEOREM LateIsRefused == Spec => []LateCallsAreRefused
<1>1. IInv => LateCallsAreRefused
  BY DEF IInv, CallInv, Lateness, LateCallsAreRefused
<1> QED  BY <1>1, AlwaysIInv, PTL

(* As long as starts and stops wait for each other, the service runs in    *)
(* one process at most, which a new connection finds, whatever instances   *)
(* were killed before it.                                                  *)
THEOREM OneServiceIsSeen == Spec => []RunningIsSeen
<1>1. IInv => RunningIsSeen
  BY LoopIsPeer DEF IInv, OneAtATime, OneProcess, RunningIsSeen
<1> QED  BY <1>1, AlwaysIInv, PTL
=============================================================================
