----------------------------- MODULE WinControl -----------------------------
(***************************************************************************)
(* The Windows service with those who control it: QtServiceController and  *)
(* the command line of QtServiceBase::exec (qtservice_win.cpp 107-418,     *)
(* 855-905; qtservice.cpp 773-866), in processes of their own, acting on   *)
(* the service of WinService through the service manager.                  *)
(*                                                                         *)
(* The service manager is external.  It starts a process for an installed  *)
(* service that is stopped, delivers one control at a time, lets           *)
(* ControlService return when the handler has or after 30 seconds, and     *)
(* forgets a deleted service once it is stopped and its handles are closed.*)
(***************************************************************************)
EXTENDS WinService, FiniteSets

CONSTANTS Controllers,  (* calls of a controller that may be under way       *)
          Polls,        (* 10: how often stop() asks for the state           *)
          MaxStarts     (* bound: processes the service manager starts       *)

ASSUME WinControlAssumption == Polls \in Nat \ {0} /\ MaxStarts \in Nat

ControlCode == [stop |-> "stop", pause |-> "pause", resume |-> "continue",
                command |-> "user"]
Requests    == {"stop", "pause", "resume", "command"}

VARIABLES
  record,  (* of the service at the SCM: "absent", "present", "marked"       *)
  starts,  (* processes started                                              *)
  kpc,     (* kpc[k]: where the call k stands                                *)
  kop,     (* kop[k]: the operation                                          *)
  polls,   (* polls[k]: i in stop()                                          *)
  kresult, (* kresult[k]: what it returned; for exec, whether it returned 0  *)
  life,    (* life[k]: the process that k's control was sent to              *)
  sender,  (* the call whose control was sent last                           *)
  stuck    (* the event loop is in an import that does not return            *)

service == <<main, dispatcher, semaphores, hpc, code, mutex, loop, states, system, stuck>>
calls   == <<kpc, kop, polls, kresult, life>>
cvars   == <<service, record, starts, calls, sender>>
manager == <<record, starts, calls, sender>>

ControlTypeOK ==
  /\ record \in {"absent", "present", "marked"} /\ starts \in 0..MaxStarts
  /\ kpc \in [Controllers -> {"idle", "checked", "open", "sent", "poll", "starting"}]
  /\ kop \in [Controllers -> Requests \cup {"start", "install", "uninstall", "isRunning"}]
  /\ polls \in [Controllers -> 0..Polls - 1]
  /\ kresult \in [Controllers -> {"none", "true", "false"}]
  /\ life \in [Controllers -> 0..MaxStarts] /\ sender \in Controllers
  /\ stuck \in BOOLEAN
  /\ \A k \in Controllers : kpc[k] = "idle" <=> kresult[k] # "none"

Result(k, b) == /\ kpc' = [kpc EXCEPT ![k] = "idle"]
                /\ kresult' = [kresult EXCEPT ![k] = IF b THEN "true" ELSE "false"]

To(k, l) == /\ kpc' = [kpc EXCEPT ![k] = l]
            /\ kresult' = [kresult EXCEPT ![k] = "none"]

HandleOpen(k) == kpc[k] \in {"open", "sent", "poll", "starting"}

-----------------------------------------------------------------------------
(* stop, pause, resume, sendCommand *)

\* OpenService, which finds a marked service too; sendCommand asks isRunning.
\* (Within MaxControls, each open call can still send its control.)
Open(k, o) ==
  /\ kpc[k] = "idle" /\ kop' = [kop EXCEPT ![k] = o]
  /\ controls + Cardinality({j \in Controllers : kpc[j] = "open"}) < MaxControls
  /\ IF record = "absent" \/ (o = "command" /\ scm = "STOPPED")
     THEN Result(k, FALSE) ELSE To(k, "open")
  /\ UNCHANGED <<service, record, starts, polls, life, sender>>

\* ControlService: the SCM delivers the control to the handler ...
ControlService(k) ==
  /\ kpc[k] = "open" /\ kop[k] \in Requests
  /\ Control(ControlCode[kop[k]])
  /\ To(k, "sent")
  /\ sender' = k /\ life' = [life EXCEPT ![k] = starts]
  /\ UNCHANGED <<record, starts, kop, polls, stuck>>

\* ... or refuses it in this state, or cannot deliver it for 30 seconds.
ControlRefused(k) ==
  /\ kpc[k] = "open" /\ kop[k] \in Requests
  /\ \/ ControlCode[kop[k]] \notin Accepts \/ goingDown
     \/ scm \in {"STOPPED", "START_PENDING", "STOP_PENDING"}
     \/ hpc["ht"] # "idle"
  /\ Result(k, FALSE)
  /\ UNCHANGED <<service, record, starts, kop, polls, life, sender>>

\* The handler has returned from k's control.
Handled(k) == sender # k \/ (life[k] = starts /\ hpc["ht"] = "idle")

\* It returns true.  pause(), resume() and sendCommand() end here; stop() has
\* the state the service was in and, unless that is STOPPED, begins to poll.
ControlAccepted(k) ==
  /\ kpc[k] = "sent" /\ Handled(k)
  /\ IF kop[k] = "stop" /\ scm # "STOPPED" THEN To(k, "poll") ELSE Result(k, TRUE)
  /\ UNCHANGED <<service, record, starts, kop, polls, life, sender>>

\* The 30 seconds are over, or the process is, and the handler has not
\* returned.
ControlTimesOut(k) ==
  /\ kpc[k] = "sent" /\ ~Handled(k)
  /\ Result(k, FALSE)
  /\ UNCHANGED <<service, record, starts, kop, polls, life, sender>>

\* Mutation: the limit of the loop is forgotten.
PollForEver(k) ==
  /\ kpc[k] = "poll"
  /\ IF scm = "STOPPED" THEN Result(k, TRUE) ELSE UNCHANGED <<kpc, kresult>>
  /\ UNCHANGED <<service, record, starts, kop, polls, life, sender>>

\* One turn of the loop in stop(): sleep, QueryServiceStatus, ++i.
Poll(k) ==
  /\ kpc[k] = "poll"
  /\ IF scm = "STOPPED" \/ polls[k] + 1 = Polls
     THEN Result(k, scm = "STOPPED") /\ polls' = [polls EXCEPT ![k] = 0]
     ELSE polls' = [polls EXCEPT ![k] = @ + 1] /\ UNCHANGED <<kpc, kresult>>
  /\ UNCHANGED <<service, record, starts, kop, life, sender>>

isRunning(k) ==
  /\ kpc[k] = "idle" /\ kop' = [kop EXCEPT ![k] = "isRunning"]
  /\ Result(k, record # "absent" /\ scm # "STOPPED")
  /\ UNCHANGED <<service, record, starts, polls, life, sender>>

-----------------------------------------------------------------------------
(* start *)

OpenToStart(k) ==
  /\ kpc[k] = "idle" /\ kop' = [kop EXCEPT ![k] = "start"]
  /\ IF record = "absent" THEN Result(k, FALSE) ELSE To(k, "open")
  /\ UNCHANGED <<service, record, starts, polls, life, sender>>

CanStart == record = "present" /\ scm = "STOPPED" /\ main = "gone" /\ starts < MaxStarts

\* StartService starts a process, or fails for a service that is running or
\* marked.  The end of the last process is waited for.
StartService(k) ==
  /\ kpc[k] = "open" /\ kop[k] = "start" /\ CanStart
  /\ To(k, "starting") /\ starts' = starts + 1
  /\ life' = [life EXCEPT ![k] = starts + 1]
  /\ main' = "acquire" /\ dispatcher' = "new"
  /\ startSemaphore' = 0 /\ startSemaphore2' = 0
  /\ hpc' = [t \in Threads |-> "none"] /\ code' = [t \in Threads |-> "startup"]
  /\ mutex' = Free /\ queue' = <<>> /\ quit' = FALSE
  /\ status' = "STOPPED" /\ scm' = "START_PENDING" /\ app' = "created"
  /\ report' = [t \in Threads |-> "STOPPED"] /\ overtaken' = FALSE
  /\ UNCHANGED <<system, record, kop, polls, sender, stuck>>

StartRefused(k) ==
  /\ kpc[k] = "open" /\ kop[k] = "start" /\ ~CanStart
  /\ Result(k, FALSE)
  /\ UNCHANGED <<service, record, starts, kop, polls, life, sender>>

\* StartService returns when the process has connected, or has not.
Started(k) ==
  /\ kpc[k] = "starting" /\ (life[k] # starts \/ dispatcher # "new" \/ ~Alive)
  /\ Result(k, life[k] # starts \/ dispatcher \in {"connected", "done"})
  /\ UNCHANGED <<service, record, starts, kop, polls, life, sender>>

-----------------------------------------------------------------------------
(* install and uninstall: exec with -i or -u, which asks isInstalled first *)

CheckInstalled(k, o) ==
  /\ kpc[k] = "idle" /\ kop' = [kop EXCEPT ![k] = o]
  /\ IF (o = "install") = (record = "absent") THEN To(k, "checked") ELSE Result(k, TRUE)
  /\ UNCHANGED <<service, record, starts, polls, life, sender>>

\* CreateService fails if another one has installed it since.
install(k) ==
  /\ kpc[k] = "checked" /\ kop[k] = "install"
  /\ Result(k, record = "absent")
  /\ record' = IF record = "absent" THEN "present" ELSE record
  /\ UNCHANGED <<service, starts, kop, polls, life, sender>>

\* DeleteService marks the record.
uninstall(k) ==
  /\ kpc[k] = "checked" /\ kop[k] = "uninstall"
  /\ Result(k, record = "present")
  /\ record' = IF record = "present" THEN "marked" ELSE record
  /\ UNCHANGED <<service, starts, kop, polls, life, sender>>

-----------------------------------------------------------------------------
(* The service manager on its own *)

Forget ==
  /\ record = "marked" /\ scm = "STOPPED" /\ \A k \in Controllers : ~HandleOpen(k)
  /\ record' = "absent"
  /\ UNCHANGED <<service, starts, calls, sender>>

\* The process has ended, or never got as far as its event loop.
ProcessEnds ==
  /\ ~Alive /\ (main # "gone" \/ scm # "STOPPED")
  /\ main' = "gone" /\ scm' = "STOPPED"
  /\ UNCHANGED <<dispatcher, semaphores, hpc, code, mutex, loop, status, report, overtaken,
                 system, stuck, manager>>

-----------------------------------------------------------------------------

Begin(k) == \/ \E o \in Requests : Open(k, o)
            \/ OpenToStart(k) \/ isRunning(k)
            \/ \E o \in {"install", "uninstall"} : CheckInstalled(k, o)

Proceed(k) == \/ ControlService(k) \/ ControlRefused(k) \/ ControlAccepted(k)
              \/ ControlTimesOut(k) \/ Poll(k)
              \/ StartService(k) \/ StartRefused(k) \/ Started(k)
              \/ install(k) \/ uninstall(k)

\* The steps of the service's own threads.
Others == UNCHANGED <<manager, stuck>>

MainThread  == ~stuck /\ (Main \/ AcquireTimesOut) /\ Others
Dispatcher  == (Connect \/ ConnectFails) /\ Others
SystemCalls == (DispatcherReturns \/ ServiceMain) /\ Others
Handling(t) == Handler(t) /\ Others

\* Between two events ReadXML::updateDir runs, and an import may not return.
Hang == /\ main = "exec" /\ app # "created" /\ ~stuck /\ stuck' = TRUE
        /\ UNCHANGED <<main, dispatcher, semaphores, hpc, code, mutex, loop, states,
                       system, manager>>

Service == MainThread \/ Dispatcher \/ SystemCalls \/ (\E t \in Threads : Handling(t)) \/ Hang

ControlInit ==
  /\ main = "gone" /\ dispatcher = "new"
  /\ startSemaphore = 0 /\ startSemaphore2 = 0
  /\ hpc = [t \in Threads |-> "none"] /\ code = [t \in Threads |-> "startup"]
  /\ mutex = Free /\ queue = <<>> /\ quit = FALSE
  /\ status = "STOPPED" /\ scm = "STOPPED" /\ app = "created"
  /\ report = [t \in Threads |-> "STOPPED"] /\ overtaken = FALSE
  /\ controls = 0 /\ goingDown = FALSE
  /\ record = "absent" /\ starts = 0
  /\ kpc = [k \in Controllers |-> "idle"] /\ kop = [k \in Controllers |-> "isRunning"]
  /\ polls = [k \in Controllers |-> 0] /\ kresult = [k \in Controllers |-> "false"]
  /\ life = [k \in Controllers |-> 0] /\ sender \in Controllers
  /\ stuck = FALSE

ControlNext == \/ Service \/ Forget \/ ProcessEnds
               \/ \E k \in Controllers : Begin(k) \/ Proceed(k)

ControlSpec == ControlInit /\ [][ControlNext]_cvars

\* Callers go on, a process that was started connects or fails to, the threads
\* of the service go on unless they wait, and the SCM sees a process end.  No
\* time limit has to run out.
LiveSpec == /\ ControlSpec
            /\ \A k \in Controllers : WF_cvars(Proceed(k))
            /\ WF_cvars(Dispatcher) /\ WF_cvars(SystemCalls) /\ WF_cvars(ProcessEnds)
            /\ WF_cvars(~stuck /\ Main /\ Others)
            /\ \A t \in Threads : WF_cvars(Handling(t))

-----------------------------------------------------------------------------
(* Properties *)

\* What a controller is told was done was done, in the process it was sent to,
\* until the next control.  After stop() the service has stopped ("Returns true if
\* a running service was successfully stopped", qtservice.cpp:373), and what is on
\* record is STOPPED, or the late STOP_PENDING of the handler, unless the report of
\* the startup was overtaken (qtservice_win.cpp:659); pause() and
\* resume() return what ControlService does, without polling, which is right
\* because the handler waits for the callback before it returns
\* (qtservice_win.cpp:329, 363, 385, 624-637).
AcceptedIsDone ==
  \A k \in Controllers :
    kresult[k] = "true" /\ life[k] = starts =>
      /\ kop[k] = "stop" => /\ app = "stopped"
                            /\ scm \in {"STOPPED", "STOP_PENDING"} \/ overtaken
      /\ kop[k] = "pause" /\ sender = k  => app = "paused"
      /\ kop[k] = "resume" /\ sender = k => app = "running"

\* Every call returns although the service may hang for ever: ControlService
\* is limited by the SCM and the polling by its count (qtservice_win.cpp:332).
CallsReturn == \A k \in Controllers : kpc[k] # "idle" ~> kpc[k] = "idle"

\* A service whose start was reported does not stay START_PENDING, whichever of
\* the time limit in start() and the connection comes first
\* (qtservice_win.cpp:804-816, 316).
StartIsDecided ==
  \A k \in Controllers :
    kop[k] = "start" /\ kresult[k] = "true" /\ life[k] = starts /\ starts > 0
    ~> scm # "START_PENDING"
=============================================================================
