----------------------------- MODULE WinService -----------------------------
(***************************************************************************)
(* Running as a Windows service (qtservice_win.cpp).  Three threads share  *)
(* the QtServiceSysPrivate object:                                         *)
(*                                                                         *)
(*   - the main thread, QtServiceBasePrivate::start(), which becomes the   *)
(*     event loop and runs the service's callbacks;                        *)
(*   - "sm", the thread in which the system calls serviceMain;             *)
(*   - "ht", the HandlerThread, in which the dispatcher of the system      *)
(*     calls handler() for one control request after the other.            *)
(*                                                                         *)
(* The last two post an event to the main thread and wait on a condition   *)
(* until it was handled; a mutex, held from before the post to the wait,   *)
(* keeps the wake-up from being lost.  The service manager, the SCM, is    *)
(* external: it sends no control to a service that is stopped, starting or *)
(* stopping, and none after the one that announces the system's shutdown.  *)
(***************************************************************************)
EXTENDS Integers, Sequences

CONSTANTS Accepts,      (* controls accepted: serviceFlags() and the         *)
                        (* ones that need no flag                            *)
          MaxControls   (* bound: controls the SCM sends                     *)

Codes == {"stop", "pause", "continue", "interrogate", "shutdown", "user"}

ASSUME WinServiceAssumption == Accepts \subseteq Codes /\ MaxControls \in Nat

Threads == {"sm", "ht"}
Free    == "free"            (* no thread holds the mutex                    *)

ServiceStates == {"STOPPED", "START_PENDING", "RUNNING", "PAUSE_PENDING", "PAUSED",
                  "CONTINUE_PENDING", "STOP_PENDING"}

VARIABLES
  main,        (* where start() stands; "exec": in the event loop            *)
  dispatcher,  (* of HandlerThread::run: "new", "connected", "failed", "done"*)
  startSemaphore, startSemaphore2,
  hpc,         (* hpc[t]: where thread t stands in serviceMain or handler    *)
  code,        (* code[t]: the control handler() was called with             *)
  mutex,       (* its owner                                                  *)
  queue,       (* events posted to controllerHandler                         *)
  quit,        (* QCoreApplication::quit() was called                        *)
  status,      (* status.dwCurrentState                                      *)
  scm,         (* the state the SCM was told last                            *)
  report,      (* report[t]: the state that t has read to report it; "STOPPED"*)
               (* while there is none under way                              *)
  overtaken,   (* history: serviceMain's report came after the state it      *)
               (* tells of had changed                                       *)
  app,         (* what the callbacks of the service have done                *)
  controls, goingDown  (* controls sent; the system is shutting down         *)

semaphores == <<startSemaphore, startSemaphore2>>
loop       == <<queue, quit, app>>
states     == <<status, scm, report, overtaken>>
system     == <<controls, goingDown>>
vars == <<main, dispatcher, semaphores, hpc, code, mutex, loop, states, system>>

TypeOK ==
  /\ main \in {"acquire", "create", "exec", "wake", "stopped", "join",
               "gone", "failed", "console"}
  /\ dispatcher \in {"new", "connected", "failed", "done"}
  /\ startSemaphore \in Nat /\ startSemaphore2 \in Nat
  /\ hpc \in [Threads -> {"none", "acquire", "idle", "lock", "post", "wait", "waiting",
                          "woken", "final", "unlocked", "send", "sending"}]
  /\ code \in [Threads -> Codes \cup {"startup"}]
  /\ mutex \in Threads \cup {Free}
  /\ queue \in Seq(Codes \cup {"startup"}) /\ quit \in BOOLEAN
  /\ {status, scm} \subseteq ServiceStates /\ report \in [Threads -> ServiceStates]
  /\ overtaken \in BOOLEAN
  /\ app \in {"created", "running", "paused", "stopped"}
  /\ controls \in 0..MaxControls /\ goingDown \in BOOLEAN

Alive == main \notin {"gone", "failed", "console"}

-----------------------------------------------------------------------------
(* The main thread: QtServiceBasePrivate::start() *)

\* Mutation: the result of tryAcquire is ignored.
AcquireAtOnce ==
  /\ main = "acquire"
  /\ startSemaphore' = startSemaphore - 1
  /\ main' = IF dispatcher = "failed" THEN "console" ELSE "create"
  /\ UNCHANGED <<dispatcher, startSemaphore2, hpc, code, mutex, loop, states, system>>

\* startSemaphore.tryAcquire(1, 20000): the dispatcher failed, or serviceMain
\* has the arguments.
Acquire ==
  /\ main = "acquire" /\ startSemaphore > 0
  /\ startSemaphore' = startSemaphore - 1
  /\ main' = IF dispatcher = "failed" THEN "console" ELSE "create"
  /\ UNCHANGED <<dispatcher, startSemaphore2, hpc, code, mutex, loop, states, system>>

AcquireTimesOut ==
  /\ main = "acquire" /\ startSemaphore = 0 /\ main' = "failed"
  /\ UNCHANGED <<dispatcher, semaphores, hpc, code, mutex, loop, states, system>>

\* createApplication and controllerHandler, then serviceMain may go on.
CreateApplication ==
  /\ main = "create" /\ main' = "exec"
  /\ startSemaphore2' = startSemaphore2 + 1
  /\ UNCHANGED <<dispatcher, startSemaphore, hpc, code, mutex, loop, states, system>>

\* handleCustomEvent calls the service; quit() lets the loop end after it.
Callback(c) == CASE c = "startup"             -> "running"
                 [] c = "pause"               -> "paused"
                 [] c = "continue"            -> "running"
                 [] c \in {"stop", "shutdown"} -> "stopped"
                 [] OTHER                     -> app

\* Mutation: stop() is called and quit() forgotten.
HandleEventStays ==
  /\ main = "exec" /\ ~quit /\ queue # <<>>
  /\ queue' = Tail(queue) /\ app' = Callback(Head(queue))
  /\ main' = "wake"
  /\ UNCHANGED <<dispatcher, semaphores, quit, hpc, code, mutex, states, system>>

HandleEvent ==
  /\ main = "exec" /\ ~quit /\ queue # <<>>
  /\ queue' = Tail(queue) /\ app' = Callback(Head(queue))
  /\ quit' = (Head(queue) \in {"stop", "shutdown"})
  /\ main' = "wake"
  /\ UNCHANGED <<dispatcher, semaphores, hpc, code, mutex, states, system>>

\* Mutation: wakeAll without the mutex.
WakeAllUnlocked ==
  /\ main = "wake" /\ main' = "exec"
  /\ hpc' = [t \in Threads |-> IF hpc[t] = "waiting" THEN "woken" ELSE hpc[t]]
  /\ UNCHANGED <<dispatcher, semaphores, code, mutex, loop, states, system>>

\* lock, condition.wakeAll(), unlock
WakeAll ==
  /\ main = "wake" /\ mutex = Free /\ main' = "exec"
  /\ hpc' = [t \in Threads |-> IF hpc[t] = "waiting" THEN "woken" ELSE hpc[t]]
  /\ UNCHANGED <<dispatcher, semaphores, code, mutex, loop, states, system>>

\* executeApplication() returns.  setStatus(SERVICE_STOPPED) writes the field
\* and then tells the SCM, without the mutex.
LeaveLoop ==
  /\ main = "exec" /\ quit /\ main' = "stopped"
  /\ status' = "STOPPED"
  /\ UNCHANGED <<dispatcher, semaphores, hpc, code, mutex, loop, scm, report, overtaken, system>>

ReportStopped ==
  /\ main = "stopped" /\ main' = "join"
  /\ scm' = status
  /\ UNCHANGED <<dispatcher, semaphores, hpc, code, mutex, loop, status, report, overtaken,
                 system>>

\* ht->wait(1000) ends with the thread or after a second; the objects are
\* deleted and the process ends.
Cleanup ==
  /\ main = "join" /\ main' = "gone"
  /\ UNCHANGED <<dispatcher, semaphores, hpc, code, mutex, loop, states, system>>

Main == \/ Acquire \/ CreateApplication \/ HandleEvent \/ WakeAll
        \/ LeaveLoop \/ ReportStopped \/ Cleanup

-----------------------------------------------------------------------------
(* HandlerThread::run *)

\* StartServiceCtrlDispatcher blocks; the system calls serviceMain in a thread
\* of its own.
Connect ==
  /\ Alive /\ dispatcher = "new" /\ dispatcher' = "connected"
  /\ hpc' = [hpc EXCEPT !["sm"] = "acquire", !["ht"] = "idle"]
  /\ startSemaphore' = startSemaphore + 1
  /\ UNCHANGED <<main, startSemaphore2, code, mutex, loop, states, system>>

\* Started from a console, or an error.
ConnectFails ==
  /\ Alive /\ dispatcher = "new" /\ dispatcher' = "failed"
  /\ startSemaphore' = startSemaphore + 1
  /\ UNCHANGED <<main, startSemaphore2, hpc, code, mutex, loop, states, system>>

\* The dispatcher returns once the service is stopped.
DispatcherReturns ==
  /\ Alive /\ dispatcher = "connected" /\ hpc["ht"] = "idle" /\ scm = "STOPPED"
  /\ dispatcher' = "done"
  /\ UNCHANGED <<main, semaphores, hpc, code, mutex, loop, states, system>>

\* serviceMain: startSemaphore2.acquire(), then handler(QTSERVICE_STARTUP).
ServiceMain ==
  /\ Alive /\ hpc["sm"] = "acquire" /\ startSemaphore2 > 0
  /\ startSemaphore2' = startSemaphore2 - 1
  /\ hpc' = [hpc EXCEPT !["sm"] = "lock"]
  /\ code' = [code EXCEPT !["sm"] = "startup"]
  /\ UNCHANGED <<main, dispatcher, startSemaphore, mutex, loop, states, system>>

\* The SCM sends a control; the dispatcher calls handler with it.
Control(c) ==
  /\ Alive /\ c \in Accepts /\ controls < MaxControls /\ controls' = controls + 1
  /\ dispatcher = "connected" /\ hpc["ht"] = "idle"
  /\ scm \notin {"STOPPED", "START_PENDING", "STOP_PENDING"} /\ ~goingDown
  /\ goingDown' = (c = "shutdown")
  /\ hpc' = [hpc EXCEPT !["ht"] = "lock"] /\ code' = [code EXCEPT !["ht"] = c]
  /\ UNCHANGED <<main, dispatcher, semaphores, mutex, loop, states>>

-----------------------------------------------------------------------------
(* handler(), in thread t *)

At(t, l)   == Alive /\ hpc[t] = l
Step(t, l) == hpc' = [hpc EXCEPT ![t] = l]

\* setStatus under the mutex.  It is one step: until a report is overtaken no other
\* thread writes the field meanwhile, and reading the new state before the SCM is
\* told makes nobody tell it another one.
setStatus(s) == status' = s /\ scm' = s /\ UNCHANGED <<report, overtaken>>

\* Mutations: no pending state for stop; the startup reported as done at once.
BeforeWithoutStop == [startup |-> "START_PENDING", pause |-> "PAUSE_PENDING",
                      continue |-> "CONTINUE_PENDING"]
BeforeStartRunning == [startup |-> "RUNNING", stop |-> "STOP_PENDING",
                       pause |-> "PAUSE_PENDING", continue |-> "CONTINUE_PENDING"]

\* Mutation: the state reached by the startup is not set.
AfterWithoutStartup == [pause |-> "PAUSED", continue |-> "RUNNING"]

\* The state set before the event is posted, and the one set after the wait.
Before == [startup |-> "START_PENDING", stop |-> "STOP_PENDING",
           pause |-> "PAUSE_PENDING", continue |-> "CONTINUE_PENDING"]
After  == [startup |-> "RUNNING", pause |-> "PAUSED", continue |-> "RUNNING"]

\* mutex.lock() and setStatus to the pending state
Lock(t) ==
  /\ At(t, "lock") /\ mutex = Free /\ mutex' = t
  /\ IF code[t] \in DOMAIN Before THEN setStatus(Before[code[t]]) ELSE UNCHANGED states
  /\ Step(t, IF code[t] = "interrogate" THEN "final" ELSE "post")
  /\ UNCHANGED <<main, dispatcher, semaphores, code, loop, system>>

Post(t) ==
  /\ At(t, "post") /\ Step(t, "wait")
  /\ queue' = Append(queue, code[t])
  /\ UNCHANGED <<main, dispatcher, semaphores, code, mutex, quit, app, states, system>>

\* Mutation: the mutex is released, but nobody waits for the event.
WaitForgotten(t) ==
  /\ At(t, "wait") /\ Step(t, "woken")
  /\ mutex' = Free
  /\ UNCHANGED <<main, dispatcher, semaphores, code, loop, states, system>>

\* condition.wait(&mutex) releases the mutex and sleeps, in one step.
Wait(t) ==
  /\ At(t, "wait") /\ Step(t, "waiting")
  /\ mutex' = Free
  /\ UNCHANGED <<main, dispatcher, semaphores, code, loop, states, system>>

\* ... and takes the mutex again; then the state that was reached is set.
Relock(t) ==
  /\ At(t, "woken") /\ mutex = Free /\ mutex' = t
  /\ Step(t, "final")
  /\ IF code[t] \in DOMAIN After THEN setStatus(After[code[t]]) ELSE UNCHANGED states
  /\ UNCHANGED <<main, dispatcher, semaphores, code, loop, system>>

Unlock(t) ==
  /\ At(t, "final") /\ mutex' = Free /\ Step(t, "unlocked")
  /\ UNCHANGED <<main, dispatcher, semaphores, code, loop, states, system>>

\* "Report current status", after the unlock: the test, the reading of the field
\* for the report and the recording of it at the SCM are three steps, and the
\* main thread and the other handler may write and report in between.
CheckStopped(t) ==
  /\ At(t, "unlocked")
  /\ Step(t, IF status # "STOPPED" THEN "send" ELSE "idle")
  /\ UNCHANGED <<main, dispatcher, semaphores, code, mutex, loop, states, system>>

Send(t) ==
  /\ At(t, "send") /\ Step(t, "sending")
  /\ report' = [report EXCEPT ![t] = status]
  /\ UNCHANGED <<main, dispatcher, semaphores, code, mutex, loop, status, scm, overtaken, system>>

\* The SCM records what it is told, however old.
Record(t) ==
  /\ At(t, "sending") /\ Step(t, "idle")
  /\ scm' = report[t] /\ report' = [report EXCEPT ![t] = "STOPPED"]
  /\ overtaken' = (overtaken \/ (t = "sm" /\ report[t] # status))
  /\ UNCHANGED <<main, dispatcher, semaphores, code, mutex, loop, status, system>>

Handler(t) == \/ Lock(t) \/ Post(t) \/ Wait(t) \/ Relock(t) \/ Unlock(t)
              \/ CheckStopped(t) \/ Send(t) \/ Record(t)

-----------------------------------------------------------------------------

Init ==
  /\ main = "acquire" /\ dispatcher = "new"
  /\ startSemaphore = 0 /\ startSemaphore2 = 0
  /\ hpc = [t \in Threads |-> "none"] /\ code = [t \in Threads |-> "startup"]
  /\ mutex = Free /\ queue = <<>> /\ quit = FALSE
  /\ status = "STOPPED" /\ scm = "START_PENDING" /\ app = "created"
  /\ report = [t \in Threads |-> "STOPPED"] /\ overtaken = FALSE
  /\ controls = 0 /\ goingDown = FALSE

Next == \/ Main \/ AcquireTimesOut
        \/ Connect \/ ConnectFails \/ DispatcherReturns \/ ServiceMain
        \/ \E c \in Codes : Control(c)
        \/ \E t \in Threads : Handler(t)

Spec == Init /\ [][Next]_vars

\* Every thread of the process runs when it can.  The SCM sends what it likes.
FairSpec == /\ Spec /\ WF_vars(Main)
            /\ WF_vars(ServiceMain) /\ WF_vars(DispatcherReturns)
            /\ \A t \in Threads : WF_vars(Handler(t))

-----------------------------------------------------------------------------
(* Properties *)

LC == INSTANCE ServiceLifecycle WITH told <- scm

\* The SCM never records a final state whose callback has not run, callbacks
\* come in a legal order, and no state follows STOP_PENDING but STOPPED,
\* whatever the three threads interleave (qtservice_win.cpp:603-660, 842).  Two
\* late reports are part of the promise: the one for the last control may come
\* after STOPPED, and once serviceMain's is overtaken by a control only the order
\* of the callbacks is left (qtservice_win.cpp:657-659).
ImplementsLifecycle == LC!Spec

\* Nobody waits for an event loop that has ended, and nothing was posted to a
\* controllerHandler that does not exist: STOP_PENDING keeps further controls
\* away, and serviceMain waits for the application (qtservice_win.cpp:553-554,
\* 616-621, 836-838).  It takes that serviceMain's report is not overtaken: an
\* old RUNNING on record lets controls in again (qtservice_win.cpp:659).
NobodyWaitsInVain ==
  ~overtaken =>
  /\ main \notin {"exec", "wake"} => queue = <<>>
  /\ main \in {"acquire", "create", "stopped", "join"}
     => \A t \in Threads : hpc[t] \notin {"post", "wait", "waiting"}

\* The two waiters never share the condition, so wakeAll wakes the one whose
\* event was handled (qtservice_win.cpp:612-613, 596-598).
WakesItsOwn ==
  \A t \in Threads :
    hpc[t] = "waiting" => \/ queue = <<code[t]>> /\ main # "wake"
                          \/ queue = <<>> /\ main = "wake"

\* Every request that is made of the main thread is answered: the wake-up is
\* not lost (qtservice_win.cpp:568-573).
Answered == \A t \in Threads : hpc[t] \in {"lock", "post", "wait", "waiting"} /\ Alive
                               ~> hpc[t] = "idle" \/ ~Alive

\* A stop or shutdown that was accepted brings STOPPED on record at the SCM
\* ("status will be reported as stopped by start() when qapp::exec returns",
\* qtservice_win.cpp:620), or at least the end of the process when serviceMain's
\* report was overtaken.
StopTakesEffect ==
  code["ht"] \in {"stop", "shutdown"} /\ hpc["ht"] # "idle"
  ~> scm = "STOPPED" \/ (overtaken /\ main = "gone")
=============================================================================
