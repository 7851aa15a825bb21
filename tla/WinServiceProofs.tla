-------------------------- MODULE WinServiceProofs --------------------------
(***************************************************************************)
(* Proofs about WinService, for every set of controls and any number of    *)
(* them: type correctness, the discipline of the condition variable, and   *)
(* that what the service manager is told implements ServiceLifecycle.      *)
(*                                                                         *)
(* The argument: serviceMain does its whole startup before the first       *)
(* control is sent, since START_PENDING is on record until then; hence the *)
(* two handlers are never at the condition together, and the queue holds   *)
(* at most the event of the one that is (Rendezvous).  What is on record   *)
(* keeps controls from a service that stops, so that the main thread is in *)
(* its loop to take the event (OnTime); this ends when the last report of  *)
(* serviceMain, read without the mutex, comes after a control's.           *)
(*                                                                         *)
(* The second part is about WinControl, the service with its controllers:  *)
(* for any number of calls under way and of starts, what a controller is   *)
(* told was done was done.  The inductive invariant of the first part      *)
(* holds there too, through the end of a process and the start of the      *)
(* next.                                                                   *)
(***************************************************************************)
EXTENDS WinControl, TLAPS

\* Where serviceMain stands until it has reported RUNNING, and where it stands
\* until its first look at the state.
Early   == {"none", "acquire", "lock"}
Startup == Early \cup {"post", "wait", "waiting", "woken"}

\* Where a thread waits for its event to be handled.
Asking == {"wait", "waiting"}

\* The threads exist once the dispatcher has connected, and the application
\* before serviceMain goes on.
Existence ==
  /\ \A t \in Threads : hpc[t] = "none" <=> dispatcher \in {"new", "failed"}
  /\ hpc["ht"] # "acquire" /\ code["sm"] = "startup"
  /\ hpc["ht"] \notin {"none", "idle"} => code["ht"] \in Codes
  /\ startSemaphore2 > 0 \/ hpc["sm"] \notin {"none", "acquire"}
     => main \notin {"acquire", "create"}
  /\ main \in {"stopped", "join"} => quit

\* The mutex is held between lock and wait, and between the wake-up and unlock.
Exclusion == \A t \in Threads : mutex = t <=> hpc[t] \in {"post", "wait", "final"}

\* No control is handled while serviceMain is in its startup.
StartupFirst ==
  /\ hpc["sm"] \in Startup => /\ hpc["ht"] \in {"none", "idle"} /\ ~quit
                              /\ scm = "START_PENDING"
  /\ hpc["sm"] \in Early => status = "STOPPED" /\ app = "created"
  /\ hpc["sm"] \in Startup \ Early => status = "START_PENDING"
  /\ hpc["sm"] = "post" \/ (hpc["sm"] \in Asking /\ main = "exec") => app = "created"
  /\ hpc["sm"] = "woken" \/ (hpc["sm"] \in Asking /\ main = "wake") => app = "running"
  /\ hpc["sm"] \notin Startup => app # "created"

\* A thread at the condition has its event in the queue, or it was handled and
\* the wake-up is to come; otherwise the queue is empty.
Rendezvous ==
  /\ \A t \in Threads : hpc[t] = "post" => queue = <<>> /\ main # "wake"
  /\ \A t \in Threads :
       hpc[t] \in Asking => \/ main # "wake" /\ queue = <<code[t]>>
                            \/ main = "wake" /\ queue = <<>>
  /\ (\A t \in Threads : hpc[t] \notin Asking) => queue = <<>> /\ main # "wake"

\* What the callbacks have done: the one asked for when the handler goes on, and
\* stop() before STOPPED is written, read or recorded.
Callbacks ==
  /\ quit <=> app = "stopped"
  /\ hpc["ht"] = "woken" \/ (hpc["ht"] \in Asking /\ main = "wake") =>
       /\ code["ht"] = "pause"    => app = "paused"
       /\ code["ht"] = "continue" => app = "running"
  /\ status = "STOPPED" => app = "stopped" \/ hpc["sm"] \in Early
  /\ scm = "STOPPED" => app = "stopped"
  /\ \A t \in Threads : hpc[t] = "sending" /\ report[t] = "STOPPED" => app = "stopped"

\* Whoever asks something of the main thread finds it in its loop.
InLoop ==
  \A t \in Threads : hpc[t] \in {"post"} \cup Asking
                      => main = "wake" \/ (main = "exec" /\ ~quit)

\* What is on record while a control is handled, and that none is sent to a
\* service which has stopped.
OnRecord ==
  /\ scm # status => status = "STOPPED"
  /\ hpc["ht"] = "lock" => scm \notin {"STOPPED", "START_PENDING", "STOP_PENDING"} /\ ~quit
  /\ hpc["ht"] \in {"post", "wait", "waiting", "woken"} =>
       /\ code["ht"] = "pause"    => status = "PAUSE_PENDING"
       /\ code["ht"] = "continue" => status = "CONTINUE_PENDING"
       /\ code["ht"] = "stop"     => /\ status \in {"STOP_PENDING", "STOPPED"}
                                     /\ scm \in {"STOP_PENDING", "STOPPED"}
  /\ hpc["ht"] \notin {"none", "idle"} /\ code["ht"] = "shutdown" => goingDown
  /\ hpc["ht"] = "sending" =>
       \/ report["ht"] = status
       \/ /\ status = "STOPPED" /\ report["ht"] \in {"STOP_PENDING", "RUNNING", "PAUSED"}
          /\ goingDown \/ report["ht"] = "STOP_PENDING"
          /\ scm \in {"STOPPED", report["ht"]}
  /\ hpc["sm"] \notin Startup
     /\ (hpc["ht"] \in {"post", "wait", "waiting", "woken"} => code["ht"] \notin {"pause", "continue"})
     => status \in {"RUNNING", "PAUSED", "STOP_PENDING", "STOPPED"}
  /\ quit => \/ goingDown
             \/ status \in {"STOP_PENDING", "STOPPED"} /\ scm \in {"STOP_PENDING", "STOPPED"}

\* What rests on the record holds until a report is overtaken.
OnTime == ~overtaken => InLoop /\ OnRecord

Running == Existence /\ Exclusion /\ StartupFirst /\ Callbacks /\ OnTime

\* A process that has ended leaves nobody at the condition.
Ended == queue = <<>> /\ \A t \in Threads : hpc[t] \notin {"post", "wait", "waiting"}

IInv ==
  /\ TypeOK /\ Rendezvous
  /\ Alive => Running
  /\ ~Alive /\ ~overtaken => Ended

-----------------------------------------------------------------------------
(* Lemmas *)

\* The queue holds one event at most.
LEMMA OneEvent ==
  ASSUME NEW c
  PROVE  /\ Append(<<>>, c) = <<c>> /\ <<c>> # <<>>
         /\ Head(<<c>>) = c /\ Tail(<<c>>) = <<>>
OBVIOUS

\* With nobody at the condition, what holds while the process runs holds of one
\* that has just ended.
LEMMA RunningEnds == TypeOK /\ Rendezvous /\ Running => IInv
BY DEF IInv, Running, Rendezvous, OnTime, InLoop, Ended, Alive, Asking

LEMMA InitIInv == Init => IInv
<1> SUFFICES ASSUME Init PROVE IInv  OBVIOUS
<1>1. TypeOK
  <2>1. 0 \in 0..MaxControls /\ <<>> \in Seq(Codes \cup {"startup"})
    BY WinServiceAssumption
  <2> QED  BY <2>1 DEF Init, TypeOK, ServiceStates
<1>2. Running
  BY DEF Init, Running, Existence, Exclusion, StartupFirst, Callbacks, OnTime, InLoop, OnRecord,
         Threads, Free, Early, Startup, Asking
<1>3. Rendezvous
  BY DEF Init, Rendezvous, Threads, Asking
<1> QED  BY <1>1, <1>2, <1>3 DEF IInv, Init, Alive

\* The main thread
LEMMA MainIInv ==
  /\ IInv
  /\ \/ Acquire \/ AcquireTimesOut \/ CreateApplication \/ HandleEvent
     \/ WakeAll \/ LeaveLoop \/ ReportStopped \/ Cleanup
  => IInv'
<1> SUFFICES ASSUME IInv,
                    \/ Acquire \/ AcquireTimesOut \/ CreateApplication \/ HandleEvent
                    \/ WakeAll \/ LeaveLoop \/ ReportStopped \/ Cleanup
             PROVE  IInv'
  OBVIOUS
<1> USE DEF Threads, Free, Early, Startup, Asking, At, Step
<1>0. TypeOK /\ Rendezvous /\ (Alive => Running)
  BY DEF IInv
<1>1. CASE Acquire
  <2>0. Alive /\ Running
    BY <1>0, <1>1 DEF Acquire, Alive
  <2>1. TypeOK'
    BY <1>0, <1>1 DEF Acquire, TypeOK, loop, states, system
  <2>2. Existence'
    BY <1>1, <2>0 DEF Acquire, Running, Existence
  <2>3. Exclusion'
    BY <1>1, <2>0 DEF Acquire, Running, Exclusion
  <2>4. StartupFirst'
    BY <1>1, <2>0 DEF Acquire, Running, StartupFirst, loop, states
  <2>5. Rendezvous'
    BY <1>0, <1>1, <2>0 DEF Acquire, Running, Rendezvous, loop
  <2>6. OnTime'
    BY <1>1, <2>0 DEF Acquire, Running, OnTime, InLoop, OnRecord, loop, states, system
  <2>7. Callbacks'
    BY <1>1, <2>0 DEF Acquire, Running, Callbacks, loop, states, system
  <2>8. Running'
    BY <2>2, <2>3, <2>4, <2>6, <2>7 DEF Running
  <2> QED  BY <2>1, <2>5, <2>8, RunningEnds, PTL
<1>2. CASE AcquireTimesOut
  <2>0. Alive /\ Running
    BY <1>0, <1>2 DEF AcquireTimesOut, Alive
  <2>1. TypeOK'
    BY <1>0, <1>2 DEF AcquireTimesOut, TypeOK, loop, states, system, semaphores
  <2>2. Existence'
    BY <1>2, <2>0 DEF AcquireTimesOut, Running, Existence
  <2>3. Exclusion'
    BY <1>2, <2>0 DEF AcquireTimesOut, Running, Exclusion
  <2>4. StartupFirst'
    BY <1>2, <2>0 DEF AcquireTimesOut, Running, StartupFirst, loop, states
  <2>5. Rendezvous'
    BY <1>0, <1>2, <2>0 DEF AcquireTimesOut, Running, Rendezvous, loop
  <2>6. OnTime'
    BY <1>2, <2>0 DEF AcquireTimesOut, Running, OnTime, InLoop, OnRecord, loop, states, system
  <2>7. Callbacks'
    BY <1>2, <2>0 DEF AcquireTimesOut, Running, Callbacks, loop, states, system
  <2>8. Running'
    BY <2>2, <2>3, <2>4, <2>6, <2>7 DEF Running
  <2> QED  BY <2>1, <2>5, <2>8, RunningEnds, PTL
<1>3. CASE CreateApplication
  <2>0. Alive /\ Running
    BY <1>0, <1>3 DEF CreateApplication, Alive
  <2>1. TypeOK'
    BY <1>0, <1>3 DEF CreateApplication, TypeOK, loop, states, system
  <2>2. Existence'
    BY <1>3, <2>0 DEF CreateApplication, Running, Existence
  <2>3. Exclusion'
    BY <1>3, <2>0 DEF CreateApplication, Running, Exclusion
  <2>4. StartupFirst'
    BY <1>3, <2>0 DEF CreateApplication, Running, Existence, StartupFirst, loop, states
  <2>5. Rendezvous'
    BY <1>0, <1>3, <2>0 DEF CreateApplication, Running, Rendezvous, loop
  <2>6. OnTime'
    BY <1>3, <2>0 DEF CreateApplication, Running, OnTime, InLoop, OnRecord, loop, states, system
  <2>7. Callbacks'
    BY <1>3, <2>0 DEF CreateApplication, Running, Callbacks, loop, states, system
  <2>8. Running'
    BY <2>2, <2>3, <2>4, <2>6, <2>7 DEF Running
  <2> QED  BY <2>1, <2>5, <2>8, RunningEnds, PTL
<1>4. CASE HandleEvent
  <2>0. Alive /\ Running
    BY <1>0, <1>4 DEF HandleEvent, Alive
  <2>a. PICK t \in Threads : hpc[t] \in Asking /\ queue = <<code[t]>> /\ ~quit
    BY <1>0, <1>4, <2>0 DEF HandleEvent, Running, Rendezvous
  <2>b. queue' = <<>> /\ Head(queue) = code[t] /\ queue' \in Seq(Codes \cup {"startup"})
    BY <1>4, <2>a, OneEvent DEF HandleEvent
  <2>1. TypeOK'
    BY <1>0, <1>4 DEF HandleEvent, Callback, TypeOK, states, system, semaphores
  <2>2. Existence'
    BY <1>4, <2>0 DEF HandleEvent, Running, Existence
  <2>3. Exclusion'
    BY <1>4, <2>0 DEF HandleEvent, Running, Exclusion
  <2>4. StartupFirst'
    BY <1>4, <2>0, <2>a, <2>b DEF HandleEvent, Callback, TypeOK, Running, Existence,
       StartupFirst, states
  <2>5. Rendezvous'
    BY <1>0, <1>4, <2>0, <2>b DEF HandleEvent, Running, Rendezvous
  <2>6. OnTime'
    <3> SUFFICES ASSUME ~overtaken' PROVE InLoop' /\ OnRecord'
      BY DEF OnTime
    <3>1. InLoop /\ OnRecord
      BY <1>4, <2>0 DEF HandleEvent, Running, OnTime, states
    <3>2. InLoop'
      BY <1>0, <1>4, <2>0, <3>1, <2>a DEF HandleEvent, TypeOK, Running, InLoop, loop
    <3>3. OnRecord'
      BY <1>0, <1>4, <2>0, <3>1, <2>a, <2>b DEF HandleEvent, TypeOK, Running, Existence,
         StartupFirst, OnRecord, states, system
    <3> QED  BY <3>2, <3>3
  <2>7. Callbacks'
    BY <1>0, <1>4, <2>0, <2>a, <2>b DEF HandleEvent, Callback, TypeOK, Running, Existence,
       StartupFirst, OnRecord, Callbacks, states, system
  <2>8. Running'
    BY <2>2, <2>3, <2>4, <2>6, <2>7 DEF Running
  <2> QED  BY <2>1, <2>5, <2>8, RunningEnds, PTL
<1>5. CASE WakeAll
  <2>0. Alive /\ Running
    BY <1>0, <1>5 DEF WakeAll, Alive
  <2>1. TypeOK'
    BY <1>0, <1>5 DEF WakeAll, TypeOK, loop, states, system, semaphores
  <2>2. Existence'
    BY <1>5, <2>0 DEF WakeAll, Running, Existence
  <2>3. Exclusion'
    BY <1>5, <2>0 DEF WakeAll, Running, Exclusion
  <2>4. StartupFirst'
    BY <1>5, <2>0 DEF WakeAll, Running, Exclusion, StartupFirst, loop, states
  <2>5. Rendezvous'
    BY <1>0, <1>5, <2>0 DEF WakeAll, Running, Exclusion, Rendezvous, loop
  <2>6. OnTime'
    <3> SUFFICES ASSUME ~overtaken' PROVE InLoop' /\ OnRecord'
      BY DEF OnTime
    <3>1. InLoop /\ OnRecord
      BY <1>5, <2>0 DEF WakeAll, Running, OnTime, states
    <3>2. InLoop'
      BY <1>0, <1>5, <2>0, <3>1 DEF WakeAll, TypeOK, Running, Exclusion, InLoop, loop
    <3>3. OnRecord'
      BY <1>0, <1>5, <2>0, <3>1 DEF WakeAll, TypeOK, Running, OnRecord, loop, states, system
    <3> QED  BY <3>2, <3>3
  <2>7. Callbacks'
    BY <1>5, <2>0 DEF WakeAll, Running, Callbacks, loop, states, system
  <2>8. Running'
    BY <2>2, <2>3, <2>4, <2>6, <2>7 DEF Running
  <2> QED  BY <2>1, <2>5, <2>8, RunningEnds, PTL
<1>6. CASE LeaveLoop
  <2>0. Alive /\ Running
    BY <1>0, <1>6 DEF LeaveLoop, Alive
  <2>1. TypeOK'
    BY <1>0, <1>6 DEF LeaveLoop, TypeOK, ServiceStates, loop, system, semaphores
  <2>2. Existence'
    BY <1>6, <2>0 DEF LeaveLoop, Running, Existence, loop
  <2>3. Exclusion'
    BY <1>6, <2>0 DEF LeaveLoop, Running, Exclusion
  <2>4. StartupFirst'
    BY <1>6, <2>0 DEF LeaveLoop, Running, StartupFirst, loop
  <2>5. Rendezvous'
    BY <1>0, <1>6, <2>0 DEF LeaveLoop, Running, Rendezvous, loop
  <2>6. OnTime'
    <3> SUFFICES ASSUME ~overtaken' PROVE InLoop' /\ OnRecord'
      BY DEF OnTime
    <3>1. InLoop /\ OnRecord
      BY <1>6, <2>0 DEF LeaveLoop, Running, OnTime, states
    <3>2. InLoop'
      BY <1>0, <1>6, <2>0, <3>1 DEF LeaveLoop, TypeOK, Running, InLoop, loop
    <3>3. OnRecord'
      BY <1>0, <1>6, <2>0, <3>1 DEF LeaveLoop, TypeOK, Running, StartupFirst, InLoop, OnRecord,
         Callbacks, loop, system
    <3> QED  BY <3>2, <3>3
  <2>7. Callbacks'
    BY <1>6, <2>0 DEF LeaveLoop, Running, Callbacks, loop, system
  <2>8. Running'
    BY <2>2, <2>3, <2>4, <2>6, <2>7 DEF Running
  <2> QED  BY <2>1, <2>5, <2>8, RunningEnds, PTL
<1>7. CASE ReportStopped
  <2>0. Alive /\ Running
    BY <1>0, <1>7 DEF ReportStopped, Alive
  <2>1. TypeOK'
    BY <1>0, <1>7 DEF ReportStopped, TypeOK, loop, system, semaphores
  <2>2. Existence'
    BY <1>7, <2>0 DEF ReportStopped, Running, Existence, loop
  <2>3. Exclusion'
    BY <1>7, <2>0 DEF ReportStopped, Running, Exclusion
  <2>4. StartupFirst'
    BY <1>7, <2>0 DEF ReportStopped, Running, Existence, StartupFirst, loop
  <2>5. Rendezvous'
    BY <1>0, <1>7, <2>0 DEF ReportStopped, Running, Rendezvous, loop
  <2>6. OnTime'
    BY <1>7, <2>0 DEF ReportStopped, Running, StartupFirst, OnTime, InLoop, OnRecord, Callbacks, loop,
       system
  <2>7. Callbacks'
    BY <1>7, <2>0 DEF ReportStopped, Running, Existence, Callbacks, loop, system
  <2>8. Running'
    BY <2>2, <2>3, <2>4, <2>6, <2>7 DEF Running
  <2> QED  BY <2>1, <2>5, <2>8, RunningEnds, PTL
<1>8. CASE Cleanup
  <2>0. Alive /\ Running
    BY <1>0, <1>8 DEF Cleanup, Alive
  <2>1. TypeOK'
    BY <1>0, <1>8 DEF Cleanup, TypeOK, loop, states, system, semaphores
  <2>2. Existence'
    BY <1>8, <2>0 DEF Cleanup, Running, Existence
  <2>3. Exclusion'
    BY <1>8, <2>0 DEF Cleanup, Running, Exclusion
  <2>4. StartupFirst'
    BY <1>8, <2>0 DEF Cleanup, Running, StartupFirst, loop, states
  <2>5. Rendezvous'
    BY <1>0, <1>8, <2>0 DEF Cleanup, Running, Rendezvous, loop
  <2>6. OnTime'
    BY <1>8, <2>0 DEF Cleanup, Running, OnTime, InLoop, OnRecord, loop, states, system
  <2>7. Callbacks'
    BY <1>8, <2>0 DEF Cleanup, Running, Callbacks, loop, states, system
  <2>8. Running'
    BY <2>2, <2>3, <2>4, <2>6, <2>7 DEF Running
  <2> QED  BY <2>1, <2>5, <2>8, RunningEnds, PTL
<1> QED  BY <1>1, <1>2, <1>3, <1>4, <1>5, <1>6, <1>7, <1>8

\* The dispatcher
LEMMA SystemIInv ==
  IInv /\ (Connect \/ ConnectFails \/ DispatcherReturns \/ ServiceMain) => IInv'
<1> SUFFICES ASSUME IInv, Connect \/ ConnectFails \/ DispatcherReturns \/ ServiceMain PROVE IInv'  OBVIOUS
<1> USE DEF Threads, Free, Early, Startup, Asking, At, Step
<1>0. TypeOK /\ Rendezvous /\ (Alive => Running)
  BY DEF IInv
<1>1. CASE Connect
  <2>0. Alive /\ Running
    BY <1>0, <1>1 DEF Connect, Alive
  <2>1. TypeOK'
    BY <1>0, <1>1 DEF Connect, TypeOK, loop, states, system
  <2>2. Existence'
    BY <1>0, <1>1 DEF Connect, TypeOK, Running, Existence, loop
  <2>3. Exclusion'
    BY <1>0, <1>1 DEF Connect, TypeOK, Running, Existence, Exclusion
  <2>4. StartupFirst'
    BY <1>0, <1>1 DEF Connect, TypeOK, Running, Existence, StartupFirst, loop, states
  <2>5. Rendezvous'
    BY <1>0, <1>1 DEF Connect, TypeOK, Running, Existence, Rendezvous, loop
  <2>6. OnTime'
    <3> SUFFICES ASSUME ~overtaken' PROVE InLoop' /\ OnRecord'
      BY DEF OnTime
    <3>1. InLoop /\ OnRecord
      BY <1>1, <2>0 DEF Connect, Running, OnTime, states
    <3>2. InLoop'
      BY <1>0, <1>1, <2>0, <3>1 DEF Connect, TypeOK, Running, InLoop, loop
    <3>3. OnRecord'
      BY <1>0, <1>1, <2>0, <3>1 DEF Connect, TypeOK, Running, Existence, OnRecord,
         loop, states, system
    <3> QED  BY <3>2, <3>3
  <2>7. Callbacks'
    BY <1>0, <1>1 DEF Connect, TypeOK, Running, Callbacks, loop, states, system
  <2>8. Running'
    BY <2>2, <2>3, <2>4, <2>6, <2>7 DEF Running
  <2> QED  BY <2>1, <2>5, <2>8, RunningEnds, PTL
<1>2. CASE ConnectFails
  <2>0. Alive /\ Running
    BY <1>0, <1>2 DEF ConnectFails, Alive
  <2>1. TypeOK'
    BY <1>0, <1>2 DEF ConnectFails, TypeOK, loop, states, system
  <2>2. Existence'
    BY <1>2, <2>0 DEF ConnectFails, Running, Existence, loop
  <2>3. Exclusion'
    BY <1>2, <2>0 DEF ConnectFails, Running, Exclusion
  <2>4. StartupFirst'
    BY <1>2, <2>0 DEF ConnectFails, Running, StartupFirst, loop, states
  <2>5. Rendezvous'
    BY <1>0, <1>2, <2>0 DEF ConnectFails, Running, Rendezvous, loop
  <2>6. OnTime'
    BY <1>2, <2>0 DEF ConnectFails, Running, OnTime, InLoop, OnRecord, loop, states, system
  <2>7. Callbacks'
    BY <1>2, <2>0 DEF ConnectFails, Running, Callbacks, loop, states, system
  <2>8. Running'
    BY <2>2, <2>3, <2>4, <2>6, <2>7 DEF Running
  <2> QED  BY <2>1, <2>5, <2>8, RunningEnds, PTL
<1>3. CASE DispatcherReturns
  <2>0. Alive /\ Running
    BY <1>0, <1>3 DEF DispatcherReturns, Alive
  <2>1. TypeOK'
    BY <1>0, <1>3 DEF DispatcherReturns, TypeOK, loop, states, system, semaphores
  <2>2. Existence'
    BY <1>3, <2>0 DEF DispatcherReturns, Running, Existence, loop, semaphores
  <2>3. Exclusion'
    BY <1>3, <2>0 DEF DispatcherReturns, Running, Exclusion
  <2>4. StartupFirst'
    BY <1>3, <2>0 DEF DispatcherReturns, Running, StartupFirst, loop
  <2>5. Rendezvous'
    BY <1>0, <1>3, <2>0 DEF DispatcherReturns, Running, Rendezvous, loop
  <2>6. OnTime'
    <3> SUFFICES ASSUME ~overtaken' PROVE InLoop' /\ OnRecord'
      BY DEF OnTime
    <3>1. InLoop /\ OnRecord
      BY <1>3, <2>0 DEF DispatcherReturns, Running, OnTime, states
    <3>2. InLoop'
      BY <1>0, <1>3, <2>0, <3>1 DEF DispatcherReturns, TypeOK, Running, InLoop, loop
    <3>3. OnRecord'
      BY <1>0, <1>3, <2>0, <3>1 DEF DispatcherReturns, TypeOK, Running, OnRecord,
         loop, states, system
    <3> QED  BY <3>2, <3>3
  <2>7. Callbacks'
    BY <1>3, <2>0 DEF DispatcherReturns, Running, Callbacks, loop, states, system
  <2>8. Running'
    BY <2>2, <2>3, <2>4, <2>6, <2>7 DEF Running
  <2> QED  BY <2>1, <2>5, <2>8, RunningEnds, PTL
<1>4. CASE ServiceMain
  <2>0. Alive /\ Running
    BY <1>0, <1>4 DEF ServiceMain, Alive
  <2>1. TypeOK'
    BY <1>0, <1>4 DEF ServiceMain, TypeOK, loop, states, system
  <2>2. Existence'
    BY <1>4, <2>0 DEF ServiceMain, Running, Existence, loop
  <2>3. Exclusion'
    BY <1>4, <2>0 DEF ServiceMain, Running, Exclusion
  <2>4. StartupFirst'
    BY <1>4, <2>0 DEF ServiceMain, Running, StartupFirst, loop, states
  <2>5. Rendezvous'
    BY <1>0, <1>4, <2>0 DEF ServiceMain, Running, Rendezvous, loop
  <2>6. OnTime'
    BY <1>4, <2>0 DEF ServiceMain, Running, OnTime, InLoop, OnRecord, loop, states, system
  <2>7. Callbacks'
    BY <1>4, <2>0 DEF ServiceMain, Running, Callbacks, loop, states, system
  <2>8. Running'
    BY <2>2, <2>3, <2>4, <2>6, <2>7 DEF Running
  <2> QED  BY <2>1, <2>5, <2>8, RunningEnds, PTL
<1> QED  BY <1>1, <1>2, <1>3, <1>4

\* handler
LEMMA HandlerIInv == ASSUME IInv, NEW t \in Threads, Handler(t) PROVE IInv'
<1> USE DEF Threads, Free, Early, Startup, Asking, At, Step
<1>0. TypeOK /\ Rendezvous /\ (Alive => Running)
  BY DEF IInv
<1>1. CASE Lock(t)
  <2>0. Alive /\ Running
    BY <1>0, <1>1 DEF Lock, Alive
  <2>1. TypeOK'
    BY <1>0, <1>1 DEF Lock, setStatus, Before, TypeOK, ServiceStates, loop, states, system, semaphores
  <2>2. Existence'
    BY <1>1, <2>0 DEF Lock, Running, Existence, loop, semaphores
  <2>3. Exclusion'
    BY <1>0, <1>1 DEF Lock, TypeOK, Running, Exclusion
  <2>4. StartupFirst'
    BY <1>0, <1>1 DEF Lock, setStatus, Before, TypeOK, Running, Existence, StartupFirst,
       loop
  <2>a. t = "ht" => hpc["sm"] \notin Startup
    BY <1>1, <2>0 DEF Lock, Running, StartupFirst
  <2>b. t = "sm" => hpc["ht"] \in {"none", "idle"} /\ ~quit
    BY <1>1, <2>0 DEF Lock, Running, StartupFirst
  <2>c. \A u \in Threads : hpc[u] \notin Asking
    BY <1>1, <2>a, <2>b DEF Lock
  <2>d. queue = <<>> /\ main # "wake"
    BY <1>0, <2>c DEF Rendezvous
  <2>5. Rendezvous'
    BY <1>0, <1>1, <2>c, <2>d DEF Lock, Rendezvous, loop
  <2>6. OnTime'
    <3> SUFFICES ASSUME ~overtaken' PROVE InLoop' /\ OnRecord'
      BY DEF OnTime
    <3>0. ~overtaken /\ InLoop /\ OnRecord
      BY <1>1, <2>0 DEF Lock, setStatus, states, Running, OnTime
    <3>1. main = "exec" /\ ~quit
      <4>1. ~quit
        BY <1>1, <2>b, <3>0 DEF Lock, OnRecord
      <4>2. main \notin {"acquire", "create", "stopped", "join"}
        BY <1>1, <2>0, <2>a, <4>1 DEF Lock, Running, Existence
      <4> QED  BY <1>0, <2>0, <2>d, <4>1, <4>2 DEF TypeOK, Alive
    <3>2. InLoop'
      BY <1>1, <3>0, <3>1 DEF Lock, InLoop, loop
    <3>3. /\ UNCHANGED <<code, quit, goingDown, report>> /\ hpc[t] = "lock"
          /\ hpc'[t] \in {"post", "final"} /\ \A u \in Threads \ {t} : hpc'[u] = hpc[u]
          /\ code["sm"] = "startup" /\ code["ht"] \in Codes \cup {"startup"}
          /\ hpc'[t] = "final" => code[t] = "interrogate"
      BY <1>0, <1>1, <2>0 DEF Lock, setStatus, TypeOK, Running, Existence, loop, states, system
    <3>4. CASE t = "sm"
      <4>1. status' = "START_PENDING" /\ scm' = status'
        BY <1>1, <3>3, <3>4 DEF Lock, setStatus, Before
      <4>2. hpc'["sm"] \in Startup /\ hpc'["ht"] \in {"none", "idle"} /\ ~quit'
        BY <2>b, <3>3, <3>4, <3>1
      <4> QED  BY <3>2, <4>1, <4>2 DEF OnRecord
    <3>5. CASE t = "ht" /\ code[t] \in {"pause", "continue", "stop"}
      <4>1. /\ status' = Before[code["ht"]] /\ scm' = status'
            /\ hpc'["ht"] = "post" /\ hpc'["sm"] = hpc["sm"]
        BY <1>1, <3>3, <3>5 DEF Lock, setStatus, Before
      <4>2. ~quit' /\ UNCHANGED code /\ code["ht"] \in {"pause", "continue", "stop"}
        BY <3>1, <3>3, <3>5
      <4> QED  BY <3>2, <4>1, <4>2 DEF OnRecord, Before
    <3>6. CASE t = "ht" /\ code[t] \notin {"pause", "continue", "stop"}
      <4>1. code[t] # "startup"
        BY <2>0, <3>3, <3>6 DEF Running, Existence, Codes
      <4>2. UNCHANGED <<status, scm>> /\ hpc'["sm"] = hpc["sm"]
        BY <1>1, <3>3, <3>6, <4>1 DEF Lock, setStatus, Before, states
      <4>3. /\ ~quit' /\ UNCHANGED <<code, goingDown>> /\ hpc["ht"] = "lock"
            /\ hpc'["ht"] \in {"post", "final"}
        BY <3>1, <3>3, <3>6
      <4> QED  BY <3>2, <3>0, <3>6, <4>2, <4>3 DEF OnRecord
    <3> QED  BY <3>2, <3>4, <3>5, <3>6
  <2>7. Callbacks'
    <3>1. hpc'["ht"] \in {"woken"} \cup Asking => UNCHANGED <<hpc["ht"], code, main>>
      BY <1>0, <1>1 DEF Lock, TypeOK
    <3>2. \A u \in Threads : hpc'[u] = "sending" => hpc[u] = "sending" /\ UNCHANGED report
      BY <1>0, <1>1 DEF Lock, setStatus, states, TypeOK
    <3>3. UNCHANGED <<app, quit>>
      BY <1>1 DEF Lock, loop
    <3>4. status' = "STOPPED" => status = "STOPPED" /\ hpc["sm"] \notin {"lock"}
      BY <1>1, <2>0 DEF Lock, setStatus, Before, Running, Existence, StartupFirst, states
    <3>5. scm' = "STOPPED" => scm = "STOPPED"
      BY <1>1 DEF Lock, setStatus, Before, states
    <3>6. hpc["sm"] \in Early \ {"lock"} => hpc'["sm"] \in Early
      BY <1>0, <1>1 DEF Lock, TypeOK
    <3> QED  BY <2>0, <3>1, <3>2, <3>3, <3>4, <3>5, <3>6 DEF Running, Callbacks
  <2>8. Running'
    BY <2>2, <2>3, <2>4, <2>6, <2>7 DEF Running
  <2> QED  BY <2>1, <2>5, <2>8, RunningEnds, PTL
<1>2. CASE Post(t)
  <2>0. Alive /\ Running
    BY <1>0, <1>2 DEF Post, Alive
  <2>1. TypeOK'
    BY <1>0, <1>2 DEF Post, TypeOK, states, system, semaphores
  <2>2. Existence'
    BY <1>2, <2>0 DEF Post, Running, Existence, semaphores
  <2>3. Exclusion'
    BY <1>2, <2>0 DEF Post, Running, Exclusion
  <2>4. StartupFirst'
    BY <1>0, <1>2, <2>0 DEF Post, Running, StartupFirst, Rendezvous, states
  <2>5. Rendezvous'
    BY <1>0, <1>2, <2>0, OneEvent DEF Post, TypeOK, Running, Existence, Exclusion,
       StartupFirst, Rendezvous, system
  <2>6. OnTime'
    BY <1>2, <2>0 DEF Post, Running, OnTime, InLoop, OnRecord, states, system
  <2>7. Callbacks'
    BY <1>0, <1>2, <2>0 DEF Post, Running, Rendezvous, Callbacks, states
  <2>8. Running'
    BY <2>2, <2>3, <2>4, <2>6, <2>7 DEF Running
  <2> QED  BY <2>1, <2>5, <2>8, RunningEnds, PTL
<1>3. CASE Wait(t)
  <2>0. Alive /\ Running
    BY <1>0, <1>3 DEF Wait, Alive
  <2>1. TypeOK'
    BY <1>0, <1>3 DEF Wait, TypeOK, loop, states, system, semaphores
  <2>2. Existence'
    BY <1>3, <2>0 DEF Wait, Running, Existence, loop, semaphores
  <2>3. Exclusion'
    BY <1>0, <1>3 DEF Wait, TypeOK, Running, Exclusion
  <2>4. StartupFirst'
    BY <1>3, <2>0 DEF Wait, Running, StartupFirst, loop, states
  <2>5. Rendezvous'
    BY <1>0, <1>3, <2>0 DEF Wait, Running, Rendezvous, loop
  <2>6. OnTime'
    BY <1>3, <2>0 DEF Wait, Running, OnTime, InLoop, OnRecord, loop, states, system
  <2>7. Callbacks'
    BY <1>3, <2>0 DEF Wait, Running, Callbacks, loop, states, system
  <2>8. Running'
    BY <2>2, <2>3, <2>4, <2>6, <2>7 DEF Running
  <2> QED  BY <2>1, <2>5, <2>8, RunningEnds, PTL
<1>4. CASE Relock(t)
  <2>0. Alive /\ Running
    BY <1>0, <1>4 DEF Relock, Alive
  <2>1. TypeOK'
    BY <1>0, <1>4 DEF Relock, setStatus, After, TypeOK, ServiceStates, loop, states, system, semaphores
  <2>2. Existence'
    BY <1>4, <2>0 DEF Relock, Running, Existence, loop, semaphores
  <2>3. Exclusion'
    BY <1>0, <1>4 DEF Relock, TypeOK, Running, Exclusion
  <2>4. StartupFirst'
    BY <1>0, <1>4 DEF Relock, TypeOK, Running, StartupFirst, loop
  <2>5. Rendezvous'
    BY <1>0, <1>4, <2>0 DEF Relock, Running, Rendezvous, loop
  <2>6. OnTime'
    <3> SUFFICES ASSUME ~overtaken' PROVE InLoop' /\ OnRecord'
      BY DEF OnTime
    <3>1. InLoop /\ OnRecord
      BY <1>4, <2>0 DEF Relock, setStatus, Running, OnTime, states
    <3>2. InLoop'
      BY <1>0, <1>4, <2>0, <3>1 DEF Relock, TypeOK, Running, InLoop, loop
    <3>3. /\ UNCHANGED <<code, quit, goingDown, report>> /\ hpc[t] = "woken"
          /\ hpc'[t] = "final" /\ \A u \in Threads \ {t} : hpc'[u] = hpc[u]
          /\ code["sm"] = "startup" /\ code["ht"] \in Codes \cup {"startup"}
      BY <1>0, <1>4, <2>0 DEF Relock, setStatus, TypeOK, Running, Existence, loop, states, system
    <3>4. CASE t = "sm"
      <4>1. status' = "RUNNING" /\ scm' = "RUNNING"
        BY <1>4, <3>3, <3>4 DEF Relock, setStatus, After
      <4>2. hpc["ht"] \in {"none", "idle"} /\ ~quit
        BY <2>0, <3>3, <3>4 DEF Running, StartupFirst
      <4>3. hpc'["ht"] = hpc["ht"] /\ ~quit'
        BY <3>3, <3>4, <4>2
      <4> QED  BY <3>2, <4>1, <4>2, <4>3 DEF OnRecord
    <3>5. CASE t = "ht" /\ code[t] \in {"pause", "continue"}
      <4>1. /\ status' \in {"PAUSED", "RUNNING"} /\ scm' = status'
            /\ hpc'["ht"] = "final" /\ hpc'["sm"] = hpc["sm"] /\ ~quit
        BY <1>4, <2>0, <3>3, <3>5 DEF Relock, setStatus, After, Running, Callbacks
      <4>2. ~quit' /\ UNCHANGED code /\ code["ht"] \in {"pause", "continue"}
        BY <3>3, <3>5, <4>1
      <4> QED  BY <3>2, <4>1, <4>2 DEF OnRecord
    <3>6. CASE t = "ht" /\ code[t] \notin {"pause", "continue"}
      <4>1. code[t] # "startup"
        BY <2>0, <3>3, <3>6 DEF Running, Existence, Codes
      <4>2. UNCHANGED <<status, scm>> /\ hpc'["ht"] = "final" /\ hpc'["sm"] = hpc["sm"]
        BY <1>4, <3>3, <3>6, <4>1 DEF Relock, setStatus, After, states
      <4>3. UNCHANGED <<code, goingDown, quit>> /\ hpc["ht"] = "woken"
        BY <3>3, <3>6
      <4> QED  BY <3>2, <3>1, <3>6, <4>2, <4>3 DEF OnRecord
    <3> QED  BY <3>2, <3>4, <3>5, <3>6
  <2>7. Callbacks'
    <3>1. CASE t = "sm"
      BY <1>4, <2>0, <3>1 DEF Relock, setStatus, After, Running, Existence, StartupFirst,
         Callbacks, loop
    <3>2. CASE t = "ht"
      <4>1. /\ hpc["ht"] = "woken" /\ code["ht"] \in Codes /\ hpc'["ht"] = "final"
            /\ UNCHANGED <<main, code, loop, system, hpc["sm"]>>
        BY <1>0, <1>4, <3>2 DEF Relock, TypeOK, Running, Existence
      <4>2. CASE code["ht"] \in {"pause", "continue"}
        <5>1. /\ app \in {"paused", "running"} /\ status' \in {"PAUSED", "RUNNING"}
              /\ scm' = status' /\ UNCHANGED report
          BY <1>4, <2>0, <4>1, <4>2 DEF Relock, setStatus, After, Running, Callbacks
        <5> QED  BY <2>0, <4>1, <5>1 DEF Running, Callbacks, loop
      <4>3. CASE code["ht"] \notin {"pause", "continue"}
        <5>1. UNCHANGED states
          BY <1>4, <4>1, <4>3 DEF Relock, After, Codes
        <5> QED  BY <2>0, <4>1, <5>1 DEF Running, Callbacks, loop, system, states
      <4> QED  BY <4>2, <4>3
    <3> QED  BY <3>1, <3>2
  <2>8. Running'
    BY <2>2, <2>3, <2>4, <2>6, <2>7 DEF Running
  <2> QED  BY <2>1, <2>5, <2>8, RunningEnds, PTL
<1>5. CASE Unlock(t)
  <2>0. Alive /\ Running
    BY <1>0, <1>5 DEF Unlock, Alive
  <2>1. TypeOK'
    BY <1>0, <1>5 DEF Unlock, TypeOK, loop, states, system, semaphores
  <2>2. Existence'
    BY <1>5, <2>0 DEF Unlock, Running, Existence, loop, semaphores
  <2>3. Exclusion'
    BY <1>0, <1>5 DEF Unlock, TypeOK, Running, Exclusion
  <2>4. StartupFirst'
    BY <1>5, <2>0 DEF Unlock, Running, StartupFirst, loop
  <2>5. Rendezvous'
    BY <1>0, <1>5, <2>0 DEF Unlock, Running, Rendezvous, loop
  <2>6. OnTime'
    BY <1>5, <2>0 DEF Unlock, Running, OnTime, InLoop, OnRecord, loop, states, system
  <2>7. Callbacks'
    BY <1>5, <2>0 DEF Unlock, Running, Callbacks, loop, states, system
  <2>8. Running'
    BY <2>2, <2>3, <2>4, <2>6, <2>7 DEF Running
  <2> QED  BY <2>1, <2>5, <2>8, RunningEnds, PTL
<1>6. CASE CheckStopped(t)
  <2>0. Alive /\ Running
    BY <1>0, <1>6 DEF CheckStopped, Alive
  <2>1. TypeOK'
    BY <1>0, <1>6 DEF CheckStopped, TypeOK, loop, states, system, semaphores
  <2>2. Existence'
    BY <1>6, <2>0 DEF CheckStopped, Running, Existence, loop, semaphores
  <2>3. Exclusion'
    BY <1>6, <2>0 DEF CheckStopped, Running, Exclusion
  <2>4. StartupFirst'
    BY <1>6, <2>0 DEF CheckStopped, Running, StartupFirst, loop
  <2>5. Rendezvous'
    BY <1>0, <1>6, <2>0 DEF CheckStopped, Running, Rendezvous, loop
  <2>6. OnTime'
    BY <1>6, <2>0 DEF CheckStopped, Running, OnTime, InLoop, OnRecord, loop, states, system
  <2>7. Callbacks'
    BY <1>6, <2>0 DEF CheckStopped, Running, Callbacks, loop, states, system
  <2>8. Running'
    BY <2>2, <2>3, <2>4, <2>6, <2>7 DEF Running
  <2> QED  BY <2>1, <2>5, <2>8, RunningEnds, PTL
<1>7. CASE Send(t)
  <2>0. Alive /\ Running
    BY <1>0, <1>7 DEF Send, Alive
  <2>1. TypeOK'
    BY <1>0, <1>7 DEF Send, TypeOK, loop, system, semaphores
  <2>2. Existence'
    BY <1>7, <2>0 DEF Send, Running, Existence, loop, semaphores
  <2>3. Exclusion'
    BY <1>7, <2>0 DEF Send, Running, Exclusion
  <2>4. StartupFirst'
    BY <1>7, <2>0 DEF Send, Running, StartupFirst, loop
  <2>5. Rendezvous'
    BY <1>0, <1>7 DEF Send, Rendezvous, loop
  <2>6. OnTime'
    BY <1>0, <1>7, <2>0 DEF Send, TypeOK, Running, OnTime, InLoop, OnRecord, loop, system
  <2>7. Callbacks'
    BY <1>0, <1>7, <2>0 DEF Send, TypeOK, Running, StartupFirst, Callbacks, loop
  <2>8. Running'
    BY <2>2, <2>3, <2>4, <2>6, <2>7 DEF Running
  <2> QED  BY <2>1, <2>5, <2>8, RunningEnds, PTL
<1>8. CASE Record(t)
  <2>0. Alive /\ Running
    BY <1>0, <1>8 DEF Record, Alive
  <2>1. TypeOK'
    BY <1>0, <1>8 DEF Record, TypeOK, ServiceStates, loop, system, semaphores
  <2>2. Existence'
    BY <1>8, <2>0 DEF Record, Running, Existence, loop, semaphores
  <2>3. Exclusion'
    BY <1>8, <2>0 DEF Record, Running, Exclusion
  <2>4. StartupFirst'
    BY <1>8, <2>0 DEF Record, Running, StartupFirst, loop
  <2>5. Rendezvous'
    BY <1>0, <1>8 DEF Record, Rendezvous, loop
  <2>6. OnTime'
    <3> SUFFICES ASSUME ~overtaken' PROVE InLoop' /\ OnRecord'
      BY DEF OnTime
    <3>0. /\ ~overtaken /\ InLoop /\ OnRecord
          /\ t = "sm" => scm' = status
      BY <1>8, <2>0 DEF Record, Running, OnTime
    <3>1. InLoop'
      BY <1>8, <3>0 DEF Record, InLoop, loop
    <3>2. scm' = status \/ (t = "ht" /\ status = "STOPPED" /\ (goingDown \/ scm' = "STOP_PENDING"))
      BY <1>8, <3>0 DEF Record, OnRecord
    <3>3. /\ UNCHANGED <<status, code, quit, goingDown>>
          /\ t = "sm" => report'["ht"] = report["ht"]
          /\ hpc'[t] = "idle" /\ \A u \in Threads \ {t} : hpc'[u] = hpc[u]
          /\ hpc'["sm"] \notin Startup <=> hpc["sm"] \notin Startup
      BY <1>0, <1>8 DEF Record, TypeOK, loop, system
    <3>4. CASE t = "sm"
      <4>1. hpc["ht"] = "lock" => status \notin {"STOPPED", "START_PENDING", "STOP_PENDING"}
        BY <1>8, <2>0, <3>0, <3>4 DEF Record, Running, OnRecord, Callbacks
      <4>2. hpc'["ht"] = hpc["ht"] /\ scm' = status
        BY <3>0, <3>3, <3>4
      <4> QED  BY <3>1, <3>0, <3>3, <4>1, <4>2 DEF OnRecord
    <3>5. CASE t = "ht"
      <4>1. hpc["ht"] = "sending"
        BY <1>8, <3>5 DEF Record
      <4>2. hpc'["ht"] = "idle"
        BY <3>3, <3>5
      <4> QED  BY <3>1, <3>0, <3>2, <3>3, <4>1, <4>2 DEF OnRecord
    <3> QED  BY <3>1, <3>4, <3>5
  <2>7. Callbacks'
    BY <1>0, <1>8, <2>0 DEF Record, TypeOK, Running, StartupFirst, Callbacks, loop
  <2>8. Running'
    BY <2>2, <2>3, <2>4, <2>6, <2>7 DEF Running
  <2> QED  BY <2>1, <2>5, <2>8, RunningEnds, PTL
<1> QED  BY <1>1, <1>2, <1>3, <1>4, <1>5, <1>6, <1>7, <1>8 DEF Handler

\* The service manager sends a control only to a service that has started and
\* is not on its way down, on record at least.
LEMMA ControlIInv == IInv /\ (\E c \in Codes : Control(c)) => IInv'
<1> SUFFICES ASSUME IInv, NEW c \in Codes, Control(c) PROVE IInv'  OBVIOUS
<1> USE DEF Threads, Free, Early, Startup, Asking
<1>0. TypeOK /\ Rendezvous /\ Alive /\ Running
  BY DEF IInv, Control
<1>1. TypeOK'
  BY <1>0, WinServiceAssumption DEF Control, TypeOK, loop, states, semaphores
<1>2. hpc["sm"] \notin Startup
  BY <1>0 DEF Control, Running, StartupFirst
<1>3. Existence' /\ Exclusion' /\ StartupFirst'
  BY <1>0 DEF Control, TypeOK, Running, Existence, Exclusion, StartupFirst, loop
<1>4. Rendezvous'
  BY <1>0 DEF Control, TypeOK, Rendezvous, loop
<1>5. Callbacks'
  BY <1>0 DEF Control, TypeOK, Running, Callbacks, loop, states
<1>6. OnTime'
  BY <1>0, <1>2 DEF Control, TypeOK, Running, OnTime, InLoop, OnRecord, loop, states
<1>7. Running'
  BY <1>3, <1>5, <1>6 DEF Running
<1> QED  BY <1>1, <1>4, <1>7, RunningEnds, PTL

LEMMA StutterIInv == IInv /\ UNCHANGED vars => IInv'
BY DEF IInv, TypeOK, Running, Existence, Exclusion, StartupFirst, Rendezvous, Callbacks,
   OnTime, InLoop, OnRecord, Ended, Alive, vars, loop, states, system, semaphores

LEMMA NextIInv == IInv /\ [Next]_vars => IInv'
BY MainIInv, SystemIInv, ControlIInv, HandlerIInv, StutterIInv DEF Next, Main

LEMMA AlwaysIInv == Spec => []IInv
BY InitIInv, NextIInv, PTL DEF Spec

\* A report that was overtaken remains so, while the process runs.
LEMMA OvertakenStays == [Next]_vars /\ overtaken => overtaken'
<1> SUFFICES ASSUME [Next]_vars, overtaken PROVE overtaken'
  OBVIOUS
<1>1. ASSUME NEW t \in Threads, Handler(t) PROVE overtaken'
  BY <1>1 DEF Handler, Lock, Post, Wait, Relock, setStatus, Unlock, CheckStopped, Send, Record, states
<1> QED
  BY <1>1 DEF Next, Main, Acquire, AcquireTimesOut, CreateApplication, HandleEvent, WakeAll,
     LeaveLoop, ReportStopped, Cleanup, Connect, ConnectFails, DispatcherReturns, ServiceMain,
     Control, vars, states

\* Whoever waits does so for a main thread in its loop.
LEMMA WaitsInLoop == IInv => NobodyWaitsInVain
<1> SUFFICES ASSUME IInv, ~overtaken PROVE NobodyWaitsInVain
  BY DEF NobodyWaitsInVain
<1> USE DEF Asking
<1>1. CASE Alive
  BY <1>1 DEF IInv, Running, OnTime, InLoop, Rendezvous, NobodyWaitsInVain
<1>2. CASE ~Alive
  BY <1>2 DEF IInv, Ended, NobodyWaitsInVain
<1> QED  BY <1>1, <1>2

-----------------------------------------------------------------------------
(* Theorems *)

\* Type correctness of the Windows service.
THEOREM TypeCorrect == Spec => []TypeOK
<1>1. IInv => TypeOK
  BY DEF IInv
<1> QED  BY AlwaysIInv, <1>1, PTL

\* Nobody waits for an event loop that is not there, whatever controls are sent
\* at whatever moment, until the report of serviceMain is overtaken
\* (qtservice_win.cpp:553-554, 616-621, 659, 836-838).
THEOREM NobodyWaits == Spec => []NobodyWaitsInVain
<1>1. IInv => NobodyWaitsInVain
  BY WaitsInLoop
<1> QED  BY AlwaysIInv, <1>1, PTL

\* wakeAll wakes the thread whose event was handled, although two threads use
\* the condition (qtservice_win.cpp:612-613, 596-598).
THEOREM RightOneWakes == Spec => []WakesItsOwn
<1>1. IInv => WakesItsOwn
  BY DEF IInv, Rendezvous, Asking, WakesItsOwn
<1> QED  BY AlwaysIInv, <1>1, PTL

\* What the service manager is told follows ServiceLifecycle, under every
\* interleaving of the three threads with any number of controls, the reading and
\* the recording of a report apart; once the report of serviceMain was overtaken
\* the callbacks still come in order (qtservice_win.cpp:603-660, 842).
THEOREM LifecycleImplemented == Spec => ImplementsLifecycle
<1>1. Init => LC!Init
  BY DEF Init, LC!Init
<1>2. IInv /\ [Next]_vars => [LC!Next]_LC!lvars
  <2> SUFFICES ASSUME IInv, [Next]_vars, ~UNCHANGED LC!lvars PROVE LC!Next
    OBVIOUS
  <2> USE DEF LC!lvars, LC!Report, LC!Announce, LC!Pending
  <2>0. /\ LC!Orderly /\ UNCHANGED overtaken => LC!Next
        /\ LC!InOrder /\ overtaken' => LC!Next
    BY DEF LC!Next
  <2>1. CASE HandleEvent
    <3>1. TypeOK /\ Rendezvous /\ Running /\ UNCHANGED overtaken
      BY <2>1 DEF IInv, Alive, HandleEvent, states
    <3>2. PICK t \in Threads : hpc[t] \in Asking /\ queue = <<code[t]>> /\ ~quit
      BY <2>1, <3>1 DEF HandleEvent, Rendezvous
    <3>3. app' = Callback(code[t]) /\ scm' = scm /\ app \in {"created", "running", "paused"}
      BY <2>1, <3>1, <3>2 DEF HandleEvent, TypeOK, Running, Callbacks, states
    <3>4. CASE t = "sm"
      <4>1. app = "created" /\ app' = "running"
        BY <2>1, <3>1, <3>2, <3>3, <3>4
           DEF HandleEvent, Running, Existence, StartupFirst, Callback, Startup, Early, Asking
      <4> QED  BY <2>0, <3>1, <3>3, <4>1 DEF LC!start, LC!Orderly, LC!InOrder
    <3>5. CASE t = "ht"
      <4>1. hpc["sm"] \notin Startup /\ code[t] \in Codes /\ app \in {"running", "paused"}
        BY <3>1, <3>2, <3>3, <3>5 DEF Running, Existence, StartupFirst, Asking
      <4>2. CASE overtaken
        <5>1. app' \in {"running", "paused", "stopped"}
          BY <3>3, <4>1 DEF Callback, Codes
        <5> QED  BY <2>0, <3>1, <4>1, <4>2, <5>1 DEF LC!InOrder
      <4>3. CASE ~overtaken
        <5>1. /\ code[t] = "pause" => scm = "PAUSE_PENDING"
              /\ code[t] = "continue" => scm = "CONTINUE_PENDING"
          BY <3>1, <3>2, <3>5, <4>3 DEF Running, OnTime, OnRecord, Asking
        <5>2. LC!pause \/ LC!resume \/ LC!stop \/ app' = app
          BY <3>3, <4>1, <5>1 DEF Callback, Codes, LC!pause, LC!resume, LC!stop
        <5> QED  BY <2>0, <3>1, <3>3, <5>2 DEF LC!Orderly
      <4> QED  BY <4>2, <4>3
    <3> QED  BY <3>2, <3>4, <3>5 DEF Threads
  <2>2. CASE overtaken' /\ ~HandleEvent
    <3>1. app' = app
      BY <2>2
         DEF Next, Main, Handler, Acquire, AcquireTimesOut, CreateApplication, WakeAll, LeaveLoop,
             ReportStopped, Cleanup, Connect, ConnectFails, DispatcherReturns, ServiceMain,
             Control, Lock, Post, Wait, Relock, Unlock, CheckStopped, Send, Record, vars, loop
    <3> QED  BY <2>0, <2>2, <3>1 DEF LC!InOrder
  <2> SUFFICES ASSUME ~overtaken', ~HandleEvent PROVE LC!Next
    BY <2>1, <2>2
  <2>3. UNCHANGED overtaken
    <3>1. ~overtaken /\ IInv'
      BY OvertakenStays, NextIInv
    <3> QED  BY <3>1 DEF IInv, TypeOK
  <2>4. TypeOK /\ ~overtaken /\ (Alive => Running /\ OnRecord)
    BY <2>3 DEF IInv, Running, OnTime
  <2>5. LC!Announce \/ LC!Report \/ LC!Lag => LC!Next
    BY <2>0, <2>3 DEF LC!Orderly
  <2>6. CASE ReportStopped
    <3>1. Running /\ OnRecord /\ app' = app /\ scm' = status /\ scm # status /\ quit
      BY <2>3, <2>4, <2>6 DEF Alive, ReportStopped, Running, Existence, loop
    <3> QED  BY <2>5, <3>1 DEF Running, OnRecord, Callbacks
  <2>7. ASSUME NEW t \in Threads, Lock(t) PROVE LC!Next
    <3>1. Running /\ OnRecord /\ app' = app /\ hpc[t] = "lock"
      BY <2>4, <2>7 DEF Lock, At, loop
    <3>2. scm' = Before[code[t]] /\ code[t] \in DOMAIN Before
      BY <2>3, <2>7, <3>1 DEF Lock, setStatus, states
    <3>3. t = "ht"
      <4>1. t = "sm" => code[t] = "startup" /\ scm = "START_PENDING"
        BY <3>1 DEF Running, Existence, StartupFirst, Startup, Early
      <4>2. t = "sm" => scm' = scm
        BY <3>2, <4>1 DEF Before
      <4> QED  BY <2>3, <2>7, <3>1, <4>2 DEF Threads
    <3>4. scm # "STOP_PENDING" /\ app # "stopped" /\ code[t] # "startup"
      BY <3>1, <3>3 DEF Running, Existence, OnRecord, Callbacks, Codes
    <3> QED  BY <2>5, <3>1, <3>2, <3>4 DEF Before
  <2>8. ASSUME NEW t \in Threads, Relock(t) PROVE LC!Next
    <3>1. Running /\ OnRecord /\ app' = app /\ hpc[t] = "woken"
      BY <2>4, <2>8 DEF Relock, At, loop
    <3>2. scm' = After[code[t]] /\ code[t] \in DOMAIN After
      BY <2>3, <2>8, <3>1 DEF Relock, setStatus, states
    <3>3. CASE t = "sm"
      BY <2>5, <3>1, <3>2, <3>3 DEF After, Running, Existence, StartupFirst, Startup, Early
    <3>4. CASE t = "ht"
      BY <2>5, <3>1, <3>2, <3>4
         DEF After, Running, Existence, OnRecord, Callbacks, Codes
    <3> QED  BY <3>3, <3>4 DEF Threads
\* A report that tells what is on record is none; serviceMain's is not late.
  <2>9. ASSUME NEW t \in Threads, Record(t) PROVE LC!Next
    <3>1. /\ Running /\ OnRecord /\ app' = app /\ scm' = report[t] /\ hpc[t] = "sending"
          /\ scm' # scm
      BY <2>3, <2>4, <2>9 DEF Record, At, loop
    <3>2. hpc["sm"] \notin Early
      BY <3>1 DEF Threads, Startup, Early, Running, StartupFirst
    <3>3. CASE scm' = status
      BY <2>5, <3>1, <3>2, <3>3 DEF Running, OnRecord, Callbacks
    <3>4. CASE scm' # status
      <4>1. t = "ht"
        BY <2>4, <2>9, <3>1, <3>4 DEF Record, Threads
      <4>2. scm = "STOPPED" /\ scm' \in {"STOP_PENDING", "RUNNING", "PAUSED"}
        BY <3>1, <3>4, <4>1 DEF OnRecord
      <4> QED  BY <2>5, <3>1, <4>2 DEF Running, Callbacks, LC!Lag
    <3> QED  BY <3>3, <3>4
  <2> QED
    BY <2>3, <2>6, <2>7, <2>8, <2>9
       DEF Next, Main, Handler, Acquire, AcquireTimesOut, CreateApplication, WakeAll, LeaveLoop,
           Cleanup, Connect, ConnectFails, DispatcherReturns, ServiceMain, Control, Post, Wait,
           Unlock, CheckStopped, Send, vars, loop, states
<1> QED  BY <1>1, <1>2, AlwaysIInv, PTL DEF Spec, ImplementsLifecycle, LC!Spec

-----------------------------------------------------------------------------
(* The controllers *)

\* The handler has gone on: the callback of its control has run.
Done == {"final", "unlocked", "send", "sending", "idle"}

Reached == [pause |-> "paused", resume |-> "running"]

\* The control of k was delivered to the process that is there now, or k was
\* told so.
Due(k) == life[k] = starts /\ (kpc[k] \in {"sent", "poll"} \/ kresult[k] = "true")

\* A process that got through its startup ends only by a stop.
EndsStopped == ~Alive /\ hpc["sm"] \notin Startup => app = "stopped"

\* What is on record for a service that has stopped, until a report is overtaken.
RecordDone == app = "stopped" /\ ~overtaken => scm \in {"STOPPED", "STOP_PENDING"}

\* A stop was sent to a process that had started; one that was reported was done.
StopDone ==
  \A k \in Controllers :
    Due(k) /\ kop[k] = "stop" =>
      /\ hpc["sm"] \notin Startup
      /\ kresult[k] = "true" => app = "stopped"

\* The last control is the one the handler works on, or has worked on.
LastDone ==
  \A k \in Controllers :
    Due(k) /\ sender = k /\ kop[k] \in DOMAIN Reached =>
      /\ code["ht"] = ControlCode[kop[k]] /\ hpc["ht"] # "none"
      /\ kresult[k] = "true" => hpc["ht"] = "idle"
      /\ hpc["ht"] \in Done => app = Reached[kop[k]]

\* What a call waits for is what its operation asks for, in a process of now or
\* before.
Stages ==
  \A k \in Controllers :
    /\ life[k] <= starts
    /\ kpc[k] = "poll" => kop[k] = "stop"
    /\ kpc[k] = "starting" => kop[k] = "start"

CInv ==
  /\ IInv /\ ~goingDown /\ ControlTypeOK
  /\ Stages /\ EndsStopped /\ RecordDone /\ StopDone /\ LastDone

-----------------------------------------------------------------------------
(* Steps of the service *)

\* A step of the service is one of WinService, and sends no control.
LEMMA ServiceNext ==
  Service => Alive /\ [Next]_vars /\ UNCHANGED <<record, starts, calls, sender, goingDown>>
<1> USE DEF Others, manager, system
<1>1. CASE MainThread
  BY <1>1 DEF MainThread, Main, Next, Alive, Acquire, AcquireTimesOut, CreateApplication,
     HandleEvent, WakeAll, LeaveLoop, ReportStopped, Cleanup
<1>2. CASE Dispatcher \/ SystemCalls
  BY <1>2 DEF Dispatcher, SystemCalls, Next, Connect, ConnectFails, DispatcherReturns, ServiceMain
<1>3. ASSUME NEW t \in Threads, Handling(t)
      PROVE  Alive /\ [Next]_vars /\ UNCHANGED <<record, starts, calls, sender, goingDown>>
  BY <1>3 DEF Handling, Next, Handler, At, Lock, Post, Wait, Relock, Unlock, CheckStopped, Send,
     Record
<1>4. CASE Hang
  BY <1>4 DEF Hang, Alive, vars
<1> QED  BY <1>1, <1>2, <1>3, <1>4 DEF Service

\* What the invariants of the calls say of the service, across its steps.
LEMMA ServiceEffect ==
  ASSUME IInv, Service
  PROVE  /\ hpc["sm"] \notin Startup => hpc'["sm"] \notin Startup
         /\ code'["ht"] = code["ht"]
         /\ app = "stopped" => app' = "stopped"
         /\ hpc["ht"] = "idle" => hpc'["ht"] = "idle"
         /\ hpc["ht"] # "none" => hpc'["ht"] # "none"
         /\ app # "created" /\ hpc["ht"] \notin Asking => app' = app
         /\ hpc'["ht"] \in Done => \/ hpc["ht"] \in Done \cup {"none", "woken"}
                                   \/ code["ht"] = "interrogate"
<1> USE DEF Threads, Done, Startup, Early, Asking
<1>0. TypeOK /\ Rendezvous /\ Running /\ Alive
  BY ServiceNext DEF IInv
<1>1. CASE MainThread
  <2>1. /\ code' = code /\ \A t \in Threads : hpc'[t] \in {hpc[t], IF hpc[t] = "waiting" THEN "woken" ELSE hpc[t]}
    BY <1>0, <1>1 DEF MainThread, Main, TypeOK, Acquire, AcquireTimesOut, CreateApplication,
       HandleEvent, WakeAll, LeaveLoop, ReportStopped, Cleanup
  <2>2. app # "created" /\ hpc["ht"] \notin Asking => app' = app
    <3>1. CASE HandleEvent
      <4>1. PICK t \in Threads : hpc[t] \in Asking
        BY <1>0, <3>1 DEF Rendezvous, HandleEvent
      <4>2. t = "sm" => app = "created"
        BY <1>0, <3>1, <4>1 DEF Running, StartupFirst, HandleEvent
      <4> QED  BY <4>1, <4>2
    <3> QED
      BY <1>1, <3>1 DEF MainThread, Main, loop, Acquire, AcquireTimesOut, CreateApplication,
         WakeAll, LeaveLoop, ReportStopped, Cleanup
  <2>3. app = "stopped" => app' = "stopped"
    <3>1. CASE HandleEvent
      BY <1>0, <3>1 DEF Running, Callbacks, HandleEvent
    <3> QED
      BY <1>1, <3>1 DEF MainThread, Main, loop, Acquire, AcquireTimesOut, CreateApplication,
         WakeAll, LeaveLoop, ReportStopped, Cleanup
  <2> QED  BY <2>1, <2>2, <2>3
<1>2. CASE Dispatcher \/ SystemCalls
  <2>1. app' = app /\ code'["ht"] = code["ht"]
    BY <1>0, <1>2 DEF TypeOK, Dispatcher, SystemCalls, Connect, ConnectFails, DispatcherReturns,
       ServiceMain, loop
  <2>2. \/ hpc' = hpc
        \/ hpc["sm"] = "none" /\ hpc["ht"] = "none"
        \/ hpc["sm"] = "acquire" /\ hpc'["ht"] = hpc["ht"]
    BY <1>0, <1>2 DEF TypeOK, Running, Existence, Dispatcher, SystemCalls, Connect, ConnectFails,
       DispatcherReturns, ServiceMain
  <2> QED  BY <2>1, <2>2
<1>3. ASSUME NEW t \in Threads, Handling(t)
      PROVE  /\ \A u \in Threads \ {t} : hpc'[u] = hpc[u]
             /\ UNCHANGED <<code, app>>
             /\ hpc[t] \notin {"none", "acquire", "idle"} /\ hpc'[t] # "none"
             /\ hpc'[t] \in Done => \/ hpc[t] \in {"final", "unlocked", "send", "sending", "woken"}
                                    \/ code[t] = "interrogate"
             /\ hpc[t] \notin Startup => hpc'[t] \in Done
  <2>1. CASE Lock(t)
    BY <1>0, <2>1 DEF TypeOK, Lock, At, Step, loop
  <2>2. CASE Relock(t)
    BY <1>0, <2>2 DEF TypeOK, Relock, At, Step, loop
  <2>3. CASE Post(t) \/ Wait(t) \/ Unlock(t)
    BY <1>0, <2>3 DEF TypeOK, Post, Wait, Unlock, At, Step, loop
  <2>4. CASE CheckStopped(t) \/ Send(t) \/ Record(t)
    BY <1>0, <2>4 DEF TypeOK, CheckStopped, Send, Record, At, Step, loop
  <2> QED  BY <1>3, <2>1, <2>2, <2>3, <2>4 DEF Handling, Handler
<1>4. CASE Hang
  BY <1>4 DEF Hang, loop
<1> QED  BY <1>1, <1>2, <1>3, <1>4 DEF Service

\* A process that has ended is replaced by one in its initial state.
LEMMA StartIInv == ASSUME IInv, ~goingDown, NEW k \in Controllers, StartService(k) PROVE IInv'
<1>1. TypeOK'
  <2>1. <<>> \in Seq(Codes \cup {"startup"})
    OBVIOUS
  <2> QED  BY <2>1 DEF IInv, StartService, TypeOK, ServiceStates, system, Free
<1>2. Running'
  BY DEF StartService, Running, Existence, Exclusion, StartupFirst, OnTime, InLoop, OnRecord, Callbacks,
         Threads, Free, Early, Startup, Asking
<1>3. Rendezvous'
  BY DEF StartService, Rendezvous, Threads, Asking
<1> QED  BY <1>1, <1>2, <1>3, RunningEnds, PTL

LEMMA EndIInv == IInv /\ ProcessEnds => IInv'
<1> SUFFICES ASSUME IInv, ProcessEnds PROVE IInv'
  OBVIOUS
<1>1. TypeOK'
  BY DEF IInv, TypeOK, ServiceStates, ProcessEnds, loop, semaphores, system
<1>2. Rendezvous'
  <2>1. ~Alive /\ main # "wake" /\ main' # "wake" /\ UNCHANGED <<hpc, code, queue>>
    BY DEF ProcessEnds, Alive, loop
  <2> QED  BY <2>1 DEF IInv, Rendezvous
<1>3. ~Alive' /\ (~overtaken' => Ended')
  BY DEF IInv, Ended, Alive, ProcessEnds, loop
<1> QED  BY <1>1, <1>2, <1>3 DEF IInv

\* The calls that leave the service alone.
Elsewhere(k) ==
  \/ Begin(k)
  \/ ControlRefused(k) \/ ControlAccepted(k) \/ ControlTimesOut(k) \/ Poll(k)
  \/ StartRefused(k) \/ Started(k) \/ install(k) \/ uninstall(k)

LEMMA ElsewhereFrame ==
  ASSUME NEW k \in Controllers, Elsewhere(k)
  PROVE  UNCHANGED <<vars, stuck, starts, life, sender>>
BY DEF Elsewhere, Begin, Open, OpenToStart, isRunning, CheckInstalled, ControlRefused, ControlAccepted,
       ControlTimesOut, Poll, StartRefused, Started, install, uninstall, service, vars

LEMMA ControlSends ==
  ASSUME NEW k \in Controllers, ControlService(k)
  PROVE  \E c \in Codes : c = ControlCode[kop[k]] /\ Control(c)
BY DEF ControlService, ControlCode, Requests, Codes

LEMMA StepIInv ==
  IInv /\ ~goingDown /\ [ControlNext]_cvars => IInv' /\ ~goingDown'
<1> SUFFICES ASSUME IInv, ~goingDown, [ControlNext]_cvars PROVE IInv' /\ ~goingDown'
  OBVIOUS
<1>1. CASE Service
  BY <1>1, ServiceNext, NextIInv
<1>2. ASSUME NEW k \in Controllers, Elsewhere(k) PROVE IInv' /\ ~goingDown'
  BY <1>2, ElsewhereFrame, StutterIInv DEF vars, system
<1>3. ASSUME NEW k \in Controllers, ControlService(k) PROVE IInv' /\ ~goingDown'
  <2>1. PICK c \in Codes : c = ControlCode[kop[k]] /\ Control(c)
    BY <1>3, ControlSends
  <2>2. c # "shutdown"
    BY <1>3, <2>1 DEF ControlService, ControlCode, Requests
  <2> QED  BY <2>1, <2>2, ControlIInv DEF Control
<1>4. ASSUME NEW k \in Controllers, StartService(k) PROVE IInv' /\ ~goingDown'
  BY <1>4, StartIInv DEF StartService, system
<1>5. CASE ProcessEnds
  BY <1>5, EndIInv DEF ProcessEnds, system
<1>6. CASE Forget \/ UNCHANGED cvars
  BY <1>6, StutterIInv DEF Forget, cvars, service, vars, system
<1> QED
  BY <1>1, <1>2, <1>3, <1>4, <1>5, <1>6 DEF ControlNext, Proceed, Elsewhere

-----------------------------------------------------------------------------
(* The calls *)

LEMMA CallTypes ==
  ControlTypeOK /\ [ControlNext]_cvars => ControlTypeOK'
<1> SUFFICES ASSUME ControlTypeOK, [ControlNext]_cvars PROVE ControlTypeOK'
  OBVIOUS
<1> USE WinControlAssumption DEF ControlTypeOK, Result, To, Requests
<1>1. CASE Service
  <2>1. UNCHANGED <<record, starts, calls, sender>> /\ stuck' \in BOOLEAN
    BY <1>1 DEF Service, MainThread, Dispatcher, SystemCalls, Handling, Others, manager, Hang
  <2> QED  BY <2>1 DEF calls
<1>2. ASSUME NEW k \in Controllers, Begin(k) PROVE ControlTypeOK'
  <2>1. CASE \E o \in Requests : Open(k, o)
    BY <2>1 DEF Open, service
  <2>2. CASE OpenToStart(k) \/ isRunning(k)
    BY <2>2 DEF OpenToStart, isRunning, service
  <2>3. CASE \E o \in {"install", "uninstall"} : CheckInstalled(k, o)
    BY <2>3 DEF CheckInstalled, service
  <2> QED  BY <1>2, <2>1, <2>2, <2>3 DEF Begin
<1>3. ASSUME NEW k \in Controllers, ControlService(k) PROVE ControlTypeOK'
  BY <1>3 DEF ControlService
<1>4. ASSUME NEW k \in Controllers, ControlRefused(k) \/ ControlAccepted(k) \/ ControlTimesOut(k) \/ Poll(k)
      PROVE  ControlTypeOK'
  BY <1>4 DEF ControlRefused, ControlAccepted, ControlTimesOut, Poll, service
<1>5. ASSUME NEW k \in Controllers, StartService(k) PROVE ControlTypeOK'
  BY <1>5 DEF StartService, CanStart
<1>6. ASSUME NEW k \in Controllers, StartRefused(k) \/ Started(k) \/ install(k) \/ uninstall(k)
      PROVE  ControlTypeOK'
  BY <1>6 DEF StartRefused, Started, install, uninstall, service
<1>7. CASE Forget \/ ProcessEnds \/ UNCHANGED cvars
  BY <1>7 DEF Forget, ProcessEnds, cvars, calls, manager, service
<1> QED
  BY <1>1, <1>2, <1>3, <1>4, <1>5, <1>6, <1>7 DEF ControlNext, Proceed

LEMMA InitCInv == ControlInit => CInv
<1> SUFFICES ASSUME ControlInit PROVE CInv
  OBVIOUS
<1>1. IInv
  <2>1. 0 \in 0..MaxControls /\ <<>> \in Seq(Codes \cup {"startup"})
    BY WinServiceAssumption
  <2>2. TypeOK
    BY <2>1 DEF ControlInit, TypeOK, ServiceStates, Free
  <2> QED  BY <2>2 DEF ControlInit, IInv, Rendezvous, Ended, Alive, Asking
<1>2. ControlTypeOK
  <2>1. 0 \in 0..Polls - 1 /\ 0 \in 0..MaxStarts
    BY WinControlAssumption
  <2> QED  BY <2>1 DEF ControlInit, ControlTypeOK
<1>3. Stages
  BY DEF ControlInit, Stages
<1>4. EndsStopped /\ RecordDone /\ StopDone /\ LastDone
  BY DEF ControlInit, EndsStopped, RecordDone, StopDone, LastDone, Due, Reached, Threads, Startup, Early
<1> QED  BY <1>1, <1>2, <1>3, <1>4 DEF CInv, ControlInit

\* STOPPED on record for a service that was sent a stop: it has stopped.
LEMMA StoppedIsStopped ==
  ASSUME IInv, EndsStopped, scm = "STOPPED", hpc["sm"] \notin Startup
  PROVE  app = "stopped"
<1>1. CASE Alive
  BY <1>1 DEF IInv, Running, Callbacks
<1> QED  BY <1>1 DEF EndsStopped

\* The last step of a process.
LEMMA LastSteps ==
  IInv /\ Service /\ ~Alive' => (Acquire \/ AcquireTimesOut \/ Cleanup) /\ UNCHANGED <<loop, states>>
<1> SUFFICES ASSUME IInv, Service, ~Alive'
             PROVE  (Acquire \/ AcquireTimesOut \/ Cleanup) /\ UNCHANGED <<loop, states>>
  OBVIOUS
<1>1. Acquire \/ AcquireTimesOut \/ Cleanup
  BY ServiceNext DEF Alive, Service, MainThread, Main, CreateApplication, HandleEvent, WakeAll, LeaveLoop,
     ReportStopped, Dispatcher, SystemCalls, Connect, ConnectFails, DispatcherReturns, ServiceMain,
     Handling, Handler, Lock, Post, Wait, Relock, Unlock, CheckStopped, Send, Record, Hang
<1> QED  BY <1>1 DEF Acquire, AcquireTimesOut, Cleanup

\* The service moves on; the calls do not.
LEMMA ServiceCInv == CInv /\ Service => (Stages /\ EndsStopped /\ StopDone /\ LastDone)'
<1> SUFFICES ASSUME CInv, Service PROVE (Stages /\ EndsStopped /\ StopDone /\ LastDone)'
  OBVIOUS
<1>0. IInv /\ TypeOK /\ Running /\ Alive /\ EndsStopped /\ StopDone /\ LastDone
  BY ServiceNext DEF CInv, IInv
<1>1. UNCHANGED <<starts, kpc, kop, kresult, life, sender>>
  BY ServiceNext DEF calls
<1>2. EndsStopped'
  <2> SUFFICES ASSUME ~Alive', hpc'["sm"] \notin Startup PROVE app' = "stopped"
    BY DEF EndsStopped, Startup, Early
  <2>1. Acquire \/ AcquireTimesOut \/ Cleanup
    BY <1>0, LastSteps
  <2>2. Cleanup
    BY <1>0, <2>1 DEF Acquire, AcquireTimesOut, Running, Existence, Startup, Early
  <2> QED  BY <1>0, <2>2 DEF Cleanup, Running, Existence, Callbacks, loop
<1>3. StopDone'
  BY <1>0, <1>1, ServiceEffect DEF StopDone, Due, Startup, Early
<1>4. LastDone'
  <2> SUFFICES ASSUME NEW k \in Controllers, Due(k), sender = k, kop[k] \in DOMAIN Reached
               PROVE  /\ code'["ht"] = ControlCode[kop[k]] /\ hpc'["ht"] # "none"
                      /\ kresult[k] = "true" => hpc'["ht"] = "idle"
                      /\ hpc'["ht"] \in Done => app' = Reached[kop[k]]
    BY <1>1 DEF LastDone, Due, Reached, ControlCode, Done
  <2>1. /\ code["ht"] = ControlCode[kop[k]] /\ hpc["ht"] # "none"
        /\ kresult[k] = "true" => hpc["ht"] = "idle"
        /\ hpc["ht"] \in Done => app = Reached[kop[k]]
    BY <1>0 DEF LastDone
  <2>2. ASSUME hpc'["ht"] \in Done PROVE app' = Reached[kop[k]]
    <3>1. code["ht"] \in {"pause", "continue"}
      BY <2>1 DEF ControlCode, Reached
    <3>2. hpc["ht"] \in Done \cup {"woken"}
      BY <1>0, <2>1, <2>2, <3>1, ServiceEffect
    <3>3. app = Reached[kop[k]]
      BY <1>0, <2>1, <3>2 DEF Running, Callbacks, ControlCode, Reached
    <3> QED  BY <1>0, <3>2, <3>3, ServiceEffect DEF Done, Asking, Reached
  <2> QED  BY <1>0, <2>1, <2>2, ServiceEffect
<1>5. Stages'
  BY <1>1 DEF CInv, Stages
<1> QED  BY <1>2, <1>3, <1>4, <1>5

\* A call moves on; the service does not.
LEMMA CallCInv ==
  ASSUME CInv, NEW k \in Controllers, Elsewhere(k)
  PROVE  (Stages /\ EndsStopped /\ StopDone /\ LastDone)'
<1>0. IInv /\ ControlTypeOK /\ Stages /\ EndsStopped /\ StopDone /\ LastDone
  BY DEF CInv
<1>1. UNCHANGED <<main, hpc, code, app, scm, starts, life, sender>>
  BY ElsewhereFrame DEF vars, loop, states
<1>2. EndsStopped'
  BY <1>0, <1>1 DEF EndsStopped, Alive
<1>3. \A j \in Controllers : j # k => UNCHANGED <<kpc[j], kop[j], kresult[j]>>
  <2>1. \A o : Open(k, o) \/ CheckInstalled(k, o)
             => \A j \in Controllers : j # k => UNCHANGED <<kpc[j], kop[j], kresult[j]>>
    BY <1>0 DEF ControlTypeOK, Open, CheckInstalled, Result, To
  <2>2. OpenToStart(k) \/ isRunning(k)
             => \A j \in Controllers : j # k => UNCHANGED <<kpc[j], kop[j], kresult[j]>>
    BY <1>0 DEF ControlTypeOK, OpenToStart, isRunning, Result, To
  <2>3. ~Begin(k) => kop' = kop /\ \A j \in Controllers : j # k => UNCHANGED <<kpc[j], kresult[j]>>
    BY <1>0 DEF ControlTypeOK, Elsewhere, ControlRefused, ControlAccepted, ControlTimesOut, Poll,
       StartRefused, Started, install, uninstall, Result, To
  <2> QED  BY <2>1, <2>2, <2>3 DEF Begin
\* k is newly due only when its control was accepted, or polled for.
<1>4. Due(k)' /\ kop'[k] \in Requests =>
        /\ kop'[k] = kop[k]
        /\ \/ Due(k) /\ kresult'[k] = kresult[k]
           \/ Due(k) /\ ControlAccepted(k)
           \/ Due(k) /\ kop[k] = "stop" /\ (kresult'[k] = "true" => scm = "STOPPED")
  <2>1. CASE Begin(k)
    BY <1>0, <2>1 DEF ControlTypeOK, Begin, Open, OpenToStart, isRunning, CheckInstalled, Result, To, Due, Requests
  <2>2. CASE ControlRefused(k) \/ ControlTimesOut(k) \/ StartRefused(k)
    BY <1>0, <2>2 DEF ControlTypeOK, ControlRefused, ControlTimesOut, StartRefused, Result, Due
  <2>3. CASE ControlAccepted(k)
    BY <1>0, <1>1, <2>3 DEF ControlTypeOK, ControlAccepted, Due
  <2>4. CASE Poll(k)
    BY <1>0, <1>1, <2>4 DEF ControlTypeOK, Stages, Poll, Result, Due
  <2>5. CASE Started(k) \/ install(k) \/ uninstall(k)
    BY <1>0, <2>5 DEF ControlTypeOK, Stages, Started, install, uninstall, Result, Due, Requests
  <2> QED  BY <2>1, <2>2, <2>3, <2>4, <2>5 DEF Elsewhere
<1>5. ControlAccepted(k) /\ Due(k) =>
        /\ kop[k] = "stop" /\ kresult'[k] = "true" => scm = "STOPPED"
        /\ sender = k => hpc["ht"] = "idle"
  BY <1>0 DEF ControlAccepted, Handled, To, ControlTypeOK
<1>6. Stages'
  <2>1. \A o \in Requests : Open(k, o) => Stages'
    BY <1>0 DEF Open, ControlTypeOK, Stages, Result, To
  <2>2. CASE OpenToStart(k) \/ isRunning(k) \/ \E o \in {"install", "uninstall"} : CheckInstalled(k, o)
    BY <1>0, <2>2 DEF OpenToStart, isRunning, CheckInstalled, ControlTypeOK, Stages, Result, To
  <2>3. CASE ~Begin(k)
    BY <1>0, <2>3 DEF Elsewhere, ControlRefused, ControlAccepted, ControlTimesOut, Poll, StartRefused,
       Started, install, uninstall, ControlTypeOK, Stages, Result, To
  <2> QED  BY <2>1, <2>2, <2>3 DEF Begin
<1>7. StopDone'
  <2> SUFFICES ASSUME NEW j \in Controllers, Due(j)', kop'[j] = "stop"
               PROVE  /\ hpc["sm"] \notin Startup
                      /\ kresult'[j] = "true" => app = "stopped"
    BY <1>1 DEF StopDone, Startup, Early
  <2>1. CASE j # k
    BY <1>0, <1>1, <1>3, <2>1 DEF StopDone, Due
  <2>2. CASE j = k
    <3>1. Due(k) /\ kop[k] = "stop"
      BY <1>4, <2>2 DEF Requests
    <3>2. hpc["sm"] \notin Startup /\ (kresult[k] = "true" => app = "stopped")
      BY <1>0, <3>1 DEF StopDone
    <3>3. kresult'[k] = "true" => kresult[k] = "true" \/ scm = "STOPPED"
      BY <1>4, <1>5, <2>2, <3>1 DEF Requests
    <3> QED  BY <1>0, <2>2, <3>2, <3>3, StoppedIsStopped
  <2> QED  BY <2>1, <2>2
<1>8. LastDone'
  <2> SUFFICES ASSUME NEW j \in Controllers, Due(j)', sender = j, kop'[j] \in DOMAIN Reached
               PROVE  /\ code["ht"] = ControlCode[kop'[j]] /\ hpc["ht"] # "none"
                      /\ kresult'[j] = "true" => hpc["ht"] = "idle"
                      /\ hpc["ht"] \in Done => app = Reached[kop'[j]]
    BY <1>1 DEF LastDone, Done, Reached, ControlCode
  <2>1. CASE j # k
    BY <1>0, <1>1, <1>3, <2>1 DEF LastDone, Due
  <2>2. CASE j = k
    <3>1. Due(k) /\ kop'[k] = kop[k] /\ kop[k] # "stop" /\ kop[k] \in DOMAIN Reached
      BY <1>4, <2>2 DEF Requests, Reached
    <3>2. kresult'[k] = "true" => kresult[k] = "true" \/ hpc["ht"] = "idle"
      BY <1>4, <1>5, <2>2, <3>1 DEF Requests, Reached
    <3> QED  BY <1>0, <2>2, <3>1, <3>2 DEF LastDone
  <2> QED  BY <2>1, <2>2
<1> QED  BY <1>2, <1>6, <1>7, <1>8

\* A control goes to a process that has started; it is the last one from now.
LEMMA SendCInv ==
  ASSUME CInv, NEW k \in Controllers, ControlService(k)
  PROVE  (Stages /\ EndsStopped /\ StopDone /\ LastDone)'
<1>0. IInv /\ TypeOK /\ ControlTypeOK /\ Stages /\ EndsStopped /\ StopDone /\ LastDone
  BY DEF CInv, IInv
<1>1. PICK c \in Codes : c = ControlCode[kop[k]] /\ Control(c)
  BY ControlSends
<1>2. /\ UNCHANGED <<main, app, scm, starts, kop>> /\ Alive /\ sender' = k
      /\ hpc'["ht"] = "lock" /\ hpc'["sm"] = hpc["sm"] /\ code'["ht"] = c
  BY <1>0, <1>1 DEF ControlService, Control, TypeOK, Threads, loop, states
<1>3. hpc["sm"] \notin Startup
  BY <1>0, <1>1 DEF Control, IInv, Running, StartupFirst
<1>4. /\ kpc' = [kpc EXCEPT ![k] = "sent"] /\ kresult' = [kresult EXCEPT ![k] = "none"]
      /\ life' = [life EXCEPT ![k] = starts]
  BY DEF ControlService, To
<1>5. EndsStopped'
  BY <1>2 DEF EndsStopped, Alive
<1>6. Stages'
  BY <1>0, <1>2, <1>4 DEF ControlTypeOK, Stages
<1>7. StopDone'
  <2> SUFFICES ASSUME NEW j \in Controllers, Due(j)', kop[j] = "stop"
               PROVE  kresult'[j] = "true" => app = "stopped"
    BY <1>2, <1>3 DEF StopDone, Startup, Early
  <2> QED  BY <1>0, <1>2, <1>4 DEF ControlTypeOK, StopDone, Due
<1>8. LastDone'
  BY <1>0, <1>1, <1>2, <1>4 DEF ControlTypeOK, LastDone, Done, Reached
<1> QED  BY <1>5, <1>6, <1>7, <1>8

\* A new process: no control was sent to it yet.
LEMMA StartCInv ==
  ASSUME CInv, NEW k \in Controllers, StartService(k)
  PROVE  (Stages /\ EndsStopped /\ StopDone /\ LastDone)'
<1>0. ControlTypeOK /\ Stages
  BY DEF CInv
<1>1. /\ starts' = starts + 1 /\ life' = [life EXCEPT ![k] = starts + 1] /\ starts \in Nat
      /\ kpc' = [kpc EXCEPT ![k] = "starting"] /\ kresult' = [kresult EXCEPT ![k] = "none"]
      /\ kop' = kop /\ kop[k] = "start" /\ main' = "acquire"
  BY <1>0 DEF StartService, To, ControlTypeOK
<1>2. \A j \in Controllers : life[j] <= starts /\ life[j] \in Nat
  BY <1>0 DEF ControlTypeOK, Stages
<1>3. \A j \in Controllers : ~Due(j)'
  BY <1>0, <1>1, <1>2 DEF Due, ControlTypeOK
<1>4. Stages'
  BY <1>0, <1>1, <1>2 DEF Stages, ControlTypeOK
<1> QED  BY <1>1, <1>3, <1>4 DEF EndsStopped, Alive, StopDone, LastDone

\* STOPPED is the state of a process that is no more.
LEMMA EndCInv == CInv /\ ProcessEnds => (Stages /\ EndsStopped /\ StopDone /\ LastDone)'
BY DEF CInv, ProcessEnds, Stages, EndsStopped, StopDone, LastDone, Due, Alive, Done, Reached, ControlCode,
       Startup, Early, manager, calls, loop

LEMMA StepCInv == CInv /\ [ControlNext]_cvars => CInv'
<1> SUFFICES ASSUME CInv, [ControlNext]_cvars PROVE CInv'
  OBVIOUS
<1>1. IInv' /\ ~goingDown' /\ ControlTypeOK'
  BY StepIInv, CallTypes DEF CInv
<1>2. Forget \/ UNCHANGED cvars => (Stages /\ EndsStopped /\ StopDone /\ LastDone)'
  BY DEF CInv, Stages, EndsStopped, StopDone, LastDone, Due, Alive, Done, Reached, ControlCode,
       Startup, Early, Forget, cvars, calls, service, loop, states
<1>3. (Stages /\ EndsStopped /\ StopDone /\ LastDone)'
  BY <1>2, ServiceCInv, CallCInv, SendCInv, StartCInv, EndCInv DEF CInv, ControlNext, Proceed, Elsewhere
\* While the process runs, the record is right by the invariant of the service.
<1>4. RecordDone'
  <2>1. CASE Alive'
    BY <1>1, <2>1 DEF IInv, Running, Callbacks, OnTime, OnRecord, RecordDone
  <2>2. CASE ~Alive' /\ Service
    BY <2>2, LastSteps DEF CInv, RecordDone, loop, states
  <2>3. CASE \E k \in Controllers : Elsewhere(k) \/ ControlService(k) \/ StartService(k)
    <3>1. ASSUME NEW k \in Controllers, ControlService(k) \/ StartService(k) PROVE Alive'
      BY <3>1 DEF ControlService, Control, StartService, Alive
    <3>2. ASSUME NEW k \in Controllers, Elsewhere(k) PROVE RecordDone'
      BY <3>2, ElsewhereFrame DEF CInv, RecordDone, vars, loop, states
    <3> QED  BY <2>1, <2>3, <3>1, <3>2
  <2>4. CASE ProcessEnds \/ Forget \/ UNCHANGED cvars
    BY <2>4 DEF CInv, RecordDone, ProcessEnds, Forget, cvars, service, loop, states
  <2> QED  BY <2>1, <2>2, <2>3, <2>4 DEF ControlNext, Proceed, Elsewhere
<1> QED  BY <1>1, <1>3, <1>4 DEF CInv

LEMMA AlwaysCInv == ControlSpec => []CInv
BY InitCInv, StepCInv, PTL DEF ControlSpec

-----------------------------------------------------------------------------
(* Theorems *)

\* Type correctness of the calls and of the service they act on, through any
\* number of starts.
THEOREM ControlTypesCorrect == ControlSpec => [](ControlTypeOK /\ TypeOK)
<1>1. CInv => ControlTypeOK /\ TypeOK
  BY DEF CInv, IInv
<1> QED  BY <1>1, AlwaysCInv, PTL

\* However many calls are under way, a stop, pause or resume that returned true
\* has been carried out in the process it was sent to; what is on record for the
\* stopped service is STOPPED or the handler's late STOP_PENDING, unless the report
\* of serviceMain was overtaken (qtservice_win.cpp:329, 363, 385, 624-637, 659).
THEOREM AcceptedMeansDone == ControlSpec => []AcceptedIsDone
<1>1. CInv => AcceptedIsDone
  <2> SUFFICES ASSUME CInv, NEW k \in Controllers, kresult[k] = "true", life[k] = starts
               PROVE  /\ kop[k] = "stop" => /\ app = "stopped"
                                            /\ scm \in {"STOPPED", "STOP_PENDING"} \/ overtaken
                      /\ kop[k] = "pause" /\ sender = k  => app = "paused"
                      /\ kop[k] = "resume" /\ sender = k => app = "running"
    BY DEF AcceptedIsDone
  <2>1. Due(k)
    BY DEF Due
  <2> QED  BY <2>1 DEF CInv, RecordDone, StopDone, LastDone, Done, Reached
<1> QED  BY <1>1, AlwaysCInv, PTL

\* The discipline of the condition variable holds through restarts: nobody
\* waits for an event loop that is not there, and the right one wakes
\* (qtservice_win.cpp:596-598, 612-621).
THEOREM NobodyWaitsThroughRestarts == ControlSpec => [](NobodyWaitsInVain /\ WakesItsOwn)
<1>1. IInv => NobodyWaitsInVain
  BY WaitsInLoop
<1>2. IInv => WakesItsOwn
  BY DEF IInv, Rendezvous, Asking, WakesItsOwn
<1> QED  BY <1>1, <1>2, AlwaysCInv, PTL DEF CInv
=============================================================================
