------------------------------ MODULE ServXML ------------------------------
(***************************************************************************)
(* The service as a whole: the callbacks of MyService (myservice.cpp) and  *)
(* the exchange loop of ReadXML take turns in the one event loop of the    *)
(* main thread.  A control waits in the queue until updateDir has returned *)
(* (on both systems: qtservice_win.cpp:612-613, qtservice_unix.cpp:322),   *)
(* and one control is under way at a time.  A stop lets the loop end, and  *)
(* the process with it; another may be started later.                      *)
(***************************************************************************)
EXTENDS Exchange

CONSTANT MaxControls   (* bound: controls sent                               *)

ASSUME ServXMLAssumption == MaxControls \in Nat

VARIABLES
  app,      (* what the callbacks have done; "none": no process               *)
  request,  (* the control that waits for the event loop                      *)
  controls  (* controls sent                                                  *)

control == <<app, request, controls>>
svars   == <<vars, control>>

ServTypeOK ==
  /\ TypeOK
  /\ app \in {"none", "running", "paused", "stopped"}
  /\ request \in {"none", "pause", "resume", "stop"}
  /\ controls \in 0..MaxControls
  /\ app = "none" <=> pc = "down"
  /\ request # "none" => app \in {"running", "paused"}

\* MyService::start creates the ReadXML.
start == app = "none" /\ app' = "running" /\ Start /\ UNCHANGED <<request, controls>>

Control(r) ==
  /\ app \in {"running", "paused"} /\ request = "none"
  /\ request' = r
  /\ controls < MaxControls /\ controls' = controls + 1
  /\ UNCHANGED <<vars, app>>

Callback == [pause |-> "paused", resume |-> "running", stop |-> "stopped"]

\* Mutations: callbacks run in the middle of updateDir too; a paused service is
\* not stopped.
CallAnywhere ==
  /\ request # "none"
  /\ app' = Callback[request] /\ request' = "none"
  /\ IF request = "stop" THEN Goto("idle") ELSE UNCHANGED pc
  /\ UNCHANGED <<cwd, modifyBase, rest, pending, fs, execs, arh, sent, woken, crashes,
                 controls>>
CallUnlessPaused ==
  /\ request # "none" /\ pc = "idle" /\ request' = "none"
  /\ app' = IF request = "stop" /\ app = "paused" THEN app ELSE Callback[request]
  /\ UNCHANGED <<vars, controls>>

\* The callbacks of MyService only log: readXML stays and watches.
Call ==
  /\ request # "none" /\ pc = "idle"
  /\ app' = Callback[request] /\ request' = "none"
  /\ UNCHANGED <<vars, controls>>

\* quit(): the loop ends with its present round, in which a queued signal may
\* still call updateDir.
Leave ==
  /\ app = "stopped" /\ pc = "idle"
  /\ app' = "none" /\ Goto("down") /\ pending' = FALSE
  /\ UNCHANGED <<cwd, modifyBase, rest, fs, execs, arh, sent, woken, crashes,
                 request, controls>>

Die == Crash /\ app' = "none" /\ request' = "none" /\ UNCHANGED controls

Work == UpdateDir /\ UNCHANGED control

ServInit == Init /\ app = "none" /\ request = "none" /\ controls = 0

ServNext == \/ Client /\ UNCHANGED control
            \/ start \/ \E r \in DOMAIN Callback : Control(r)
            \/ Call \/ Leave \/ Work \/ Die

ServSpec == ServInit /\ [][ServNext]_svars

\* The event loop gets to everything that is in its queue.
ServFairSpec == ServSpec /\ WF_svars(Work) /\ WF_svars(Call) /\ WF_svars(Leave)

-----------------------------------------------------------------------------
(* Properties *)

\* A stop is not a crash: a process that ends by a stop leaves no upload half
\* imported and an archive that is the database, and the one after it executes
\* nothing a second time (myservice.cpp:55-62; readxml.cpp:19-76 is not
\* interrupted).
StopIsClean ==
  crashes = 0 =>
    /\ pc = "down" => ~Has("Base", ObmenAll)
    /\ pc = "down" /\ woken => arh = [whole |-> TRUE, db |-> execs]
    /\ \A x \in Inputs : execs[x] <= 1

\* A stop is carried out, after the exchange that is under way and the ones
\* clients add meanwhile, unless an import does not return ("The service will
\* call the QtServiceBase::stop() implementation", qtservice.cpp:367-369; quit()
\* in qtservice_win.cpp:583-584, qtservice_unix.cpp:331).
StopIsServed == request = "stop" ~> pc \in {"down", "hung"}
=============================================================================
