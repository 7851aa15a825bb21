-------------------------- MODULE ServiceLifecycle --------------------------
(***************************************************************************)
(* What the service manager may believe about a Windows service: every     *)
(* final state it is told was reached by the service's own callback, and   *)
(* the callbacks come in a legal order.  A report that is overtaken by     *)
(* later ones makes the belief void, but not the order of the callbacks.   *)
(***************************************************************************)
VARIABLES app,       (* what the callbacks of the service have done          *)
          told,      (* the state the service manager has on record          *)
          overtaken  (* the report of the startup came too late              *)

lvars == <<app, told, overtaken>>

Pending == {"START_PENDING", "PAUSE_PENDING", "CONTINUE_PENDING", "STOP_PENDING"}

Init == app = "created" /\ told = "START_PENDING" /\ ~overtaken

start  == app = "created" /\ app' = "running" /\ UNCHANGED told
pause  == app \in {"running", "paused"} /\ told = "PAUSE_PENDING"
          /\ app' = "paused" /\ UNCHANGED told
resume == app \in {"running", "paused"} /\ told = "CONTINUE_PENDING"
          /\ app' = "running" /\ UNCHANGED told
stop   == app \in {"running", "paused"} /\ app' = "stopped" /\ UNCHANGED told

\* A pending state may be announced until the service has stopped.
Announce == /\ app # "stopped" /\ told' \in Pending \ {"START_PENDING"}
            /\ told # "STOP_PENDING" /\ UNCHANGED app

\* A final state is reported only after its callback.
Report == /\ \/ app = "running" /\ told' = "RUNNING"
             \/ app = "paused"  /\ told' = "PAUSED"
             \/ app = "stopped" /\ told' = "STOPPED"
          /\ told = "STOP_PENDING" => told' = "STOPPED"
          /\ UNCHANGED app

\* The report that ends the last control may come after the last word.
Lag == /\ app = "stopped" /\ told = "STOPPED"
       /\ told' \in {"STOP_PENDING", "RUNNING", "PAUSED"} /\ UNCHANGED app

Orderly == start \/ pause \/ resume \/ stop \/ Announce \/ Report \/ Lag

\* What is left once a report was overtaken: nothing is called before start()
\* or after stop().
InOrder == \/ UNCHANGED app
           \/ app = "created" /\ app' = "running"
           \/ app \in {"running", "paused"} /\ app' \in {"running", "paused", "stopped"}

Next == \/ Orderly /\ UNCHANGED overtaken
        \/ InOrder /\ overtaken'

Spec == Init /\ [][Next]_lvars
=============================================================================
