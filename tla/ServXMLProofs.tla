---------------------------- MODULE ServXMLProofs ----------------------------
(***************************************************************************)
(* Theorems about the service as a whole: what the exchange promises also  *)
(* holds with controls between its steps, and a stop is not a crash.       *)
(***************************************************************************)
EXTENDS ServXML, ExchangeProofs

\* Besides the end of the loop, every step is one of the exchange or leaves the
\* exchange alone.
LEMMA StepOfExchange == ServNext => [Next]_vars \/ Leave
BY DEF ServNext, start, Control, Call, Work, Die, Next, vars, service

\* A process that was stopped, not killed, left the archive of its database.
StoppedFresh ==
  crashes = 0 /\ pc = "down" /\ woken => arh = [whole |-> TRUE, db |-> execs]

\* The callbacks agree with the loop, and the exchange keeps its invariants.
Callbacks ==
  /\ app \in {"none", "running", "paused", "stopped"}
  /\ request \in {"none", "pause", "resume", "stop"}
  /\ controls \in 0..MaxControls
  /\ app = "none" <=> pc = "down"
  /\ request # "none" => app \in {"running", "paused"}

ServInv ==
  /\ TypeOK /\ WatchInv /\ CountInv /\ CleanBase /\ ArchiveFresh
  /\ StoppedFresh /\ Callbacks

LEMMA ServInvInit == ServInit => ServInv
<1>1. Init => ArchiveFresh /\ StoppedFresh
  BY DEF Init, ArchiveFresh, StoppedFresh
<1>2. ServInit => Callbacks
  BY ServXMLAssumption DEF ServInit, Init, Callbacks
<1> QED
  BY <1>1, <1>2, TypeInit, WatchInit, CountInit, CleanInit DEF ServInit, ServInv

LEMMA LeaveExchange ==
  ServInv /\ Leave => (TypeOK /\ WatchInv /\ CountInv /\ CleanBase /\ ArchiveFresh)'
<1> SUFFICES ASSUME ServInv, Leave
             PROVE  (TypeOK /\ WatchInv /\ CountInv /\ CleanBase /\ ArchiveFresh)'
  OBVIOUS
<1>0. /\ pc = "idle" /\ pc' = "down" /\ pending' = FALSE
      /\ UNCHANGED <<cwd, modifyBase, rest, fs, execs, arh, sent, woken, crashes>>
  BY DEF Leave, Goto
<1>1. TypeOK'
  BY <1>0 DEF ServInv, TypeOK, Steps
<1>2. WatchInv'
  BY <1>0 DEF ServInv, WatchInv, Serving, InHand, Has
<1>3. CountInv'
  BY <1>0 DEF ServInv, CountInv, Importing, Has
<1>4. CleanBase'
  BY <1>0 DEF ServInv, CleanBase, Importing, Has
<1> QED  BY <1>0, <1>1, <1>2, <1>3, <1>4 DEF ArchiveFresh

LEMMA ServInvNext == ServInv /\ [ServNext]_svars => ServInv'
<1> SUFFICES ASSUME ServInv, [ServNext]_svars PROVE ServInv'
  OBVIOUS
<1>1. [Next]_vars \/ Leave
  BY StepOfExchange DEF svars
<1>2. (TypeOK /\ WatchInv /\ CountInv /\ CleanBase /\ ArchiveFresh)'
  BY <1>1, LeaveExchange, TypeStep, WatchStep, CountStep, CleanStep, FreshStep DEF ServInv
<1>3. CASE Leave
  <2>1. StoppedFresh'
    BY <1>3 DEF Leave, ServInv, ArchiveFresh, StoppedFresh
  <2>2. Callbacks'
    BY <1>3 DEF Leave, Goto, ServInv, Callbacks
  <2> QED  BY <1>2, <2>1, <2>2 DEF ServInv
<1>4. CASE ~Leave
  <2>1. StoppedFresh'
    <3>1. [Next]_vars
      BY <1>1, <1>4
    <3>2. crashes \in Nat /\ StoppedFresh
      BY DEF ServInv, TypeOK
    <3>3. CASE Client \/ UNCHANGED vars
      BY <3>2, <3>3 DEF StoppedFresh, Client, BeginWrite, EndWrite, AnnounceUpload,
         AnnounceUpdates, vars, service
    <3>4. CASE Start \/ UpdateDir
      BY <3>4 DEF Goto, StoppedFresh, Start, UpdateDir, Deliver, Check, Copy, RemoveData, RemoveMarker,
         UpdateBase, Traverse, RemoveBase, CheckNull, List, Exec, RemoveExecuted,
         OpenArchive, WriteArchive
    <3>5. CASE Crash
      BY <3>2, <3>5 DEF Crash, StoppedFresh
    <3> QED  BY <3>1, <3>3, <3>4, <3>5 DEF Next
  <2>2. Callbacks'
    <3> USE DEF ServInv, Callbacks
    <3>1. CASE Client /\ UNCHANGED control
      BY <3>1 DEF control, Client, BeginWrite, EndWrite, AnnounceUpload, AnnounceUpdates, service
    <3>2. CASE start
      BY <3>2 DEF start, Start, Goto
    <3>3. ASSUME NEW r \in DOMAIN Callback, Control(r) PROVE Callbacks'
      BY <3>3, ServXMLAssumption DEF Control, Callback, vars, service
    <3>4. CASE Call
      BY <3>4 DEF Call, Callback, vars, service
    <3>5. CASE Work
      BY <3>5 DEF Work, control, Goto, UpdateDir, Deliver, Check, Copy, RemoveData, RemoveMarker,
         UpdateBase, Traverse, RemoveBase, CheckNull, List, Exec, RemoveExecuted,
         OpenArchive, WriteArchive
    <3>6. CASE Die
      BY <3>6 DEF Die, Crash, Goto
    <3>7. CASE UNCHANGED svars
      BY <3>7 DEF svars, vars, service, control
    <3> QED  BY <1>4, <3>1, <3>2, <3>3, <3>4, <3>5, <3>6, <3>7 DEF ServNext
  <2> QED  BY <1>2, <2>1, <2>2 DEF ServInv
<1> QED  BY <1>3, <1>4

LEMMA ServInvAlways == ServSpec => []ServInv
BY ServInvInit, ServInvNext, PTL DEF ServSpec

(* Every variable keeps its type; there is an application exactly while    *)
(* there is an event loop, and a control waits only for one that runs.     *)
THEOREM ServTypeCorrect == ServSpec => []ServTypeOK
<1>1. ServInv => ServTypeOK
  BY DEF ServInv, Callbacks, ServTypeOK
<1> QED  BY <1>1, ServInvAlways, PTL

(* Stops and restarts between two exchanges leave no marker overlooked: a  *)
(* service that has been woken has a signal queued for each.               *)
THEOREM MarkersNotMissedWithControls == ServSpec => []NoMissedMarker
<1>1. ServInv => NoMissedMarker
  BY DEF ServInv, WatchInv, NoMissedMarker, InHand
<1> QED  BY <1>1, ServInvAlways, PTL

(* Nor is there an archive behind its database once updateDir has returned,*)
(* whatever callbacks run between two exchanges.                           *)
THEOREM ArchiveFreshWithControls == ServSpec => []ArchiveFresh
<1>1. ServInv => ArchiveFresh
  BY DEF ServInv
<1> QED  BY <1>1, ServInvAlways, PTL

(* A service that only ever ended by stop left nothing behind in Base/,    *)
(* an archive of its database, and executes nothing twice, however its     *)
(* stops and restarts fall between the exchanges.                          *)
THEOREM StopsAreClean == ServSpec => []StopIsClean
<1>1. ServInv => StopIsClean
  <2> SUFFICES ASSUME ServInv, crashes = 0
               PROVE  /\ pc = "down" => ~Has("Base", ObmenAll)
                      /\ pc = "down" /\ woken => arh = [whole |-> TRUE, db |-> execs]
                      /\ \A x \in Inputs : execs[x] <= 1
    BY DEF StopIsClean
  <2>1. pc = "down" => ~Has("Base", ObmenAll)
    BY DEF ServInv, CleanBase, Importing
  <2>2. \A x \in Inputs : execs[x] <= 1
    BY DEF ServInv, CountInv
  <2> QED  BY <2>1, <2>2 DEF ServInv, StoppedFresh
<1> QED  BY <1>1, ServInvAlways, PTL
(* Only a crash can make an input be executed again: a stop and the next   *)
(* start leave nothing to repeat (readxml.cpp:66-67, 142).                 *)
THEOREM OncePerLifeWithControls == ServSpec => []OncePerLife
<1>1. ServInv => OncePerLife
  BY DEF ServInv, CountInv, OncePerLife
<1> QED  BY <1>1, ServInvAlways, PTL

-----------------------------------------------------------------------------
(* What the exchange promises to clients that do not overlap *)

ServPolite == ServInv /\ PoliteInv /\ MarkerInv /\ UploadInv

\* The end of the loop touches no file, and updateDir is not under way.
LEMMA LeavePolite == ServPolite /\ Leave => (PoliteInv /\ MarkerInv /\ UploadInv)'
<1> SUFFICES ASSUME ServPolite, Leave PROVE (PoliteInv /\ MarkerInv /\ UploadInv)'
  OBVIOUS
<1>0. /\ pc' = "down"
      /\ UNCHANGED <<cwd, rest, fs, execs, sent, crashes>>
  BY DEF Leave, Goto
<1>1. PoliteInv'
  BY <1>0 DEF ServPolite, PoliteInv, Has, Busy
<1>2. MarkerInv'
  BY <1>0 DEF ServPolite, MarkerInv, MarkerOutlivesEarlierNames, Has
<1>3. UploadInv'
  BY <1>0 DEF ServPolite, UploadInv, Has, Busy
<1> QED  BY <1>1, <1>2, <1>3

LEMMA ServPoliteAlways ==
  ASSUME ~Overlap
  PROVE  ServSpec => []ServPolite
<1>1. ServInit => ServPolite
  BY ServInvInit, PoliteInit, MarkerInit, UploadInit DEF ServInit, ServPolite
<1>2. ServPolite /\ [ServNext]_svars => ServPolite'
  <2> SUFFICES ASSUME ServPolite, [ServNext]_svars PROVE ServPolite'
    OBVIOUS
  <2>1. [Next]_vars \/ Leave
    BY StepOfExchange DEF svars
  <2>2. [Next]_vars => (PoliteInv /\ MarkerInv /\ UploadInv)'
    BY PoliteStep, MarkerStep, UploadStep DEF ServPolite, ServInv
  <2>3. ServInv'
    BY ServInvNext DEF ServPolite
  <2> QED  BY <2>1, <2>2, <2>3, LeavePolite DEF ServPolite
<1> QED  BY <1>1, <1>2, PTL DEF ServSpec

(* Stops and restarts are nothing a client has to know of: through any     *)
(* number of them an update file leaves Change/ only after it was executed *)
(* in full (myservice.cpp:55-62, readxml.cpp:66-67).                       *)
THEOREM MailboxWithControls ==
  ASSUME ~Overlap
  PROVE  ServSpec => ImplementsMailbox
<1>1. ServPolite /\ [ServNext]_svars => [MB!Next]_MB!mvars
  <2> SUFFICES ASSUME ServPolite, [ServNext]_svars PROVE [MB!Next]_MB!mvars
    OBVIOUS
  <2>1. Leave => UNCHANGED MB!mvars
    BY DEF Leave, MB!mvars, Has
  <2>2. [Next]_vars \/ Leave
    BY StepOfExchange DEF svars
  <2> QED  BY <2>1, <2>2, MailboxStep DEF ServPolite, ServInv
<1>2. ServInit => MB!Init
  BY MailboxInit DEF ServInit
<1> QED
  BY <1>1, <1>2, ServPoliteAlways, PTL DEF ServSpec, ImplementsMailbox, MB!Spec

(* A stop between two exchanges strands no update file without its marker  *)
(* either (readxml.cpp:39-69).                                             *)
THEOREM MarkerOutlivesWithControls ==
  ASSUME ~Overlap
  PROVE  ServSpec => []MarkerOutlivesEarlierNames
<1>1. ServPolite => MarkerOutlivesEarlierNames
  BY DEF ServPolite, MarkerInv
<1> QED  BY <1>1, ServPoliteAlways, PTL

(* And a stop leaves no old upload in Base/ that could block a copy(): an  *)
(* input is lost only after a crash (readxml.cpp:28-29).                   *)
THEOREM OnlyBlockedCopyWithControls ==
  ASSUME ~Overlap
  PROVE  ServSpec => OnlyBlockedCopyLoses
<1>1. ServPolite /\ [ServNext]_svars => [Kept]_vars
  <2> SUFFICES ASSUME ServPolite, [ServNext]_svars PROVE [Kept]_vars
    OBVIOUS
  <2>1. Leave => Kept
    BY DEF Leave, Kept, Stored
  <2>2. [Next]_vars \/ Leave
    BY StepOfExchange DEF svars
  <2> QED  BY <2>1, <2>2, KeptStep DEF ServPolite, ServInv
<1>2. OnlyBlockedCopyLoses <=> [][Kept]_vars
  BY PTL DEF OnlyBlockedCopyLoses, Kept
<1> QED
  BY <1>1, <1>2, ServPoliteAlways, PTL DEF ServSpec
=============================================================================
