--------------------------- MODULE ExchangeProofs ---------------------------
(***************************************************************************)
(* Theorems about the exchange loop, for any set of files and uploads, any *)
(* name order, any number of crashes.                                      *)
(***************************************************************************)
EXTENDS Exchange, TLAPS

(* How a write to one file changes the two directories. *)
LEMMA PutEffect ==
  ASSUME TypeOK, NEW d \in Dirs, NEW n \in Names, NEW c \in Content, Put(d, n, c)
  PROVE  /\ fs' \in [Dirs -> [Names -> Content]]
         /\ fs'[d][n] = c
         /\ \A e \in Dirs, m \in Names : e # d \/ m # n => fs'[e][m] = fs[e][m]
BY DEF TypeOK, Put

(* A removal touches at most the one file, and signals a removal from      *)
(* Change/ to the watcher.                                                 *)
LEMMA RemoveEffect ==
  ASSUME TypeOK, NEW n \in Names, Remove(n)
  PROVE  /\ fs' \in [Dirs -> [Names -> Content]] /\ pending' \in BOOLEAN
         /\ pending => pending'
         /\ \A e \in Dirs, m \in Names : e # cwd \/ m # n => fs'[e][m] = fs[e][m]
         /\ \/ fs'[cwd][n] = Absent /\ fs[cwd][n] # Absent
               /\ (cwd = "Change" /\ pc # "down" => pending')
            \/ fs' = fs /\ fs[cwd][n] \in {Absent, Torn}
<1>1. cwd \in Dirs /\ Absent \in Content
  BY DEF TypeOK, Content
<1>2. CASE Has(cwd, n) /\ Put(cwd, n, Absent) /\ Signal(cwd)
  <2>1. /\ fs' \in [Dirs -> [Names -> Content]]
        /\ fs'[cwd][n] = Absent
        /\ \A e \in Dirs, m \in Names : e # cwd \/ m # n => fs'[e][m] = fs[e][m]
    BY <1>1, <1>2, PutEffect
  <2>2. /\ pending' \in BOOLEAN /\ (pending => pending')
        /\ (cwd = "Change" /\ pc # "down" => pending')
    BY <1>2 DEF Signal, TypeOK
  <2> QED
    BY <1>2, <2>1, <2>2 DEF Has
<1>3. CASE fs[cwd][n] \in {Absent, Torn} /\ UNCHANGED <<fs, pending>>
  BY <1>3 DEF TypeOK
<1> QED
  BY <1>2, <1>3 DEF Remove

(* The file a client writes is one of the names of Change/. *)
LEMMA FileNames ==
  /\ \A x \in Inputs : FileOf(x) \in Names
  /\ \A x \in Inputs : FileOf(x) \notin Markers
  /\ \A u \in Updates : FileOf(u) = u /\ u \in Names
  /\ \A x \in Uploads : FileOf(x) = ObmenAll
  /\ Markers \subseteq Names /\ ObmenAll \in Names /\ ObmenAll \notin Markers
<1>1. Updates \cap (Markers \cup {ObmenAll} \cup Uploads) = {}
  BY ExchangeAssumption
<1>2. Markers \subseteq Names /\ ObmenAll \in Names /\ Updates \subseteq Names
  BY DEF Names
<1>3. ObmenAll \notin Markers
  BY DEF Markers, ObmenAll, Null, NullObmenAll
<1>4. \A u \in Updates : FileOf(u) = u
  BY <1>1 DEF FileOf
<1>5. \A x \in Uploads : FileOf(x) = ObmenAll
  BY DEF FileOf
<1> QED
  BY <1>1, <1>2, <1>3, <1>4, <1>5 DEF Inputs

-----------------------------------------------------------------------------
(* Type correctness *)

LEMMA TypeInit == Init => TypeOK
<1> SUFFICES ASSUME Init PROVE TypeOK
  OBVIOUS
<1>1. crashes \in 0..MaxCrashes
  BY ExchangeAssumption DEF Init
<1>2. fs \in [Dirs -> [Names -> Content]]
  BY DEF Init, Content
<1>3. execs \in [Inputs -> Nat] /\ arh \in [whole : BOOLEAN, db : [Inputs -> Nat]]
  BY DEF Init
<1>4. sent \in [Inputs -> {"new", "writing", "ready", "announced"}]
  BY DEF Init
<1> QED
  BY <1>1, <1>2, <1>3, <1>4 DEF Init, TypeOK, Steps, Dirs

LEMMA TypeClient == TypeOK /\ Client => TypeOK'
<1> SUFFICES ASSUME TypeOK, Client PROVE TypeOK'
  OBVIOUS
<1> USE DEF service
<1>0. "Change" \in Dirs /\ {Absent, Torn, Whole} \subseteq Content
  BY DEF Dirs, Content
<1>1. ASSUME NEW x \in Inputs, BeginWrite(x) PROVE TypeOK'
  <2>1. fs' \in [Dirs -> [Names -> Content]]
    BY <1>0, <1>1, FileNames, PutEffect DEF BeginWrite
  <2> QED
    BY <1>1, <2>1 DEF BeginWrite, Signal, TypeOK
<1>2. ASSUME NEW x \in Inputs, EndWrite(x) PROVE TypeOK'
  <2>1. (IF x \in Uploads THEN x ELSE Whole) \in Content
    BY <1>0 DEF Content
  <2>2. fs' \in [Dirs -> [Names -> Content]]
    <3>1. CASE Has("Change", FileOf(x))
      BY <1>0, <1>2, <2>1, <3>1, FileNames, PutEffect DEF EndWrite
    <3>2. CASE ~Has("Change", FileOf(x))
      BY <1>2, <3>2 DEF EndWrite, TypeOK
    <3> QED
      BY <3>1, <3>2
  <2> QED
    BY <1>2, <2>2 DEF EndWrite, TypeOK
<1>3. ASSUME NEW x \in Inputs, AnnounceUpload(x) PROVE TypeOK'
  <2>1. fs' \in [Dirs -> [Names -> Content]]
    BY <1>0, <1>3, FileNames, PutEffect DEF AnnounceUpload, Markers
  <2> QED
    BY <1>3, <2>1 DEF AnnounceUpload, Signal, TypeOK
<1>4. CASE AnnounceUpdates
  <2>1. fs' \in [Dirs -> [Names -> Content]]
    BY <1>0, <1>4, FileNames, PutEffect DEF AnnounceUpdates, Markers
  <2>2. sent' \in [Inputs -> {"new", "writing", "ready", "announced"}]
    BY <1>4 DEF AnnounceUpdates, TypeOK
  <2> QED
    BY <1>4, <2>1, <2>2 DEF AnnounceUpdates, Signal, TypeOK
<1> QED
  BY <1>1, <1>2, <1>3, <1>4 DEF Client

LEMMA TypeUpdateDir == TypeOK /\ UpdateDir => TypeOK'
<1> SUFFICES ASSUME TypeOK, UpdateDir PROVE TypeOK'
  OBVIOUS
<1> USE DEF Goto, Steps, Dirs
<1>0. Absent \in Content /\ cwd \in Dirs
  BY DEF Content, TypeOK
<1>1. CASE Deliver
  BY <1>1 DEF Deliver, TypeOK
<1>2. CASE Check
  BY <1>2 DEF Check, TypeOK
<1>3. CASE Copy
  <2>1. fs[cwd][ObmenAll] \in Content
    BY <1>0, FileNames DEF TypeOK
  <2>2. fs' \in [Dirs -> [Names -> Content]]
    <3>1. CASE Has(cwd, ObmenAll) /\ ~Has("Base", ObmenAll)
      BY <1>3, <2>1, <3>1, FileNames, PutEffect DEF Copy
    <3>2. CASE ~(Has(cwd, ObmenAll) /\ ~Has("Base", ObmenAll))
      BY <1>3, <3>2 DEF Copy, TypeOK
    <3> QED
      BY <3>1, <3>2
  <2> QED
    BY <1>3, <2>2 DEF Copy, TypeOK
<1>4. CASE RemoveData
  <2>1. fs' \in [Dirs -> [Names -> Content]] /\ pending' \in BOOLEAN
    BY <1>4, FileNames, RemoveEffect DEF RemoveData
  <2> QED
    BY <1>4, <2>1 DEF RemoveData, TypeOK
<1>5. CASE RemoveMarker
  <2>1. fs' \in [Dirs -> [Names -> Content]] /\ pending' \in BOOLEAN
    BY <1>5, FileNames, RemoveEffect DEF RemoveMarker, Markers
  <2> QED
    BY <1>5, <2>1 DEF RemoveMarker, TypeOK
<1>6. CASE UpdateBase
  BY <1>6 DEF UpdateBase, TypeOK
<1>7. CASE Traverse
  <2>1. execs' \in [Inputs -> Nat]
    BY <1>7 DEF Traverse, TypeOK, Inputs
  <2> QED
    BY <1>7, <2>1 DEF Traverse, TypeOK
<1>8. CASE RemoveBase
  <2>1. fs' \in [Dirs -> [Names -> Content]]
    BY <1>0, <1>8, FileNames, PutEffect DEF RemoveBase
  <2> QED
    BY <1>8, <2>1 DEF RemoveBase, TypeOK
<1>9. CASE CheckNull
  BY <1>9 DEF CheckNull, TypeOK
<1>10. CASE List
  <2>1. rest' \in SUBSET Names
    BY <1>10 DEF List
  <2> QED
    BY <1>10, <2>1 DEF List, TypeOK
<1>11. CASE Exec
  <2>1. execs' \in [Inputs -> Nat]
    BY <1>11 DEF Exec, TypeOK, Inputs
  <2>2. pc' \in Steps
    BY <1>11 DEF Exec
  <2> QED
    BY <1>11, <2>1, <2>2 DEF Exec, TypeOK
<1>12. CASE RemoveExecuted
  <2>1. PICK n \in rest : Remove(n) /\ rest' = rest \ {n}
    BY <1>12 DEF RemoveExecuted
  <2>2. n \in Names /\ rest' \in SUBSET Names
    BY <2>1 DEF TypeOK
  <2>3. fs' \in [Dirs -> [Names -> Content]] /\ pending' \in BOOLEAN
    BY <2>1, <2>2, RemoveEffect
  <2> QED
    BY <1>12, <2>2, <2>3 DEF RemoveExecuted, TypeOK
<1>13. CASE OpenArchive
  BY <1>13 DEF OpenArchive, TypeOK
<1>14. CASE WriteArchive
  BY <1>14 DEF WriteArchive, TypeOK
<1> QED
  BY <1>1, <1>2, <1>3, <1>4, <1>5, <1>6, <1>7, <1>8, <1>9, <1>10, <1>11,
     <1>12, <1>13, <1>14 DEF UpdateDir

LEMMA TypeStep == TypeOK /\ [Next]_vars => TypeOK'
<1> SUFFICES ASSUME TypeOK, [Next]_vars PROVE TypeOK'
  OBVIOUS
<1>1. CASE Start
  BY <1>1 DEF Start, Goto, TypeOK, Steps, Dirs
<1>2. CASE Crash
  <2>1. crashes' \in 0..MaxCrashes
    BY <1>2, ExchangeAssumption DEF Crash, TypeOK
  <2> QED
    BY <1>2, <2>1 DEF Crash, Goto, TypeOK, Steps
<1>3. CASE UNCHANGED vars
  BY <1>3 DEF vars, service, TypeOK
<1> QED
  BY <1>1, <1>2, <1>3, TypeClient, TypeUpdateDir DEF Next

(* Every variable keeps its type: in particular the current directory is   *)
(* one of the two the code sets, and a file is absent, unfinished or whole.*)
THEOREM TypeCorrect == Spec => []TypeOK
BY TypeInit, TypeStep, PTL DEF Spec

-----------------------------------------------------------------------------
(* No marker is overlooked *)

Serving == {"check", "copy", "rmData", "rmMarker", "null", "list", "exec", "rm"}

\* A call of updateDir is under way that will remove marker m.
InHand(m) == \/ pc \in {"down", "check", "copy", "rmData", "rmMarker"}
             \/ m = Null /\ pc \in {"null", "list"}
             \/ m = Null /\ pc \in {"exec", "rm"} /\ Null \in rest

\* A marker in Change/ is in the hands of the call under way, or a signal is
\* queued; and updateDir works in the directory it was called for.
WatchInv ==
  /\ pc \in Serving => cwd = "Change"
  /\ pc = "idle" => ~modifyBase
  /\ \A m \in Markers : fs["Change"][m] \in {Absent, Whole}
  /\ pc \in {"copy", "rmData", "rmMarker"} => Has("Change", NullObmenAll)
  /\ \A m \in Markers : woken /\ Has("Change", m) => pending \/ InHand(m)

LEMMA WatchClient == TypeOK /\ WatchInv /\ Client => WatchInv'
<1> SUFFICES ASSUME TypeOK, WatchInv, Client PROVE WatchInv'
  OBVIOUS
<1> USE DEF service
<1>0. /\ "Change" \in Dirs /\ {Absent, Torn, Whole} \subseteq Content
      /\ Absent # Torn /\ Torn # Whole /\ Absent # Whole
  BY DEF Dirs, Content, Absent, Torn, Whole
<1>1. /\ UNCHANGED <<pc, cwd, modifyBase, rest, woken>> /\ (pending => pending')
  <2>1. UNCHANGED <<pc, cwd, modifyBase, rest, woken>>
    BY DEF Client, BeginWrite, EndWrite, AnnounceUpload, AnnounceUpdates
  <2>2. Signal("Change") \/ UNCHANGED pending
    BY DEF Client, BeginWrite, EndWrite, AnnounceUpload, AnnounceUpdates
  <2>3. pending => pending'
    BY <2>2 DEF Signal
  <2> QED
    BY <2>1, <2>3
\* A marker stays as it is, or appears and is signalled.
<1>2. \A m \in Markers : \/ fs'["Change"][m] = fs["Change"][m]
                         \/ fs'["Change"][m] = Whole /\ (pc # "down" => pending')
  <2> SUFFICES ASSUME NEW m \in Markers
               PROVE  \/ fs'["Change"][m] = fs["Change"][m]
                      \/ fs'["Change"][m] = Whole /\ (pc # "down" => pending')
    OBVIOUS
  <2>0. m \in Names /\ \A x \in Inputs : FileOf(x) # m
    BY FileNames
  <2>1. ASSUME NEW x \in Inputs, BeginWrite(x)
        PROVE  fs'["Change"][m] = fs["Change"][m]
    BY <1>0, <2>0, <2>1, FileNames, PutEffect DEF BeginWrite
  <2>2. ASSUME NEW x \in Inputs, EndWrite(x)
        PROVE  fs'["Change"][m] = fs["Change"][m]
    <3>1. (IF x \in Uploads THEN x ELSE Whole) \in Content
      BY <1>0 DEF Content
    <3>2. CASE Has("Change", FileOf(x))
      BY <1>0, <2>0, <2>2, <3>1, <3>2, FileNames, PutEffect DEF EndWrite
    <3>3. CASE ~Has("Change", FileOf(x))
      BY <2>2, <3>3 DEF EndWrite
    <3> QED
      BY <3>2, <3>3
  <2>3. ASSUME NEW x \in Inputs, AnnounceUpload(x)
        PROVE  \/ fs'["Change"][m] = fs["Change"][m]
               \/ fs'["Change"][m] = Whole /\ (pc # "down" => pending')
    <3>1. Put("Change", NullObmenAll, Whole) /\ Signal("Change")
      BY <2>3 DEF AnnounceUpload
    <3>2. pc # "down" => pending'
      BY <3>1 DEF Signal
    <3>3. NullObmenAll \in Names
      BY FileNames DEF Markers
    <3> QED
      BY <1>0, <2>0, <3>1, <3>2, <3>3, PutEffect
  <2>4. CASE AnnounceUpdates
    <3>1. Put("Change", Null, Whole) /\ Signal("Change")
      BY <2>4 DEF AnnounceUpdates
    <3>2. pc # "down" => pending'
      BY <3>1 DEF Signal
    <3>3. Null \in Names
      BY FileNames DEF Markers
    <3> QED
      BY <1>0, <2>0, <3>1, <3>2, <3>3, PutEffect
  <2> QED
    BY <2>1, <2>2, <2>3, <2>4 DEF Client
<1>3. NullObmenAll \in Markers
  BY DEF Markers
<1>4. \A m \in Markers : fs'["Change"][m] \in {Absent, Whole}
  BY <1>2 DEF WatchInv
<1>5. pc \in {"copy", "rmData", "rmMarker"} => Has("Change", NullObmenAll)'
  BY <1>0, <1>2, <1>3 DEF WatchInv, Has
<1>6. \A m \in Markers : (woken /\ Has("Change", m) => pending \/ InHand(m))'
  BY <1>0, <1>1, <1>2 DEF WatchInv, Has, InHand
<1> QED
  BY <1>1, <1>4, <1>5, <1>6 DEF WatchInv

LEMMA WatchService == TypeOK /\ WatchInv /\ (UpdateDir \/ Start \/ Crash) => WatchInv'
<1> SUFFICES ASSUME TypeOK, WatchInv, UpdateDir \/ Start \/ Crash PROVE WatchInv'
  OBVIOUS
<1> USE DEF Goto, Serving, InHand, WatchInv
<1>0. /\ "Change" \in Dirs /\ "Base" \in Dirs /\ Absent # Torn /\ Torn # Whole
      /\ Absent # Whole /\ Null # NullObmenAll /\ Null \in Markers
      /\ NullObmenAll \in Markers /\ ObmenAll \notin Markers /\ cwd \in Dirs
  BY DEF Dirs, Absent, Torn, Whole, Null, NullObmenAll, ObmenAll, Markers, TypeOK
<1>1. CASE Deliver
  BY <1>1 DEF Deliver, Has
<1>2. CASE Check
  BY <1>0, <1>2 DEF Check, Has, Markers
<1>3. CASE Copy
  <2>1. \A m \in Names : fs'["Change"][m] = fs["Change"][m]
    <3>1. fs[cwd][ObmenAll] \in Content
      BY <1>0, FileNames DEF TypeOK
    <3> QED
      BY <1>0, <1>3, <3>1, FileNames, PutEffect DEF Copy
  <2> QED
    BY <1>0, <1>3, <2>1, FileNames DEF Copy, Has
<1>4. CASE RemoveData
  <2>1. \A m \in Markers : fs'["Change"][m] = fs["Change"][m]
    BY <1>0, <1>4, FileNames, RemoveEffect DEF RemoveData
  <2>2. pending => pending'
    BY <1>4, FileNames, RemoveEffect DEF RemoveData
  <2> QED
    BY <1>0, <1>4, <2>1, <2>2 DEF RemoveData, Has
<1>5. CASE RemoveMarker
  <2>1. fs["Change"][NullObmenAll] = Whole /\ cwd = "Change"
    BY <1>0, <1>5 DEF RemoveMarker, Has
  <2>2. /\ fs'["Change"][NullObmenAll] = Absent /\ pending'
        /\ \A m \in Names : m # NullObmenAll => fs'["Change"][m] = fs["Change"][m]
    BY <1>0, <1>5, <2>1, FileNames, RemoveEffect DEF RemoveMarker
  <2> QED
    BY <1>0, <1>5, <2>2, FileNames DEF RemoveMarker, Has
<1>6. CASE UpdateBase
  BY <1>6 DEF UpdateBase, Has
<1>7. CASE Traverse
  BY <1>7 DEF Traverse, Has
<1>8. CASE RemoveBase
  <2>1. \A m \in Markers : fs'["Change"][m] = fs["Change"][m]
    BY <1>0, <1>8, FileNames, PutEffect DEF RemoveBase, Content
  <2> QED
    BY <1>0, <1>8, <2>1 DEF RemoveBase, Has
<1>9. CASE CheckNull
  BY <1>0, <1>9 DEF CheckNull, Has
<1>10. CASE List
  BY <1>0, <1>10, FileNames DEF List, Has
<1>11. CASE Exec
  <2>1. (pc' = "archive" /\ rest = {}) \/ pc' = "rm"
    BY <1>11 DEF Exec
  <2> QED
    BY <1>11, <2>1 DEF Exec, Has
<1>12. CASE RemoveExecuted
  <2>1. PICK n \in rest : Remove(n) /\ rest' = rest \ {n}
    BY <1>12 DEF RemoveExecuted
  <2>2. n \in Names /\ cwd = "Change"
    BY <1>12, <2>1 DEF RemoveExecuted, TypeOK
  <2>3. /\ pending => pending'
        /\ \A m \in Names : m # n => fs'["Change"][m] = fs["Change"][m]
        /\ n \in Markers => fs'["Change"][n] = Absent
    BY <1>0, <2>1, <2>2, RemoveEffect
  <2> QED
    BY <1>0, <1>12, <2>1, <2>3, FileNames DEF RemoveExecuted, Has
<1>13. CASE OpenArchive
  BY <1>13 DEF OpenArchive, Has
<1>14. CASE WriteArchive
  BY <1>14 DEF WriteArchive, Has
<1>15. CASE Start
  BY <1>15 DEF Start, Has
<1>16. CASE Crash
  BY <1>16 DEF Crash, Has
<1> QED
  BY <1>1, <1>2, <1>3, <1>4, <1>5, <1>6, <1>7, <1>8, <1>9, <1>10, <1>11,
     <1>12, <1>13, <1>14, <1>15, <1>16 DEF UpdateDir

LEMMA WatchInit == Init => WatchInv
BY DEF Init, WatchInv, Serving, Has, Markers, Names, Dirs

LEMMA WatchStep == TypeOK /\ WatchInv /\ [Next]_vars => WatchInv'
<1>1. WatchInv /\ UNCHANGED vars => WatchInv'
  BY DEF WatchInv, InHand, Has, vars, service
<1> QED
  BY <1>1, WatchClient, WatchService DEF Next

LEMMA WatchAlways == Spec => []WatchInv
BY WatchInit, WatchStep, TypeCorrect, PTL DEF Spec

(* In the event loop every marker in Change/ has a queued signal, for any  *)
(* interleaving of clients, own removals and crashes with updateDir.       *)
THEOREM MarkersNotMissed == Spec => []NoMissedMarker
<1>1. WatchInv => NoMissedMarker
  BY DEF WatchInv, NoMissedMarker, InHand
<1> QED
  BY <1>1, WatchAlways, PTL

LEMMA FreshStep == WatchInv /\ ArchiveFresh /\ [Next]_vars => ArchiveFresh'
<1> SUFFICES ASSUME WatchInv, ArchiveFresh, [Next]_vars, (pc = "idle" /\ woken)'
             PROVE  (arh = [whole |-> TRUE, db |-> execs])'
  BY DEF ArchiveFresh
<1>1. CASE Client \/ UNCHANGED vars
  BY <1>1 DEF ArchiveFresh, vars, service, Client, BeginWrite, EndWrite,
              AnnounceUpload, AnnounceUpdates
<1>2. CASE Start \/ Crash
  BY <1>2 DEF Start, Crash, Goto
<1>3. CASE UpdateDir
  BY <1>3 DEF WatchInv, UpdateDir, Goto, Deliver, Check, Copy, RemoveData,
              RemoveMarker, UpdateBase, Traverse, RemoveBase, CheckNull, List,
              Exec, RemoveExecuted, OpenArchive, WriteArchive
<1> QED
  BY <1>1, <1>2, <1>3 DEF Next

(* Back in the event loop the archive is whole and is the archive of the   *)
(* current database.                                                       *)
THEOREM ArchiveAlwaysFresh == Spec => []ArchiveFresh
<1>1. Init => ArchiveFresh
  BY DEF Init, ArchiveFresh
<1> QED
  BY <1>1, FreshStep, WatchAlways, PTL DEF Spec

-----------------------------------------------------------------------------
(* Clients that do not overlap have a mailbox *)

\* Busy clients exclude each other and exclude markers; what the list holds was
\* announced, hence finished; what is about to be removed was executed.
PoliteInv ==
  /\ \A x, y \in Inputs : Busy(x) /\ Busy(y) /\ x # y => {x, y} \subseteq Updates
  /\ \A m \in Markers, x \in Inputs : Has("Change", m) => ~Busy(x)
  /\ \A u \in Updates :
       /\ sent[u] = "new" => ~Has("Change", u) /\ execs[u] = 0
       /\ Has("Change", u) /\ sent[u] # "writing" => fs["Change"][u] = Whole
  /\ pc = "list" => Has("Change", Null)
  /\ pc \in {"exec", "rm"} => \A u \in Updates \cap rest : sent[u] = "announced"
  /\ pc = "rm" => \A u \in Updates : First(u) /\ Has("Change", u) => execs[u] > 0

\* What a client step does to the files and stages of one update file.
LEMMA ClientFrame ==
  ASSUME TypeOK, Client, NEW u \in Updates
  PROVE  /\ sent[u] = "announced" => sent'[u] = "announced"
         /\ \/ fs'["Change"][u] = fs["Change"][u]
               /\ (sent'[u] = "new" => sent[u] = "new")
               /\ (sent'[u] # "writing" => sent[u] # "writing")
            \/ sent[u] = "new" /\ sent'[u] = "writing" /\ fs'["Change"][u] = Torn
            \/ sent[u] = "writing" /\ sent'[u] = "ready" /\ Has("Change", u)
               /\ fs'["Change"][u] = Whole
            \/ sent[u] = "writing" /\ sent'[u] = "ready" /\ ~Has("Change", u)
               /\ fs'["Change"][u] = fs["Change"][u]
<1>0. /\ "Change" \in Dirs /\ {Absent, Torn, Whole} \subseteq Content
      /\ FileOf(u) = u /\ u \in Names /\ u \notin Uploads /\ u \in Inputs
      /\ u \notin Markers /\ u # ObmenAll /\ Markers \subseteq Names
      /\ \A x \in Inputs : x # u => FileOf(x) # u
      /\ sent \in [Inputs -> {"new", "writing", "ready", "announced"}]
  <2>1. u \notin Uploads /\ u \notin Markers /\ u # ObmenAll
    BY ExchangeAssumption
  <2>2. \A x \in Inputs : x # u => FileOf(x) # u
    BY <2>1, FileNames DEF Inputs
  <2> QED
    BY <2>1, <2>2, FileNames DEF Dirs, Content, Inputs, TypeOK
<1>1. ASSUME NEW x \in Inputs, BeginWrite(x)
      PROVE  \/ x # u /\ fs'["Change"][u] = fs["Change"][u] /\ sent'[u] = sent[u]
             \/ sent[u] = "new" /\ sent'[u] = "writing" /\ fs'["Change"][u] = Torn
  <2>1. FileOf(x) \in Names /\ Put("Change", FileOf(x), Torn)
    BY <1>1, FileNames DEF BeginWrite
  <2>2. /\ fs'["Change"][FileOf(x)] = Torn
        /\ \A m \in Names : m # FileOf(x) => fs'["Change"][m] = fs["Change"][m]
    BY <1>0, <2>1, PutEffect
  <2> QED
    BY <1>0, <1>1, <2>2 DEF BeginWrite
<1>2. ASSUME NEW x \in Inputs, EndWrite(x)
      PROVE  \/ x # u /\ fs'["Change"][u] = fs["Change"][u] /\ sent'[u] = sent[u]
             \/ sent[u] = "writing" /\ sent'[u] = "ready" /\ Has("Change", u)
                /\ fs'["Change"][u] = Whole
             \/ sent[u] = "writing" /\ sent'[u] = "ready" /\ ~Has("Change", u)
                /\ fs'["Change"][u] = fs["Change"][u]
  <2>1. sent[x] = "writing" /\ sent' = [sent EXCEPT ![x] = "ready"]
    BY <1>2 DEF EndWrite
  <2>2. CASE ~Has("Change", FileOf(x))
    <3>1. fs' = fs
      BY <1>2, <2>2 DEF EndWrite
    <3> QED
      BY <1>0, <2>1, <2>2, <3>1
  <2>3. CASE Has("Change", FileOf(x))
    <3>1. (IF x \in Uploads THEN x ELSE Whole) \in Content
      BY <1>0 DEF Content
    <3>2. /\ fs'["Change"][FileOf(x)] = (IF x \in Uploads THEN x ELSE Whole)
          /\ \A m \in Names : m # FileOf(x) => fs'["Change"][m] = fs["Change"][m]
      BY <1>0, <1>2, <2>3, <3>1, FileNames, PutEffect DEF EndWrite
    <3> QED
      BY <1>0, <2>1, <2>3, <3>2
  <2> QED
    BY <2>2, <2>3
<1>3. ASSUME NEW x \in Inputs, AnnounceUpload(x)
      PROVE  fs'["Change"][u] = fs["Change"][u] /\ sent'[u] = sent[u]
  <2>1. NullObmenAll \in Markers
    BY DEF Markers
  <2> QED
    BY <1>0, <1>3, <2>1, PutEffect DEF AnnounceUpload
<1>4. ASSUME AnnounceUpdates
      PROVE  /\ fs'["Change"][u] = fs["Change"][u]
             /\ sent'[u] = IF sent[u] = "ready" THEN "announced" ELSE sent[u]
  <2>1. Null \in Markers
    BY DEF Markers
  <2> QED
    BY <1>0, <1>4, <2>1, PutEffect DEF AnnounceUpdates
<1> QED
  BY <1>1, <1>2, <1>3, <1>4 DEF Client

\* The service only removes files from Change/.
LEMMA ServiceFrame ==
  ASSUME TypeOK, UpdateDir \/ Start \/ Crash, NEW n \in Names
  PROVE  fs'["Change"][n] \in {fs["Change"][n], Absent} /\ sent' = sent
<1>0. "Change" \in Dirs /\ "Base" \in Dirs /\ cwd \in Dirs /\ Absent \in Content
  BY DEF Dirs, Content, TypeOK
<1>1. sent' = sent
  BY DEF UpdateDir, Start, Crash, Deliver, Check, Copy, RemoveData, RemoveMarker,
         UpdateBase, Traverse, RemoveBase, CheckNull, List, Exec, RemoveExecuted,
         OpenArchive, WriteArchive
<1>2. CASE Copy
  <2>1. fs[cwd][ObmenAll] \in Content
    BY <1>0, FileNames DEF TypeOK
  <2> QED
    BY <1>0, <1>1, <1>2, <2>1, FileNames, PutEffect DEF Copy
<1>3. CASE RemoveData \/ RemoveMarker \/ RemoveExecuted
  <2>1. PICK m \in Names : Remove(m)
    BY <1>3, FileNames DEF RemoveData, RemoveMarker, RemoveExecuted, TypeOK, Markers
  <2> QED
    BY <1>0, <1>1, <2>1, RemoveEffect
<1>4. CASE RemoveBase
  BY <1>0, <1>1, <1>4, FileNames, PutEffect DEF RemoveBase
<1>5. CASE UNCHANGED fs
  BY <1>1, <1>5
<1> QED
  BY <1>2, <1>3, <1>4, <1>5
     DEF UpdateDir, Start, Crash, Deliver, Check, UpdateBase, Traverse, CheckNull,
         List, Exec, OpenArchive, WriteArchive

\* Only Exec counts an update file, and then the first of the list.
LEMMA ExecsFrame ==
  ASSUME TypeOK, Next \/ UNCHANGED vars, NEW u \in Updates
  PROVE  \/ execs'[u] = execs[u]
         \/ /\ Exec /\ u \in rest /\ pc = "exec"
            /\ fs[cwd][u] = Whole /\ execs'[u] = execs[u] + 1
<1>0. u \in Inputs /\ u \notin Uploads /\ execs \in [Inputs -> Nat]
  BY ExchangeAssumption DEF Inputs, TypeOK
<1>1. CASE Exec
  <2>1. \A n \in rest \cap Updates : n \in Inputs
    BY DEF Inputs
  <2> QED
    BY <1>0, <1>1, <2>1 DEF Exec
<1>2. CASE Traverse
  BY <1>0, <1>2 DEF Traverse
<1>3. CASE UNCHANGED execs
  BY <1>3
<1> QED
  BY <1>1, <1>2, <1>3
     DEF Next, vars, Client, BeginWrite, EndWrite, AnnounceUpload, AnnounceUpdates,
         UpdateDir, Start, Crash, Deliver, Check, Copy, RemoveData, RemoveMarker,
         UpdateBase, RemoveBase, CheckNull, List, RemoveExecuted, OpenArchive,
         WriteArchive

LEMMA PoliteClient == ~Overlap /\ TypeOK /\ PoliteInv /\ Client => PoliteInv'
<1> SUFFICES ASSUME ~Overlap, TypeOK, PoliteInv, Client PROVE PoliteInv'
  OBVIOUS
<1>0. /\ pc' = pc /\ rest' = rest /\ execs' = execs
      /\ sent \in [Inputs -> {"new", "writing", "ready", "announced"}]
      /\ "Change" \in Dirs /\ {Absent, Torn, Whole} \subseteq Content
      /\ Torn # Absent /\ Whole # Absent /\ Updates \subseteq Inputs
  BY DEF Client, BeginWrite, EndWrite, AnnounceUpload, AnnounceUpdates, service,
         TypeOK, Dirs, Content, Torn, Whole, Absent, Inputs
\* Markers and busy clients, action by action.
<1> DEFINE Busy2 == \A x, y \in Inputs : Busy(x) /\ Busy(y) /\ x # y => {x, y} \subseteq Updates
           Quiet == \A m \in Markers, x \in Inputs : Has("Change", m) => ~Busy(x)
<1>1. ASSUME NEW x \in Inputs, BeginWrite(x) PROVE Busy2' /\ Quiet'
  <2>1. /\ sent' = [sent EXCEPT ![x] = "writing"]
        /\ \A m \in Markers : ~Has("Change", m)
        /\ \A y \in Inputs : Busy(y) => {x, y} \subseteq Updates
    BY <1>1 DEF BeginWrite, MayStart
  <2>2. \A m \in Markers : fs'["Change"][m] = fs["Change"][m]
    BY <1>0, <1>1, FileNames, PutEffect DEF BeginWrite
  <2>3. \A y \in Inputs : y # x => (Busy(y)' <=> Busy(y))
    BY <1>0, <2>1 DEF Busy
  <2>4. Busy2'
    <3> SUFFICES ASSUME NEW y \in Inputs, NEW z \in Inputs, Busy(y)', Busy(z)', y # z
                 PROVE  {y, z} \subseteq Updates
      OBVIOUS
    <3> QED
      BY <2>1, <2>3 DEF PoliteInv
  <2> QED
    BY <2>1, <2>2, <2>4 DEF Has
<1>2. ASSUME NEW x \in Inputs, EndWrite(x) PROVE Busy2' /\ Quiet'
  <2>1. sent[x] = "writing" /\ sent' = [sent EXCEPT ![x] = "ready"]
    BY <1>2 DEF EndWrite
  <2>2. \A y \in Inputs : Busy(y)' <=> Busy(y)
    BY <1>0, <2>1 DEF Busy
  <2>3. (IF x \in Uploads THEN x ELSE Whole) \in Content
    BY <1>0 DEF Content
  <2>4. \A m \in Markers : fs'["Change"][m] = fs["Change"][m]
    BY <1>0, <1>2, <2>3, FileNames, PutEffect DEF EndWrite
  <2> QED
    BY <2>2, <2>4 DEF PoliteInv, Has
<1>3. ASSUME NEW x \in Inputs, AnnounceUpload(x) PROVE Busy2' /\ Quiet'
  <2>1. /\ x \in Uploads /\ x \notin Updates /\ sent[x] = "ready"
        /\ sent' = [sent EXCEPT ![x] = "announced"]
    BY <1>3, ExchangeAssumption DEF AnnounceUpload
  <2>2. Busy(x) /\ \A y \in Inputs : y # x => ~Busy(y)
    BY <2>1 DEF Busy, PoliteInv
  <2>3. \A y \in Inputs : ~Busy(y)'
    BY <1>0, <2>1, <2>2 DEF Busy
  <2> QED
    BY <2>3
<1>4. ASSUME AnnounceUpdates PROVE Busy2' /\ Quiet'
  <2>1. PICK u \in Updates : sent[u] = "ready"
    BY <1>4 DEF AnnounceUpdates
  <2>2. \A y \in Inputs : Busy(y) => y \in Updates /\ sent[y] = "ready"
    BY <1>0, <1>4, <2>1 DEF AnnounceUpdates, PoliteInv, Busy
  <2>3. \A y \in Inputs : ~Busy(y)'
    BY <1>0, <1>4, <2>2 DEF AnnounceUpdates, Busy
  <2> QED
    BY <2>3
<1>5. Busy2' /\ Quiet'
  BY <1>1, <1>2, <1>3, <1>4 DEF Client
<1>6. ASSUME NEW u \in Updates
      PROVE  /\ sent'[u] = "new" => ~Has("Change", u)' /\ execs'[u] = 0
             /\ Has("Change", u)' /\ sent'[u] # "writing" => fs'["Change"][u] = Whole
             /\ sent[u] = "announced" => sent'[u] = "announced"
                                         /\ fs'["Change"][u] = fs["Change"][u]
  BY <1>0, <1>6, ClientFrame DEF PoliteInv, Has
<1>7. (pc = "list" => Has("Change", Null))'
  <2>1. ASSUME Has("Change", Null) PROVE Has("Change", Null)'
    <3>1. Null \in Markers /\ Null \in Names
      BY FileNames DEF Markers
    <3>2. ASSUME NEW x \in Inputs, BeginWrite(x) PROVE FALSE
      BY <2>1, <3>1, <3>2 DEF BeginWrite, MayStart
    <3>3. ASSUME NEW x \in Inputs, EndWrite(x) PROVE FALSE
      BY <2>1, <3>1, <3>3 DEF EndWrite, PoliteInv, Busy
    <3>4. ASSUME NEW x \in Inputs, AnnounceUpload(x) PROVE FALSE
      BY <2>1, <3>1, <3>4 DEF AnnounceUpload, PoliteInv, Busy
    <3>5. CASE AnnounceUpdates
      BY <1>0, <3>1, <3>5, PutEffect DEF AnnounceUpdates, Has
    <3> QED
      BY <3>2, <3>3, <3>4, <3>5 DEF Client
  <2> QED
    BY <1>0, <2>1 DEF PoliteInv
<1>8. (pc \in {"exec", "rm"} => \A u \in Updates \cap rest : sent[u] = "announced")'
  BY <1>0, <1>6 DEF PoliteInv
<1>9. (pc = "rm" => \A u \in Updates : First(u) /\ Has("Change", u) => execs[u] > 0)'
  <2> SUFFICES ASSUME pc = "rm", NEW u \in Updates, First(u), Has("Change", u)'
               PROVE  execs[u] > 0
    BY <1>0 DEF First
  <2>1. u \in rest /\ sent[u] = "announced"
    BY DEF PoliteInv, First
  <2> QED
    BY <1>6, <2>1 DEF PoliteInv, Has
<1> HIDE DEF Busy2, Quiet
<1>10. Busy2' => (\A x, y \in Inputs : Busy(x) /\ Busy(y) /\ x # y => {x, y} \subseteq Updates)'
  BY DEF Busy2
<1>11. Quiet' => (\A m \in Markers, x \in Inputs : Has("Change", m) => ~Busy(x))'
  BY DEF Quiet
<1> QED
  BY <1>5, <1>6, <1>7, <1>8, <1>9, <1>10, <1>11 DEF PoliteInv

LEMMA PoliteService ==
  TypeOK /\ WatchInv /\ PoliteInv /\ (UpdateDir \/ Start \/ Crash) => PoliteInv'
<1> SUFFICES ASSUME TypeOK, WatchInv, PoliteInv, UpdateDir \/ Start \/ Crash
             PROVE  PoliteInv'
  OBVIOUS
<1> USE DEF Goto
<1>0. /\ sent' = sent /\ Updates \subseteq Names /\ Markers \subseteq Names
      /\ Updates \subseteq Inputs /\ Null \in Markers
      /\ \A n \in Names : fs'["Change"][n] \in {fs["Change"][n], Absent}
      /\ sent \in [Inputs -> {"new", "writing", "ready", "announced"}]
  BY ServiceFrame, FileNames DEF Names, Inputs, Markers, TypeOK
<1>1. ASSUME NEW u \in Updates
      PROVE  /\ execs'[u] = 0 \/ sent[u] # "new"
             /\ execs'[u] >= execs[u] /\ execs[u] \in Nat /\ execs'[u] \in Nat
  <2>1. execs[u] \in Nat
    BY <1>0 DEF TypeOK
  <2> QED
    BY <2>1, ExecsFrame DEF Next, PoliteInv
<1>2. (\A x, y \in Inputs : Busy(x) /\ Busy(y) /\ x # y => {x, y} \subseteq Updates)'
  BY <1>0 DEF PoliteInv, Busy
<1>3. (\A m \in Markers, x \in Inputs : Has("Change", m) => ~Busy(x))'
  BY <1>0 DEF PoliteInv, Busy, Has
<1>4. ASSUME NEW u \in Updates
      PROVE  /\ sent'[u] = "new" => ~Has("Change", u)' /\ execs'[u] = 0
             /\ Has("Change", u)' /\ sent'[u] # "writing" => fs'["Change"][u] = Whole
  BY <1>0, <1>1 DEF PoliteInv, Has
<1>5. (pc = "list" => Has("Change", Null))'
  <2>1. pc' = "list" => CheckNull
    BY DEF UpdateDir, Start, Crash, Deliver, Check, Copy, RemoveData, RemoveMarker,
           UpdateBase, Traverse, RemoveBase, List, Exec, RemoveExecuted,
           OpenArchive, WriteArchive
  <2>2. CheckNull /\ pc' = "list" => Has("Change", Null)'
    BY DEF CheckNull, Has, WatchInv, Serving
  <2> QED
    BY <2>1, <2>2
<1>6. pc' \in {"exec", "rm"} => List \/ Exec \/ RemoveExecuted
  BY DEF UpdateDir, Start, Crash, Deliver, Check, Copy, RemoveData, RemoveMarker,
         UpdateBase, Traverse, RemoveBase, CheckNull, OpenArchive, WriteArchive
<1>7. (pc \in {"exec", "rm"} => \A u \in Updates \cap rest : sent[u] = "announced")'
  <2>1. CASE List
    <3>1. Has("Change", Null) /\ rest' = {n \in Names : Has("Change", n)}
      BY <2>1 DEF List, PoliteInv
    <3>2. \A u \in Updates \cap rest' : sent[u] \notin {"new", "writing", "ready"}
      BY <1>0, <3>1 DEF PoliteInv, Busy
    <3> QED
      BY <1>0, <3>2
  <2>2. CASE Exec
    BY <1>0, <2>2 DEF Exec, PoliteInv
  <2>3. CASE RemoveExecuted
    BY <1>0, <2>3 DEF RemoveExecuted, PoliteInv
  <2> QED
    BY <1>6, <2>1, <2>2, <2>3
<1>8. (pc = "rm" => \A u \in Updates : First(u) /\ Has("Change", u) => execs[u] > 0)'
  <2> SUFFICES ASSUME pc' = "rm", NEW u \in Updates, First(u)', Has("Change", u)'
               PROVE  execs'[u] > 0
    OBVIOUS
  <2>1. Exec /\ pc = "exec" /\ rest' = rest /\ fs' = fs
    BY <1>6 DEF List, Exec, RemoveExecuted
  <2>2. cwd = "Change" /\ First(u) /\ u \in rest /\ sent[u] = "announced"
    BY <2>1 DEF WatchInv, Serving, First, PoliteInv
  <2>3. fs[cwd][u] = Whole
    BY <2>1, <2>2 DEF PoliteInv, Has
  <2>4. PICK n \in rest : First(n) /\ execs' = IF n \in Updates /\ fs[cwd][n] = Whole
                                            THEN [execs EXCEPT ![n] = @ + 1] ELSE execs
    BY <2>1 DEF Exec
  <2>5. n = u
    <3>1. n \in Names /\ u \in Names /\ Rank[n] <= Rank[u] /\ Rank[u] <= Rank[n]
      BY <2>2, <2>4 DEF First, TypeOK
    <3>2. Rank[n] \in Nat /\ Rank[u] \in Nat
      BY <3>1, ExchangeAssumption
    <3>3. Rank[n] = Rank[u]
      BY <3>1, <3>2
    <3> QED
      BY <3>1, <3>3, ExchangeAssumption
  <2>6. execs' = [execs EXCEPT ![u] = @ + 1] /\ execs \in [Inputs -> Nat] /\ u \in Inputs
    BY <1>0, <2>3, <2>4, <2>5 DEF TypeOK
  <2>7. execs'[u] = execs[u] + 1
    BY <2>6
  <2> QED
    BY <1>1, <2>7
<1> QED
  BY <1>2, <1>3, <1>4, <1>5, <1>7, <1>8 DEF PoliteInv

LEMMA PoliteInit == Init => PoliteInv
<1> SUFFICES ASSUME Init PROVE PoliteInv
  OBVIOUS
<1>1. /\ \A x \in Inputs : sent[x] = "new" /\ execs[x] = 0
      /\ \A n \in Names : fs["Change"][n] = Absent
      /\ Updates \subseteq Names /\ Updates \subseteq Inputs /\ Markers \subseteq Names
  BY DEF Init, Dirs, Names, Inputs
<1> QED
  BY <1>1 DEF Init, PoliteInv, Has, Busy

LEMMA PoliteStep ==
  ~Overlap /\ TypeOK /\ WatchInv /\ PoliteInv /\ [Next]_vars => PoliteInv'
<1>1. PoliteInv /\ UNCHANGED vars => PoliteInv'
  BY DEF PoliteInv, Has, Busy, First, vars, service
<1> QED
  BY <1>1, PoliteClient, PoliteService DEF Next

LEMMA PoliteAlways ==
  ASSUME ~Overlap
  PROVE  Spec => []PoliteInv
BY PoliteInit, PoliteStep, TypeCorrect, WatchAlways, PTL DEF Spec

\* The mailbox begins empty.
LEMMA MailboxInit == Init => MB!Init
<1> DEFINE box == {u \in Updates : Has("Change", u)}
           done == {u \in Updates : execs[u] > 0}
<1> SUFFICES ASSUME Init PROVE MB!Init
  OBVIOUS
<1>1. \A u \in Updates : fs["Change"][u] = Absent /\ execs[u] = 0
  BY DEF Init, Dirs, Names, Inputs
<1>2. box = {} /\ done = {}
  BY <1>1 DEF Has
<1> QED
  BY <1>2 DEF MB!Init

\* A step of the exchange is one of the mailbox, or the mailbox does not see it.
LEMMA MailboxStep == TypeOK /\ WatchInv /\ PoliteInv /\ [Next]_vars => [MB!Next]_MB!mvars
<1> DEFINE box == {u \in Updates : Has("Change", u)}
           done == {u \in Updates : execs[u] > 0}
<1> SUFFICES ASSUME TypeOK, WatchInv, PoliteInv, [Next]_vars
             PROVE  MB!Next \/ (box' = box /\ done' = done)
  BY DEF MB!mvars
<1>0. /\ Updates \subseteq Names /\ Updates \subseteq Inputs
      /\ execs \in [Inputs -> Nat] /\ Torn # Absent /\ Whole # Absent /\ Torn # Whole
  BY DEF TypeOK, Names, Inputs, Torn, Whole, Absent
<1>1. CASE Client
  <2>1. execs' = execs
    BY <1>1 DEF Client, BeginWrite, EndWrite, AnnounceUpload, AnnounceUpdates
  <2>2. ASSUME NEW x \in Inputs, BeginWrite(x), x \in Updates
        PROVE  MB!Post(x)
    <3>1. x \notin box /\ x \notin done
      BY <1>0, <2>2 DEF BeginWrite, PoliteInv
    <3>2. \A n \in Names : fs'["Change"][n] = IF n = x THEN Torn ELSE fs["Change"][n]
      BY <1>0, <2>2, FileNames, PutEffect DEF BeginWrite, Dirs, Content
    <3>3. box' = box \cup {x}
      BY <1>0, <2>2, <3>2 DEF Has
    <3> QED
      BY <2>1, <3>1, <3>3 DEF MB!Post
  <2>3. ASSUME ~\E x \in Updates : BeginWrite(x)
        PROVE  \A u \in Updates : Has("Change", u)' <=> Has("Change", u)
    <3> SUFFICES ASSUME NEW u \in Updates
                 PROVE  Has("Change", u)' <=> Has("Change", u)
      OBVIOUS
    <3>1. ~(sent[u] = "new" /\ sent'[u] = "writing")
      <4>1. ASSUME NEW x \in Inputs, BeginWrite(x) PROVE sent'[u] = sent[u]
        <5>1. x # u
          BY <2>3, <4>1
        <5> QED
          BY <1>0, <4>1, <5>1 DEF BeginWrite, TypeOK
      <4>2. ASSUME NEW x \in Inputs, EndWrite(x) \/ AnnounceUpload(x)
            PROVE  sent'[u] \in {sent[u], "ready", "announced"}
        BY <1>0, <4>2 DEF EndWrite, AnnounceUpload, TypeOK
      <4>3. CASE AnnounceUpdates
        BY <1>0, <4>3 DEF AnnounceUpdates, TypeOK
      <4> QED
        BY <1>1, <4>1, <4>2, <4>3 DEF Client
    <3> QED
      BY <1>0, <1>1, <3>1, ClientFrame DEF Has
  <2> QED
    BY <1>0, <2>1, <2>2, <2>3 DEF MB!Next
<1>2. CASE Exec
  <2> DEFINE S == {u \in Updates : execs'[u] # execs[u]}
  <2>1. \A u \in S : u \in rest /\ fs["Change"][u] = Whole /\ execs'[u] = execs[u] + 1
    <3> SUFFICES ASSUME NEW u \in Updates, execs'[u] # execs[u]
                 PROVE  u \in rest /\ fs["Change"][u] = Whole /\ execs'[u] = execs[u] + 1
      OBVIOUS
    <3>1. pc = "exec" /\ u \in rest /\ fs[cwd][u] = Whole /\ execs'[u] = execs[u] + 1
      BY <1>2, ExecsFrame DEF Next, UpdateDir
    <3> QED
      BY <3>1 DEF WatchInv, Serving
  <2>2. \E n : \A u \in S : u = n
    <3>1. CASE execs' = execs
      BY <3>1
    <3>2. CASE execs' # execs
      <4>1. PICK n \in rest : execs' = [execs EXCEPT ![n] = @ + 1]
        BY <1>2, <3>2 DEF Exec
      <4>2. \A u \in Updates : u # n => execs'[u] = execs[u]
        BY <1>0, <4>1
      <4> QED
        BY <4>2
    <3> QED
      BY <3>1, <3>2
  <2>3. PICK n : \A u \in S : u = n
    BY <2>2
  <2>4. box' = box
    BY <1>2 DEF Exec, Has
  <2>5. CASE S = {}
    BY <2>1, <2>4, <2>5
  <2>6. CASE S # {}
    <3>1. n \in Updates /\ S = {n} /\ n \in box
      BY <1>0, <2>1, <2>3, <2>6 DEF Has
    <3>2. \A u \in Updates : execs'[u] = IF u = n THEN execs[u] + 1 ELSE execs[u]
      BY <2>1, <3>1
    <3>3. \A u \in Updates : execs[u] \in Nat
      BY <1>0
    <3>4. done' = done \cup {n}
      BY <3>1, <3>2, <3>3
    <3> QED
      BY <2>4, <3>1, <3>4 DEF MB!Next, MB!Process
  <2> QED
    BY <2>5, <2>6
<1>3. CASE RemoveExecuted
  <2>1. PICK n \in rest : First(n) /\ Remove(n)
    BY <1>3 DEF RemoveExecuted
  <2>2. n \in Names /\ cwd = "Change" /\ execs' = execs /\ pc = "rm"
    BY <1>3, <2>1 DEF RemoveExecuted, TypeOK, WatchInv, Serving
  <2>3. /\ \A m \in Names : m # n => fs'["Change"][m] = fs["Change"][m]
        /\ \/ fs'["Change"][n] = Absent /\ fs["Change"][n] # Absent
           \/ fs' = fs
    BY <2>1, <2>2, RemoveEffect DEF Dirs
  <2>4. CASE n \in Updates /\ fs' # fs
    <3>1. n \in box /\ n \in done
      BY <2>1, <2>2, <2>3, <2>4 DEF PoliteInv, Has
    <3>2. box' = box \ {n}
      BY <1>0, <2>3, <2>4 DEF Has
    <3> QED
      BY <2>2, <3>1, <3>2 DEF MB!Next, MB!Take
  <2>5. CASE ~(n \in Updates /\ fs' # fs)
    BY <1>0, <2>2, <2>3, <2>5 DEF Has
  <2> QED
    BY <2>4, <2>5
<1>4. CASE UpdateDir \/ Start \/ Crash \/ UNCHANGED vars
  <2> SUFFICES ASSUME ~Exec, ~RemoveExecuted PROVE box' = box /\ done' = done
    BY <1>2, <1>3
  <2>1. \A u \in Updates : execs'[u] = execs[u]
    BY <1>4, ExecsFrame DEF Next
  <2>2. \A u \in Updates : fs'["Change"][u] = fs["Change"][u]
    <3> SUFFICES ASSUME NEW u \in Updates
                 PROVE  fs'["Change"][u] = fs["Change"][u]
      OBVIOUS
    <3>0. /\ u \in Names /\ u # ObmenAll /\ u \notin Markers /\ NullObmenAll \in Markers
          /\ "Change" \in Dirs /\ "Base" \in Dirs /\ cwd \in Dirs /\ Absent \in Content
      BY <1>0, ExchangeAssumption DEF Markers, Dirs, TypeOK, Content
    <3>1. CASE Copy
      <4>1. fs[cwd][ObmenAll] \in Content
        BY <3>0, FileNames DEF TypeOK
      <4> QED
        BY <3>0, <3>1, <4>1, FileNames, PutEffect DEF Copy
    <3>2. CASE RemoveData
      BY <3>0, <3>2, FileNames, RemoveEffect DEF RemoveData
    <3>3. CASE RemoveMarker
      BY <3>0, <3>3, FileNames, RemoveEffect DEF RemoveMarker
    <3>4. CASE RemoveBase
      BY <3>0, <3>4, FileNames, PutEffect DEF RemoveBase
    <3>5. CASE UNCHANGED fs
      BY <3>5
    <3> QED
      BY <1>4, <3>1, <3>2, <3>3, <3>4, <3>5
         DEF UpdateDir, Start, Crash, Deliver, Check, UpdateBase, Traverse,
             CheckNull, List, OpenArchive, WriteArchive, vars
  <2> QED
    BY <2>1, <2>2 DEF Has
<1> QED
  BY <1>1, <1>2, <1>3, <1>4 DEF Next

(* As long as clients do not overlap, an update file leaves Change/ only   *)
(* after its statements were executed in full, through any number of       *)
(* crashes and restarts: the service implements the mailbox.               *)
THEOREM MailboxImplemented ==
  ASSUME ~Overlap
  PROVE  Spec => ImplementsMailbox
BY MailboxInit, MailboxStep, TypeCorrect, WatchAlways, PoliteAlways, PTL
   DEF Spec, ImplementsMailbox, MB!Spec

-----------------------------------------------------------------------------
(* How often an input is executed *)

\* The first file of the list is the only one of its rank.
LEMMA OneFirst ==
  ASSUME TypeOK, NEW m \in rest, NEW n \in rest, First(m), First(n)
  PROVE  m = n
<1>1. m \in Names /\ n \in Names /\ Rank[m] <= Rank[n] /\ Rank[n] <= Rank[m]
  BY DEF First, TypeOK
<1>2. Rank[m] \in Nat /\ Rank[n] \in Nat
  BY <1>1, ExchangeAssumption
<1> QED  BY <1>1, <1>2, ExchangeAssumption

\* Only Traverse counts an upload, the one that lies in Base/.
LEMMA UploadExecs ==
  ASSUME TypeOK, Next \/ UNCHANGED vars, NEW x \in Uploads
  PROVE  \/ execs'[x] = execs[x]
         \/ /\ Traverse /\ fs[cwd][ObmenAll] = x /\ pc = "traverse" /\ pc' = "rmBase"
            /\ execs'[x] = execs[x] + 1
<1>0. x \in Inputs /\ x \notin Updates /\ execs \in [Inputs -> Nat]
  BY ExchangeAssumption DEF Inputs, TypeOK
<1>1. CASE Exec
  BY <1>0, <1>1 DEF Exec
<1>2. CASE Traverse
  BY <1>0, <1>2 DEF Traverse, Goto
<1>3. CASE UNCHANGED execs
  BY <1>3
<1> QED
  BY <1>1, <1>2, <1>3
     DEF Next, vars, Client, BeginWrite, EndWrite, AnnounceUpload, AnnounceUpdates,
         UpdateDir, Start, Crash, Deliver, Check, Copy, RemoveData, RemoveMarker,
         UpdateBase, RemoveBase, CheckNull, List, RemoveExecuted, OpenArchive,
         WriteArchive

\* What a client step does to ObmenAll.arh, and to the stage of an upload.
LEMMA ClientUpload ==
  ASSUME TypeOK, Client
  PROVE  /\ \A n \in Names : fs'["Base"][n] = fs["Base"][n]
         /\ \A x \in Uploads : sent'[x] \in {"new", "writing"} => sent[x] \in {"new", "writing"}
         /\ \/ /\ fs'["Change"][ObmenAll] = fs["Change"][ObmenAll]
               /\ \A x \in Uploads : sent'[x] = "writing" => sent[x] = "writing"
               /\ \/ \A x \in Uploads : sent[x] = "writing" => sent'[x] = "writing"
                  \/ \E x \in Uploads : sent[x] = "writing" /\ ~Has("Change", ObmenAll)
            \/ \E x \in Uploads :
                 /\ sent[x] = "new" /\ sent'[x] = "writing" /\ MayStart(x)
                 /\ \A y \in Uploads : sent[y] # "writing"
                 /\ fs'["Change"][ObmenAll] = Torn
            \/ \E x \in Uploads :
                 /\ sent[x] = "writing" /\ sent'[x] = "ready"
                 /\ \A y \in Uploads \ {x} : sent'[y] = sent[y]
                 /\ fs'["Change"][ObmenAll] = x
<1>0. /\ "Change" \in Dirs /\ "Base" \in Dirs /\ "Change" # "Base"
      /\ {Absent, Torn, Whole} \subseteq Content
      /\ Uploads \subseteq Inputs /\ Uploads \cap Updates = {}
      /\ \A x \in Inputs : FileOf(x) \in Names
      /\ \A x \in Inputs : x \in Uploads <=> FileOf(x) = ObmenAll
      /\ ObmenAll \in Names /\ Markers \subseteq Names /\ ObmenAll \notin Markers
      /\ sent \in [Inputs -> {"new", "writing", "ready", "announced"}]
  <2>1. \A u \in Updates : u # ObmenAll /\ u \notin Uploads /\ FileOf(u) = u
    BY ExchangeAssumption, FileNames
  <2> QED
    BY <2>1, FileNames DEF Dirs, Content, Inputs, TypeOK
<1>1. ASSUME NEW x \in Inputs, BeginWrite(x)
      PROVE  /\ sent[x] = "new" /\ sent' = [sent EXCEPT ![x] = "writing"] /\ MayStart(x)
             /\ x \in Uploads => \A y \in Uploads : sent[y] # "writing"
             /\ fs'["Change"][FileOf(x)] = Torn
             /\ \A e \in Dirs, m \in Names : e # "Change" \/ m # FileOf(x) => fs'[e][m] = fs[e][m]
  BY <1>0, <1>1, PutEffect DEF BeginWrite
<1>2. ASSUME NEW x \in Inputs, EndWrite(x)
      PROVE  /\ sent[x] = "writing" /\ sent' = [sent EXCEPT ![x] = "ready"]
             /\ \/ fs' = fs /\ ~Has("Change", FileOf(x))
                \/ /\ fs'["Change"][FileOf(x)] = (IF x \in Uploads THEN x ELSE Whole)
                   /\ \A e \in Dirs, m \in Names : e # "Change" \/ m # FileOf(x) => fs'[e][m] = fs[e][m]
  <2>1. (IF x \in Uploads THEN x ELSE Whole) \in Content
    BY <1>0 DEF Content
  <2>2. CASE Has("Change", FileOf(x))
    BY <1>0, <1>2, <2>1, <2>2, PutEffect DEF EndWrite
  <2>3. CASE ~Has("Change", FileOf(x))
    BY <1>2, <2>3 DEF EndWrite
  <2> QED  BY <2>2, <2>3
<1>3. ASSUME NEW x \in Inputs, AnnounceUpload(x)
      PROVE  /\ x \in Uploads /\ sent[x] = "ready" /\ sent' = [sent EXCEPT ![x] = "announced"]
             /\ \A e \in Dirs, m \in Names \ Markers : fs'[e][m] = fs[e][m]
             /\ \A m \in Names : fs'["Base"][m] = fs["Base"][m]
  <2>1. NullObmenAll \in Markers
    BY DEF Markers
  <2> QED  BY <1>0, <1>3, <2>1, PutEffect DEF AnnounceUpload
<1>4. ASSUME AnnounceUpdates
      PROVE  /\ \A x \in Uploads : sent'[x] = sent[x]
             /\ \A e \in Dirs, m \in Names \ Markers : fs'[e][m] = fs[e][m]
             /\ \A m \in Names : fs'["Base"][m] = fs["Base"][m]
  <2>1. Null \in Markers
    BY DEF Markers
  <2> QED  BY <1>0, <1>4, <2>1, PutEffect DEF AnnounceUpdates
<1>5. \A n \in Names : fs'["Base"][n] = fs["Base"][n]
  BY <1>0, <1>1, <1>2, <1>3, <1>4 DEF Client
<1>6. \A x \in Uploads : sent'[x] \in {"new", "writing"} => sent[x] \in {"new", "writing"}
  BY <1>0, <1>1, <1>2, <1>3, <1>4 DEF Client
<1>7. ASSUME NEW x \in Inputs, BeginWrite(x)
      PROVE  \/ /\ fs'["Change"][ObmenAll] = fs["Change"][ObmenAll]
                /\ \A y \in Uploads : sent'[y] = sent[y]
             \/ /\ x \in Uploads /\ sent[x] = "new" /\ sent'[x] = "writing" /\ MayStart(x)
                /\ \A y \in Uploads : sent[y] # "writing"
                /\ fs'["Change"][ObmenAll] = Torn
  BY <1>0, <1>1, <1>7
<1>8. ASSUME NEW x \in Inputs, EndWrite(x)
      PROVE  \/ /\ fs'["Change"][ObmenAll] = fs["Change"][ObmenAll]
                /\ \A y \in Uploads : sent'[y] = sent[y]
             \/ /\ fs'["Change"][ObmenAll] = fs["Change"][ObmenAll]
                /\ \A y \in Uploads : sent'[y] = "writing" => sent[y] = "writing"
                /\ x \in Uploads /\ sent[x] = "writing" /\ ~Has("Change", ObmenAll)
             \/ /\ x \in Uploads /\ sent[x] = "writing" /\ sent'[x] = "ready"
                /\ \A y \in Uploads \ {x} : sent'[y] = sent[y]
                /\ fs'["Change"][ObmenAll] = x
  BY <1>0, <1>2, <1>8
<1>9. ASSUME NEW x \in Inputs, AnnounceUpload(x)
      PROVE  /\ fs'["Change"][ObmenAll] = fs["Change"][ObmenAll]
             /\ \A y \in Uploads : sent'[y] = "writing" <=> sent[y] = "writing"
  BY <1>0, <1>3, <1>9
<1>10. AnnounceUpdates => fs'["Change"][ObmenAll] = fs["Change"][ObmenAll]
  BY <1>0, <1>4
<1> QED  BY <1>4, <1>5, <1>6, <1>7, <1>8, <1>9, <1>10 DEF Client

\* An import is past the removal of its upload from Change/.
Importing == {"rmMarker", "update", "traverse", "hung", "rmBase"}

\* An input still to be executed leaves room for it in the count; one that is
\* about to be removed has had it.
CountInv ==
  /\ pc \in {"traverse", "rmBase"} => cwd = "Base"
  /\ \A x \in Inputs : execs[x] <= crashes + 1
  /\ \A u \in Updates :
       /\ sent[u] = "new" => execs[u] = 0 /\ ~Has("Change", u)
       /\ Has("Change", u) /\ ~(pc = "rm" /\ First(u) /\ fs["Change"][u] = Whole)
            => execs[u] <= crashes
  /\ \A x \in Uploads :
       /\ sent[x] \in {"new", "writing"} => execs[x] = 0 /\ \A d \in Dirs : fs[d][ObmenAll] # x
       /\ fs["Change"][ObmenAll] = x =>
            execs[x] = 0 /\ (fs["Base"][ObmenAll] = x => pc \notin Importing)
       /\ fs["Base"][ObmenAll] = x /\ pc # "rmBase" => execs[x] <= crashes

LEMMA CountClient == TypeOK /\ CountInv /\ Client => CountInv'
<1> SUFFICES ASSUME TypeOK, CountInv, Client PROVE CountInv'
  OBVIOUS
<1>0. /\ UNCHANGED <<pc, cwd, rest, execs, crashes>> /\ crashes \in Nat
      /\ \A x \in Uploads : x \notin {Absent, Torn, Whole}
      /\ Dirs = {"Change", "Base"} /\ ObmenAll \in Names
  BY ExchangeAssumption, FileNames DEF Client, BeginWrite, EndWrite, AnnounceUpload,
     AnnounceUpdates, service, TypeOK, Dirs
<1>1. ASSUME NEW u \in Updates
      PROVE  /\ sent'[u] = "new" => execs[u] = 0 /\ ~Has("Change", u)'
             /\ Has("Change", u)' /\ ~(pc = "rm" /\ First(u) /\ fs'["Change"][u] = Whole)
                  => execs[u] <= crashes
  BY <1>0, ClientFrame DEF CountInv, Has
<1>2. ASSUME NEW x \in Uploads
      PROVE  /\ sent'[x] \in {"new", "writing"} =>
                  execs[x] = 0 /\ \A d \in Dirs : fs'[d][ObmenAll] # x
             /\ fs'["Change"][ObmenAll] = x =>
                  execs[x] = 0 /\ (fs'["Base"][ObmenAll] = x => pc \notin Importing)
             /\ fs'["Base"][ObmenAll] = x /\ pc # "rmBase" => execs[x] <= crashes
  <2>1. fs'["Base"][ObmenAll] = fs["Base"][ObmenAll]
    BY <1>0, ClientUpload
  <2>2. sent'[x] \in {"new", "writing"} => sent[x] \in {"new", "writing"}
    BY ClientUpload
  <2>3. \/ fs'["Change"][ObmenAll] \in {fs["Change"][ObmenAll], Torn}
        \/ \E y \in Uploads : /\ sent[y] = "writing" /\ sent'[y] = "ready"
                              /\ fs'["Change"][ObmenAll] = y
    BY ClientUpload
  <2> QED  BY <1>0, <2>1, <2>2, <2>3 DEF CountInv
<1> QED  BY <1>0, <1>1, <1>2 DEF CountInv, First

\* What the service does to Base/ObmenAll.arh.
LEMMA ServiceBase ==
  ASSUME TypeOK, WatchInv, CountInv, UpdateDir \/ Start \/ Crash
  PROVE  /\ \A n \in Names : n # ObmenAll => fs'["Base"][n] = fs["Base"][n]
         /\ \/ fs'["Base"][ObmenAll] = fs["Base"][ObmenAll]
            \/ /\ Copy /\ pc = "copy" /\ pc' = "rmData" /\ fs["Base"][ObmenAll] = Absent
               /\ fs'["Base"][ObmenAll] = fs["Change"][ObmenAll]
            \/ RemoveBase /\ pc = "rmBase" /\ pc' = "archive" /\ fs'["Base"][ObmenAll] = Absent
<1>0. /\ "Change" \in Dirs /\ "Base" \in Dirs /\ "Base" # "Change"
      /\ Absent \in Content /\ ObmenAll \in Names
  BY FileNames DEF Dirs, Content
<1>1. CASE Copy
  <2>1. cwd = "Change" /\ fs[cwd][ObmenAll] \in Content
    BY <1>0, <1>1 DEF Copy, WatchInv, Serving, TypeOK
  <2> QED  BY <1>0, <1>1, <2>1, PutEffect DEF Copy, Has, Goto
<1>2. CASE RemoveData \/ RemoveMarker \/ RemoveExecuted
  <2>1. PICK m \in Names : Remove(m)
    BY <1>2, FileNames DEF RemoveData, RemoveMarker, RemoveExecuted, TypeOK, Markers
  <2>2. cwd = "Change"
    BY <1>2 DEF RemoveData, RemoveMarker, RemoveExecuted, WatchInv, Serving
  <2> QED  BY <1>0, <2>1, <2>2, RemoveEffect
<1>3. CASE RemoveBase
  BY <1>0, <1>3, PutEffect DEF RemoveBase, CountInv, Goto
<1>4. CASE UNCHANGED fs
  BY <1>4
<1> QED
  BY <1>1, <1>2, <1>3, <1>4
     DEF UpdateDir, Start, Crash, Deliver, Check, UpdateBase, Traverse, CheckNull,
         List, Exec, OpenArchive, WriteArchive

LEMMA CountService ==
  TypeOK /\ WatchInv /\ CountInv /\ (UpdateDir \/ Start \/ Crash) => CountInv'
<1> SUFFICES ASSUME TypeOK, WatchInv, CountInv, UpdateDir \/ Start \/ Crash
             PROVE  CountInv'
  OBVIOUS
<1>0. /\ sent' = sent /\ Updates \subseteq Names /\ Inputs = Updates \cup Uploads
      /\ ObmenAll \in Names /\ Dirs = {"Change", "Base"} /\ cwd \in Dirs /\ Absent # Whole
      /\ \A x \in Uploads : x \notin {Absent, Torn, Whole}
      /\ \A n \in Names : fs'["Change"][n] \in {fs["Change"][n], Absent}
      /\ execs \in [Inputs -> Nat] /\ rest \subseteq Names
  BY ServiceFrame, FileNames, ExchangeAssumption DEF Names, Inputs, Dirs, TypeOK, Absent, Whole
<1>1. (pc \in {"traverse", "rmBase"} => cwd = "Base")'
  BY DEF CountInv, Goto, UpdateDir, Start, Crash, Deliver, Check, Copy, RemoveData, RemoveMarker,
         UpdateBase, Traverse, RemoveBase, CheckNull, List, Exec, RemoveExecuted,
         OpenArchive, WriteArchive
<1>2. crashes \in Nat /\ crashes' = IF Crash THEN crashes + 1 ELSE crashes
  BY DEF TypeOK, UpdateDir, Start, Crash, Deliver, Check, Copy, RemoveData, RemoveMarker,
         UpdateBase, Traverse, RemoveBase, CheckNull, List, Exec, RemoveExecuted,
         OpenArchive, WriteArchive
\* An update file
<1>3. ASSUME NEW u \in Updates
      PROVE  /\ execs'[u] <= crashes' + 1
             /\ sent[u] = "new" => execs'[u] = 0 /\ ~Has("Change", u)'
             /\ Has("Change", u)' /\ ~(pc' = "rm" /\ First(u)' /\ fs'["Change"][u] = Whole)
                  => execs'[u] <= crashes'
  <2>0. /\ execs[u] \in Nat /\ execs[u] <= crashes + 1 /\ u \in Names
        /\ fs'["Change"][u] \in {fs["Change"][u], Absent}
        /\ sent[u] = "new" => execs[u] = 0 /\ fs["Change"][u] = Absent
        /\ fs["Change"][u] # Absent /\ ~(pc = "rm" /\ First(u) /\ fs["Change"][u] = Whole)
             => execs[u] <= crashes
    BY <1>0 DEF CountInv, Has
  <2>1. CASE Exec
    <3>1. cwd = "Change" /\ pc = "exec" /\ UNCHANGED <<fs, rest, crashes>>
      BY <2>1 DEF Exec, WatchInv, Serving
    <3>2. CASE execs'[u] = execs[u]
      BY <1>2, <2>0, <3>1, <3>2 DEF Has
    <3>3. CASE execs'[u] # execs[u]
      <4>1. fs["Change"][u] = Whole /\ execs'[u] = execs[u] + 1
        BY <2>1, <3>1, <3>3, ExecsFrame DEF Next, UpdateDir
      <4>2. pc' = "rm" /\ First(u)
        <5>1. PICK n \in rest : /\ First(n) /\ pc' = "rm"
                                /\ execs' = IF n \in Updates /\ fs[cwd][n] = Whole
                                            THEN [execs EXCEPT ![n] = @ + 1] ELSE execs
          BY <2>1, <3>3 DEF Exec, Goto
        <5>2. n = u
          BY <1>0, <3>3, <5>1
        <5> QED  BY <5>1, <5>2
      <4> QED  BY <1>0, <1>2, <2>0, <3>1, <4>1, <4>2 DEF First, Has
    <3> QED  BY <3>2, <3>3
  <2>2. CASE RemoveExecuted
    <3>1. PICK n \in rest : First(n) /\ Remove(n) /\ rest' = rest \ {n}
      BY <2>2 DEF RemoveExecuted
    <3>2. UNCHANGED <<execs, crashes>> /\ pc = "rm" /\ cwd = "Change"
      BY <2>2 DEF RemoveExecuted, WatchInv, Serving
    <3>3. n = u => fs'["Change"][u] # Whole
      BY <1>0, <3>1, <3>2, RemoveEffect DEF Torn, Whole, Absent
    <3>4. First(u) /\ fs["Change"][u] = Whole => fs'["Change"][u] = Absent
      <4>1. First(u) => n = u
        BY <3>1, OneFirst DEF First
      <4> QED  BY <1>0, <2>0, <3>3, <4>1
    <3> QED  BY <1>0, <1>2, <2>0, <3>2, <3>4 DEF Has
  <2>3. CASE ~Exec /\ ~RemoveExecuted
    <3>1. execs'[u] = execs[u]
      BY <2>3, ExecsFrame DEF Next
    <3>2. Crash \/ pc # "rm"
      BY <2>3 DEF UpdateDir, Start, Crash, Deliver, Check, Copy, RemoveData, RemoveMarker,
           UpdateBase, Traverse, RemoveBase, CheckNull, List, OpenArchive, WriteArchive
    <3> QED  BY <1>0, <1>2, <2>0, <3>1, <3>2 DEF Has
  <2> QED  BY <2>1, <2>2, <2>3
\* An upload
<1>4. ASSUME NEW x \in Uploads
      PROVE  /\ execs'[x] <= crashes' + 1
             /\ sent[x] \in {"new", "writing"} =>
                  execs'[x] = 0 /\ fs'["Change"][ObmenAll] # x /\ fs'["Base"][ObmenAll] # x
             /\ fs'["Change"][ObmenAll] = x =>
                  execs'[x] = 0 /\ (fs'["Base"][ObmenAll] = x => pc' \notin Importing)
             /\ fs'["Base"][ObmenAll] = x /\ pc' # "rmBase" => execs'[x] <= crashes'
  <2>0. /\ execs[x] \in Nat /\ execs[x] <= crashes + 1
        /\ x # Absent /\ fs'["Change"][ObmenAll] \in {fs["Change"][ObmenAll], Absent}
        /\ sent[x] \in {"new", "writing"} =>
              execs[x] = 0 /\ fs["Change"][ObmenAll] # x /\ fs["Base"][ObmenAll] # x
        /\ fs["Change"][ObmenAll] = x =>
              execs[x] = 0 /\ (fs["Base"][ObmenAll] = x => pc \notin Importing)
        /\ fs["Base"][ObmenAll] = x /\ pc # "rmBase" => execs[x] <= crashes
    BY <1>0 DEF CountInv
  <2>1. CASE Traverse
    <3>1. cwd = "Base" /\ pc = "traverse" /\ UNCHANGED <<fs, crashes>> /\ pc' \in {"hung", "rmBase"}
      BY <2>1 DEF Traverse, CountInv, Goto
    <3>2. \/ execs'[x] = execs[x]
          \/ fs["Base"][ObmenAll] = x /\ pc' = "rmBase" /\ execs'[x] = execs[x] + 1
      BY <3>1, UploadExecs DEF Next
    <3>3. fs["Base"][ObmenAll] = x => execs'[x] = execs[x] \/ pc' = "rmBase"
      BY <3>2
    <3> QED  BY <1>2, <2>0, <3>1, <3>2 DEF Importing
  <2>2. CASE ~Traverse
    <3>1. execs'[x] = execs[x]
      BY <2>2, UploadExecs DEF Next
    <3>2. pc = "rmBase" => Crash \/ RemoveBase
      BY <2>2 DEF UpdateDir, Start, Deliver, Check, Copy, RemoveData, RemoveMarker,
           UpdateBase, CheckNull, List, Exec, RemoveExecuted, OpenArchive, WriteArchive
    <3>3. pc' \in Importing => pc \in Importing \/ RemoveData
      BY <2>2 DEF Importing, Goto, UpdateDir, Start, Crash, Deliver, Check, Copy, RemoveMarker,
           UpdateBase, RemoveBase, CheckNull, List, Exec, RemoveExecuted, OpenArchive, WriteArchive
    <3>4. RemoveData => fs'["Change"][ObmenAll] # x
      <4>1. RemoveData => cwd = "Change"
        BY DEF RemoveData, WatchInv, Serving
      <4> QED  BY <1>0, <4>1, RemoveEffect DEF RemoveData
    <3>5. \/ fs'["Base"][ObmenAll] = fs["Base"][ObmenAll]
          \/ /\ pc = "copy" /\ pc' = "rmData" /\ fs["Base"][ObmenAll] = Absent
             /\ fs'["Base"][ObmenAll] = fs["Change"][ObmenAll]
          \/ pc' = "archive" /\ fs'["Base"][ObmenAll] = Absent
      BY ServiceBase
    <3>6. RemoveBase => fs'["Base"][ObmenAll] = Absent
      <4>1. RemoveBase => Put("Base", ObmenAll, Absent) /\ "Base" \in Dirs /\ Absent \in Content
        BY <1>0 DEF RemoveBase, CountInv, Content
      <4> QED  BY <1>0, <4>1, PutEffect
    <3>7. fs'["Base"][ObmenAll] = x /\ pc' # "rmBase" => execs'[x] <= crashes'
      BY <1>2, <2>0, <3>1, <3>2, <3>5, <3>6
    <3>8. fs'["Change"][ObmenAll] = x =>
            execs'[x] = 0 /\ (fs'["Base"][ObmenAll] = x => pc' \notin Importing)
      BY <1>2, <2>0, <3>1, <3>3, <3>4, <3>5 DEF Importing
    <3> QED  BY <1>2, <2>0, <3>1, <3>5, <3>7, <3>8
  <2> QED  BY <2>1, <2>2
<1>5. (\A x \in Inputs : execs[x] <= crashes + 1)'
  BY <1>0, <1>3, <1>4
<1>6. (\A u \in Updates :
         /\ sent[u] = "new" => execs[u] = 0 /\ ~Has("Change", u)
         /\ Has("Change", u) /\ ~(pc = "rm" /\ First(u) /\ fs["Change"][u] = Whole)
              => execs[u] <= crashes)'
  BY <1>0, <1>3
<1>7. (\A x \in Uploads :
         /\ sent[x] \in {"new", "writing"} =>
              execs[x] = 0 /\ \A d \in Dirs : fs[d][ObmenAll] # x
         /\ fs["Change"][ObmenAll] = x =>
              execs[x] = 0 /\ (fs["Base"][ObmenAll] = x => pc \notin Importing)
         /\ fs["Base"][ObmenAll] = x /\ pc # "rmBase" => execs[x] <= crashes)'
  BY <1>0, <1>4
<1> QED  BY <1>1, <1>5, <1>6, <1>7 DEF CountInv

LEMMA CountInit == Init => CountInv
<1> SUFFICES ASSUME Init PROVE CountInv
  OBVIOUS
<1>1. /\ \A x \in Inputs : execs[x] = 0 /\ sent[x] = "new"
      /\ \A d \in Dirs, n \in Names : fs[d][n] = Absent
      /\ crashes = 0 /\ pc = "down"
  BY DEF Init
<1>2. /\ Inputs = Updates \cup Uploads /\ Updates \subseteq Names /\ ObmenAll \in Names
      /\ "Change" \in Dirs /\ "Base" \in Dirs /\ Absent \notin Uploads
  BY FileNames, ExchangeAssumption DEF Inputs, Names, Dirs
<1> QED  BY <1>1, <1>2 DEF CountInv, Has, Importing

LEMMA CountStep == TypeOK /\ WatchInv /\ CountInv /\ [Next]_vars => CountInv'
<1>1. CountInv /\ UNCHANGED vars => CountInv'
  BY DEF CountInv, Has, First, Importing, vars, service
<1> QED  BY <1>1, CountClient, CountService DEF Next

LEMMA CountAlways == Spec => []CountInv
BY CountInit, CountStep, TypeCorrect, WatchAlways, PTL DEF Spec

(* However the clients overlap and crashes fall, an input goes into the    *)
(* database at most once per life of the process: the removals of          *)
(* updateDir signal the watcher, but leave nothing to execute again.       *)
THEOREM OncePerLifeHolds == Spec => []OncePerLife
<1>1. CountInv => OncePerLife
  BY DEF CountInv, OncePerLife
<1> QED  BY <1>1, CountAlways, PTL

-----------------------------------------------------------------------------
(* What is lost, and what a crash leaves behind *)

\* Which step removes which file of Change/.
LEMMA ServiceRemoves ==
  ASSUME TypeOK, WatchInv, CountInv, UpdateDir \/ Start \/ Crash, NEW n \in Names,
         fs'["Change"][n] # fs["Change"][n]
  PROVE  \/ RemoveData /\ n = ObmenAll /\ pc = "rmData"
         \/ RemoveMarker /\ n = NullObmenAll /\ pc = "rmMarker"
         \/ RemoveExecuted /\ First(n) /\ rest' = rest \ {n}
<1>0. "Change" \in Dirs /\ "Base" \in Dirs /\ Absent \in Content /\ Markers \subseteq Names
  BY FileNames DEF Dirs, Content
<1>1. CASE Copy
  <2>1. fs[cwd][ObmenAll] \in Content
    BY <1>0, FileNames DEF TypeOK
  <2> QED  BY <1>0, <1>1, <2>1, FileNames, PutEffect DEF Copy
<1>2. CASE RemoveData
  BY <1>0, <1>2, FileNames, RemoveEffect DEF RemoveData
<1>3. CASE RemoveMarker
  BY <1>0, <1>3, RemoveEffect DEF RemoveMarker, Markers
<1>4. CASE RemoveExecuted
  <2>1. PICK m \in rest : First(m) /\ Remove(m) /\ rest' = rest \ {m}
    BY <1>4 DEF RemoveExecuted
  <2>2. m \in Names
    BY <2>1 DEF TypeOK
  <2>3. m = n
    BY <1>0, <2>1, <2>2, RemoveEffect
  <2> QED  BY <1>4, <2>1, <2>3
<1>5. CASE RemoveBase
  BY <1>0, <1>5, FileNames, PutEffect DEF RemoveBase, CountInv
<1>6. CASE UNCHANGED fs
  BY <1>6
<1> QED
  BY <1>1, <1>2, <1>3, <1>4, <1>5, <1>6
     DEF UpdateDir, Start, Crash, Deliver, Check, UpdateBase, Traverse, CheckNull,
         List, Exec, OpenArchive, WriteArchive

\* Clients that do not overlap leave Change/ alone while a marker is there.
LEMMA ClientWaits ==
  ASSUME ~Overlap, PoliteInv, Client
  PROVE  \A m \in Markers : ~Has("Change", m)
<1>1. ASSUME NEW x \in Inputs, BeginWrite(x) PROVE \A m \in Markers : ~Has("Change", m)
  BY <1>1 DEF BeginWrite, MayStart
<1>2. (\E x \in Inputs : Busy(x)) => \A m \in Markers : ~Has("Change", m)
  BY DEF PoliteInv
<1>3. Updates \subseteq Inputs
  BY DEF Inputs
<1> QED
  BY <1>1, <1>2, <1>3 DEF Client, EndWrite, AnnounceUpload, AnnounceUpdates, Busy

\* While the list still holds Null.txt, every announced file is on it.
MarkerInv ==
  /\ MarkerOutlivesEarlierNames
  /\ pc \in {"exec", "rm"} /\ Null \in rest =>
       /\ Has("Change", Null)
       /\ \A u \in Updates : sent[u] = "announced" /\ Has("Change", u) => u \in rest

LEMMA MarkerClient ==
  ~Overlap /\ TypeOK /\ PoliteInv /\ MarkerInv /\ Client => MarkerInv'
<1> SUFFICES ASSUME ~Overlap, TypeOK, PoliteInv, MarkerInv, Client PROVE MarkerInv'
  OBVIOUS
<1>0. Null \in Markers /\ Null \in Names /\ Updates \subseteq Inputs /\ Updates \subseteq Names
  BY FileNames DEF Markers, Inputs
<1>1. ~Has("Change", Null) /\ UNCHANGED <<pc, rest>>
  BY <1>0, ClientWaits DEF Client, BeginWrite, EndWrite, AnnounceUpload, AnnounceUpdates, service
<1>2. CASE AnnounceUpdates
  <2>1. Has("Change", Null)'
    <3>1. Put("Change", Null, Whole) /\ "Change" \in Dirs /\ Whole \in Content
      BY <1>2 DEF AnnounceUpdates, Dirs, Content
    <3>2. fs'["Change"][Null] = Whole
      BY <1>0, <3>1, PutEffect
    <3> QED  BY <3>2 DEF Has, Whole, Absent
  <2> QED  BY <1>1, <2>1 DEF MarkerInv, MarkerOutlivesEarlierNames
<1>3. CASE ~AnnounceUpdates
  <2>1. ASSUME NEW u \in Updates, sent'[u] = "announced"
        PROVE  sent[u] = "announced"
    <3>1. u \notin Uploads /\ u \in Inputs /\ sent \in [Inputs -> {"new", "writing", "ready", "announced"}]
      BY <1>0, ExchangeAssumption DEF TypeOK
    <3> QED
      BY <1>3, <2>1, <3>1 DEF Client, BeginWrite, EndWrite, AnnounceUpload
  <2>2. ASSUME NEW u \in Updates, sent'[u] = "announced", Has("Change", u)'
        PROVE  Has("Change", u)
    BY <2>1, <2>2, ClientFrame DEF Has
  <2> QED
    BY <1>1, <2>1, <2>2 DEF MarkerInv, MarkerOutlivesEarlierNames
<1> QED  BY <1>2, <1>3

LEMMA MarkerService ==
  /\ TypeOK /\ WatchInv /\ CountInv /\ PoliteInv /\ MarkerInv
  /\ UpdateDir \/ Start \/ Crash
  => MarkerInv'
<1> SUFFICES ASSUME TypeOK, WatchInv, CountInv, PoliteInv, MarkerInv,
                    UpdateDir \/ Start \/ Crash
             PROVE  MarkerInv'
  OBVIOUS
<1>0. /\ Null \in Names /\ Updates \subseteq Names /\ sent' = sent
      /\ Null \notin {ObmenAll, NullObmenAll}
      /\ \A u \in Updates : u \notin {Null, ObmenAll, NullObmenAll}
      /\ \A n \in Names : Has("Change", n)' => Has("Change", n)
      /\ rest \subseteq Names /\ Rank \in [Names -> Nat]
  <2>1. \A n \in Names : fs'["Change"][n] \in {fs["Change"][n], Absent} /\ sent' = sent
    BY ServiceFrame
  <2>2. Null \in Names
    BY DEF Names, Markers
  <2> QED
    BY <2>1, <2>2, FileNames, ExchangeAssumption
       DEF Has, Names, Markers, Null, ObmenAll, NullObmenAll, TypeOK
<1>1. ASSUME Has("Change", Null), ~Has("Change", Null)'
      PROVE  RemoveExecuted /\ First(Null) /\ rest' = rest \ {Null}
  BY <1>0, <1>1, ServiceRemoves DEF Has
<1>2. RemoveExecuted => pc = "rm"
  BY DEF RemoveExecuted
<1>3. MarkerOutlivesEarlierNames'
  <2> SUFFICES ASSUME NEW u \in Updates, sent[u] = "announced", Has("Change", u)',
                      Rank[u] < Rank[Null], ~Has("Change", Null)'
               PROVE  FALSE
    BY <1>0 DEF MarkerOutlivesEarlierNames
  <2>1. Has("Change", u) /\ Has("Change", Null)
    BY <1>0 DEF MarkerInv, MarkerOutlivesEarlierNames
  <2>2. First(Null) /\ pc = "rm"
    BY <1>1, <1>2, <2>1
  <2>3. u \in rest
    BY <2>1, <2>2 DEF MarkerInv, First
  <2>4. Rank[Null] \in Nat /\ Rank[u] \in Nat /\ Rank[Null] <= Rank[u]
    BY <1>0, <2>2, <2>3 DEF First
  <2> QED  BY <2>4
<1>4. ASSUME pc' \in {"exec", "rm"}, Null \in rest'
      PROVE  /\ Has("Change", Null)'
             /\ \A u \in Updates : sent'[u] = "announced" /\ Has("Change", u)' => u \in rest'
  <2>1. List \/ Exec \/ RemoveExecuted
    BY <1>4 DEF Goto, UpdateDir, Start, Crash, Deliver, Check, Copy, RemoveData, RemoveMarker,
         UpdateBase, Traverse, RemoveBase, CheckNull, OpenArchive, WriteArchive
  <2>2. CASE List
    <3>1. fs' = fs /\ rest' = {n \in Names : Has("Change", n)}
      BY <2>2 DEF List
    <3> QED  BY <1>0, <1>4, <3>1 DEF Has
  <2>3. CASE Exec
    BY <1>4, <2>3 DEF Exec, MarkerInv, Has
  <2>4. CASE RemoveExecuted
    <3>1. PICK n \in rest : First(n) /\ Remove(n) /\ rest' = rest \ {n}
      BY <2>4 DEF RemoveExecuted
    <3>2. pc = "rm" /\ cwd = "Change" /\ Null \in rest /\ n # Null
      BY <1>4, <2>4, <3>1 DEF RemoveExecuted, WatchInv, Serving
    <3>3. Has("Change", Null)'
      <4>1. Has("Change", Null)
        BY <3>2 DEF MarkerInv
      <4> QED  BY <1>1, <3>1, <3>2, <4>1
    <3>4. ASSUME NEW u \in Updates, sent[u] = "announced", Has("Change", u)'
          PROVE  u \in rest'
      <4>1. Has("Change", u) /\ u \in rest /\ fs["Change"][u] = Whole
        BY <1>0, <3>2, <3>4 DEF MarkerInv, PoliteInv
      <4>2. u # n
        BY <1>0, <3>1, <3>2, <3>4, <4>1, RemoveEffect DEF Has, Whole, Torn, Absent
      <4> QED  BY <3>1, <4>1, <4>2
    <3> QED  BY <1>0, <3>3, <3>4
  <2> QED  BY <2>1, <2>2, <2>3, <2>4
<1> QED  BY <1>3, <1>4 DEF MarkerInv

LEMMA MarkerInit == Init => MarkerInv
BY FileNames DEF Init, MarkerInv, MarkerOutlivesEarlierNames, Inputs

LEMMA MarkerStep ==
  /\ ~Overlap /\ TypeOK /\ WatchInv /\ CountInv /\ PoliteInv /\ MarkerInv
  /\ [Next]_vars
  => MarkerInv'
<1>1. MarkerInv /\ UNCHANGED vars => MarkerInv'
  BY DEF MarkerInv, MarkerOutlivesEarlierNames, Has, vars, service
<1> QED
  BY <1>1, MarkerClient, MarkerService DEF Next

(* Of a set of update files that a crash left half served, the marker is   *)
(* still there as long as a file remains whose name precedes it: the next  *)
(* signal makes updateDir finish them.  Clients are assumed not to overlap.*)
THEOREM MarkerOutlives ==
  ASSUME ~Overlap
  PROVE  Spec => []MarkerOutlivesEarlierNames
<1>1. MarkerInv => MarkerOutlivesEarlierNames
  BY DEF MarkerInv
<1> QED
  BY <1>1, MarkerInit, MarkerStep, TypeCorrect, WatchAlways, CountAlways, PoliteAlways, PTL
     DEF Spec

\* As long as nothing has crashed, an upload stays in Base/ only while it is
\* being imported, so copy() never meets an old one.
CleanBase ==
  crashes = 0 /\ Has("Base", ObmenAll) => pc \in Importing \cup {"rmData"}

LEMMA CleanStep ==
  TypeOK /\ WatchInv /\ CountInv /\ CleanBase /\ [Next]_vars => CleanBase'
<1> SUFFICES ASSUME TypeOK, WatchInv, CountInv, CleanBase, [Next]_vars PROVE CleanBase'
  OBVIOUS
<1>1. CASE Client
  <2>1. UNCHANGED <<pc, crashes>> /\ fs'["Base"][ObmenAll] = fs["Base"][ObmenAll]
    BY <1>1, ClientUpload, FileNames
       DEF Client, BeginWrite, EndWrite, AnnounceUpload, AnnounceUpdates, service
  <2> QED  BY <2>1 DEF CleanBase, Has
<1>2. CASE UNCHANGED vars
  BY <1>2 DEF CleanBase, Has, Importing, vars, service
<1>3. CASE UpdateDir \/ Start \/ Crash
  <2> SUFFICES ASSUME crashes' = 0, Has("Base", ObmenAll)'
               PROVE  pc' \in Importing \cup {"rmData"}
    BY DEF CleanBase, Importing
  <2>1. ~Crash /\ crashes = 0
    BY <1>3 DEF TypeOK, UpdateDir, Start, Crash, Deliver, Check, Copy, RemoveData, RemoveMarker,
         UpdateBase, Traverse, RemoveBase, CheckNull, List, Exec, RemoveExecuted,
         OpenArchive, WriteArchive
  <2>2. CASE Copy
    BY <2>2 DEF Copy, Goto
  <2>3. CASE ~Copy
    <3>1. fs'["Base"][ObmenAll] = fs["Base"][ObmenAll] /\ ~RemoveBase
      <4>1. RemoveBase => fs'["Base"][ObmenAll] = Absent
        <5>1. RemoveBase => Put("Base", ObmenAll, Absent) /\ "Base" \in Dirs /\ Absent \in Content
          BY DEF RemoveBase, CountInv, Dirs, Content
        <5> QED  BY <5>1, FileNames, PutEffect
      <4> QED  BY <1>3, <2>3, <4>1, ServiceBase DEF Has
    <3>2. Has("Base", ObmenAll) /\ pc \in Importing \cup {"rmData"}
      BY <2>1, <3>1 DEF CleanBase, Has
    <3> QED
      BY <1>3, <2>1, <2>3, <3>1, <3>2
         DEF Importing, Goto, UpdateDir, Start, Deliver, Check, RemoveData, RemoveMarker, UpdateBase,
             Traverse, CheckNull, List, Exec, RemoveExecuted, OpenArchive, WriteArchive
  <2> QED  BY <2>2, <2>3
<1> QED  BY <1>1, <1>2, <1>3 DEF Next

LEMMA CleanInit == Init => CleanBase
<1>1. "Base" \in Dirs
  BY DEF Dirs
<1> QED  BY <1>1, FileNames DEF Init, CleanBase, Has

LEMMA CleanAlways == Spec => []CleanBase
BY CleanInit, CleanStep, TypeCorrect, WatchAlways, CountAlways, PTL DEF Spec

\* An upload in Change/ has its marker or its client is about to give it one;
\* the list of update files never holds an upload; updateDir removes an upload
\* only when a copy is in Base/, and that one only when it has been imported.
UploadInv ==
  /\ ~(Has("Change", Null) /\ Has("Change", NullObmenAll))
  /\ Has("Change", ObmenAll) => Has("Change", NullObmenAll) \/ \E x \in Uploads : Busy(x)
  /\ fs["Change"][ObmenAll] = Torn => \E x \in Uploads : sent[x] = "writing"
  /\ \A x \in Uploads : sent[x] = "writing" => fs["Change"][ObmenAll] \in {Torn, Absent}
  /\ pc \in {"exec", "rm"} => rest \subseteq Updates \cup {Null}
  /\ pc = "rmMarker" => ~Has("Change", ObmenAll)
  /\ pc = "rmData" =>
       \A x \in Uploads : fs["Change"][ObmenAll] = x =>
         fs["Base"][ObmenAll] = x \/ (crashes > 0 /\ Has("Base", ObmenAll))
  /\ pc = "rmBase" => \A x \in Uploads : fs["Base"][ObmenAll] = x => execs[x] > 0

LEMMA UploadClient ==
  ~Overlap /\ TypeOK /\ WatchInv /\ PoliteInv /\ UploadInv /\ Client => UploadInv'
<1> SUFFICES ASSUME ~Overlap, TypeOK, WatchInv, PoliteInv, UploadInv, Client PROVE UploadInv'
  OBVIOUS
<1>0. /\ UNCHANGED <<pc, rest, execs, crashes>>
      /\ NullObmenAll \in Markers /\ Null \in Markers /\ Markers \subseteq Names
      /\ NullObmenAll # Null /\ ObmenAll \in Names
      /\ Uploads \subseteq Inputs /\ Uploads \cap Updates = {} /\ Inputs = Updates \cup Uploads
      /\ Torn \notin Uploads /\ Torn # Absent
      /\ sent \in [Inputs -> {"new", "writing", "ready", "announced"}]
      /\ {Torn, Whole} \subseteq Content /\ "Change" \in Dirs
  BY FileNames, ExchangeAssumption
     DEF Markers, Null, NullObmenAll, Inputs, Torn, Absent, TypeOK, Content, Dirs,
         Client, BeginWrite, EndWrite, AnnounceUpload, AnnounceUpdates, service
<1>1. ~Has("Change", Null) /\ ~Has("Change", NullObmenAll)
  BY <1>0, ClientWaits
<1>2. pc \notin {"rmData", "rmMarker"}
  BY <1>1 DEF WatchInv
<1>3. fs'["Base"][ObmenAll] = fs["Base"][ObmenAll]
  BY <1>0, ClientUpload
<1>4. ASSUME NEW x \in Inputs, BeginWrite(x) \/ EndWrite(x)
      PROVE  /\ \A m \in Markers : ~Has("Change", m)'
             /\ \A y \in Inputs : Busy(y) => Busy(y)'
  <2>1. \A m \in Markers : fs'["Change"][m] = fs["Change"][m]
    <3>1. FileOf(x) \in Names /\ FileOf(x) \notin Markers
      BY FileNames
    <3>2. (IF x \in Uploads THEN x ELSE Whole) \in Content
      BY <1>0 DEF Content
    <3> QED  BY <1>0, <1>4, <3>1, <3>2, PutEffect DEF BeginWrite, EndWrite
  <2>2. \A y \in Inputs : Busy(y) => Busy(y)'
    BY <1>0, <1>4 DEF BeginWrite, EndWrite, Busy
  <2>3. \A m \in Markers : ~Has("Change", m)
    BY ClientWaits
  <2> QED  BY <2>1, <2>2, <2>3 DEF Has
<1>5. ASSUME NEW x \in Inputs, AnnounceUpload(x)
      PROVE  Has("Change", NullObmenAll)' /\ ~Has("Change", Null)'
  BY <1>0, <1>1, <1>5, PutEffect DEF AnnounceUpload, Has, Whole, Absent
<1>6. ASSUME AnnounceUpdates
      PROVE  /\ ~Has("Change", NullObmenAll)' /\ \A y \in Uploads : sent'[y] = sent[y]
  <2>1. ~Has("Change", NullObmenAll)'
    BY <1>0, <1>1, <1>6, PutEffect DEF AnnounceUpdates, Has
  <2> QED  BY <1>0, <1>6, <2>1 DEF AnnounceUpdates
<1>7. ~(Has("Change", Null)' /\ Has("Change", NullObmenAll)')
  BY <1>0, <1>4, <1>5, <1>6 DEF Client
<1>8. \/ Has("Change", NullObmenAll)'
      \/ \A y \in Uploads : Busy(y) => Busy(y)'
  BY <1>0, <1>4, <1>5, <1>6 DEF Client, Busy
<1>9. /\ Has("Change", ObmenAll)' => Has("Change", NullObmenAll)' \/ \E x \in Uploads : Busy(x)'
      /\ fs'["Change"][ObmenAll] = Torn => \E x \in Uploads : sent'[x] = "writing"
      /\ \A x \in Uploads : sent'[x] = "writing" => fs'["Change"][ObmenAll] \in {Torn, Absent}
  <2>1. CASE /\ fs'["Change"][ObmenAll] = fs["Change"][ObmenAll]
             /\ \A x \in Uploads : sent'[x] = "writing" => sent[x] = "writing"
             /\ \/ \A x \in Uploads : sent[x] = "writing" => sent'[x] = "writing"
                \/ \E x \in Uploads : sent[x] = "writing" /\ ~Has("Change", ObmenAll)
    BY <1>0, <1>1, <1>8, <2>1 DEF UploadInv, Has
  <2>2. ASSUME NEW x \in Uploads, sent'[x] = "writing", fs'["Change"][ObmenAll] = Torn
        PROVE  <1>9!:
    BY <2>2 DEF Busy
  <2>3. ASSUME NEW x \in Uploads, sent[x] = "writing", sent'[x] = "ready",
               \A y \in Uploads \ {x} : sent'[y] = sent[y], fs'["Change"][ObmenAll] = x
        PROVE  <1>9!:
    <3>1. \A y \in Uploads : sent'[y] # "writing"
      BY <1>0, <2>3 DEF PoliteInv, Busy
    <3> QED  BY <1>0, <2>3, <3>1 DEF Busy
  <2> QED  BY <2>1, <2>2, <2>3, ClientUpload
<1> QED  BY <1>0, <1>2, <1>3, <1>7, <1>9 DEF UploadInv

LEMMA UploadService ==
  /\ TypeOK /\ WatchInv /\ CountInv /\ CleanBase /\ PoliteInv /\ UploadInv
  /\ UpdateDir \/ Start \/ Crash
  => UploadInv'
<1> SUFFICES ASSUME TypeOK, WatchInv, CountInv, CleanBase, PoliteInv, UploadInv,
                    UpdateDir \/ Start \/ Crash
             PROVE  UploadInv'
  OBVIOUS
<1>0. /\ sent' = sent /\ ObmenAll \in Names /\ NullObmenAll \in Names /\ Null \in Names
      /\ NullObmenAll \in Markers /\ Null \in Markers
      /\ Null # ObmenAll /\ NullObmenAll # ObmenAll /\ Null # NullObmenAll
      /\ Names = Updates \cup {Null, NullObmenAll, ObmenAll}
      /\ \A n \in Names : fs'["Change"][n] \in {fs["Change"][n], Absent}
      /\ Torn # Absent /\ Uploads \subseteq Inputs /\ Absent \notin Uploads
      /\ NullObmenAll \notin Updates /\ ObmenAll \notin Updates
  BY ServiceFrame, FileNames, ExchangeAssumption
     DEF Markers, Names, Inputs, Null, ObmenAll, NullObmenAll, Torn, Absent
<1>1. ~(Has("Change", Null) /\ Has("Change", NullObmenAll))'
  BY <1>0 DEF UploadInv, Has
<1>2. (Has("Change", ObmenAll) => Has("Change", NullObmenAll) \/ \E x \in Uploads : Busy(x))'
  <2> SUFFICES ASSUME Has("Change", ObmenAll)', \A x \in Uploads : ~Busy(x)
               PROVE  Has("Change", NullObmenAll)'
    BY <1>0 DEF Busy
  <2>1. Has("Change", ObmenAll) /\ Has("Change", NullObmenAll)
    BY <1>0 DEF Has, UploadInv
  <2>2. pc # "rmMarker"
    BY <2>1 DEF UploadInv
  <2>3. ~(RemoveExecuted /\ First(NullObmenAll))
    BY <1>0 DEF RemoveExecuted, First, UploadInv
  <2> QED  BY <1>0, <2>1, <2>2, <2>3, ServiceRemoves DEF Has
<1>3. /\ fs'["Change"][ObmenAll] = Torn => \E x \in Uploads : sent'[x] = "writing"
      /\ \A x \in Uploads : sent'[x] = "writing" => fs'["Change"][ObmenAll] \in {Torn, Absent}
  BY <1>0 DEF UploadInv
<1>4. (pc \in {"exec", "rm"} => rest \subseteq Updates \cup {Null})'
  <2> SUFFICES ASSUME pc' \in {"exec", "rm"} PROVE rest' \subseteq Updates \cup {Null}
    OBVIOUS
  <2>1. CASE List
    <3>1. Has("Change", Null) /\ rest' = {n \in Names : Has("Change", n)}
      BY <2>1 DEF List, PoliteInv
    <3>2. ~Has("Change", NullObmenAll) /\ ~Has("Change", ObmenAll)
      BY <1>0, <3>1 DEF UploadInv, PoliteInv
    <3> QED  BY <1>0, <3>1, <3>2
  <2>2. CASE Exec \/ RemoveExecuted
    BY <2>2 DEF Exec, RemoveExecuted, UploadInv
  <2> QED
    BY <2>1, <2>2 DEF Goto, UpdateDir, Start, Crash, Deliver, Check, Copy, RemoveData, RemoveMarker,
         UpdateBase, Traverse, RemoveBase, CheckNull, OpenArchive, WriteArchive
<1>5. (pc = "rmMarker" => ~Has("Change", ObmenAll))'
  <2> SUFFICES ASSUME RemoveData PROVE ~Has("Change", ObmenAll)'
    BY DEF Goto, UpdateDir, Start, Crash, Deliver, Check, Copy, RemoveMarker, UpdateBase, Traverse,
         RemoveBase, CheckNull, List, Exec, RemoveExecuted, OpenArchive, WriteArchive
  <2>1. cwd = "Change" /\ Has("Change", NullObmenAll) /\ Remove(ObmenAll)
    BY DEF RemoveData, WatchInv, Serving
  <2>2. fs["Change"][ObmenAll] # Torn
    BY <1>0, <2>1 DEF UploadInv, PoliteInv, Busy
  <2> QED  BY <1>0, <2>1, <2>2, RemoveEffect DEF Has
<1>6. ASSUME pc' = "rmData", NEW x \in Uploads, fs'["Change"][ObmenAll] = x
      PROVE  fs'["Base"][ObmenAll] = x \/ (crashes' > 0 /\ Has("Base", ObmenAll)')
  <2>1. Copy
    BY <1>6 DEF Goto, UpdateDir, Start, Crash, Deliver, Check, RemoveData, RemoveMarker, UpdateBase,
         Traverse, RemoveBase, CheckNull, List, Exec, RemoveExecuted, OpenArchive, WriteArchive
  <2>2. cwd = "Change" /\ crashes' = crashes /\ pc = "copy" /\ crashes \in Nat
    BY <2>1 DEF Copy, WatchInv, Serving, TypeOK
  <2>3. fs["Change"][ObmenAll] = x /\ Has("Change", ObmenAll)
    BY <1>0, <1>6 DEF Has
  <2>4. CASE Has("Base", ObmenAll)
    BY <2>1, <2>2, <2>4 DEF Copy, CleanBase, Importing, Has
  <2>5. CASE ~Has("Base", ObmenAll)
    <3>1. Put("Base", ObmenAll, x) /\ x \in Content /\ "Base" \in Dirs
      BY <2>1, <2>2, <2>3, <2>5 DEF Copy, Content, Dirs
    <3> QED  BY <1>0, <3>1, PutEffect
  <2> QED  BY <2>4, <2>5
<1>7. ASSUME pc' = "rmBase", NEW x \in Uploads, fs'["Base"][ObmenAll] = x
      PROVE  execs'[x] > 0
  <2>1. Traverse
    BY <1>7 DEF Goto, UpdateDir, Start, Crash, Deliver, Check, Copy, RemoveData, RemoveMarker, UpdateBase,
         RemoveBase, CheckNull, List, Exec, RemoveExecuted, OpenArchive, WriteArchive
  <2>2. cwd = "Base" /\ fs' = fs /\ execs \in [Inputs -> Nat] /\ x \in Inputs
    BY <1>0, <2>1 DEF Traverse, CountInv, TypeOK
  <2>3. execs' = [execs EXCEPT ![x] = @ + 1]
    BY <1>7, <2>1, <2>2 DEF Traverse, Goto
  <2>4. execs'[x] = execs[x] + 1 /\ execs[x] \in Nat
    BY <2>2, <2>3
  <2> QED  BY <2>4
<1> QED  BY <1>1, <1>2, <1>3, <1>4, <1>5, <1>6, <1>7 DEF UploadInv

LEMMA UploadInit == Init => UploadInv
<1> SUFFICES ASSUME Init PROVE UploadInv
  OBVIOUS
<1>1. \A n \in Names : fs["Change"][n] = Absent
  BY DEF Init, Dirs
<1>2. {Null, NullObmenAll, ObmenAll} \subseteq Names /\ Uploads \subseteq Inputs /\ Torn # Absent
  BY DEF Names, Markers, Inputs, Torn, Absent
<1> QED  BY <1>1, <1>2 DEF Init, UploadInv, Has

LEMMA UploadStep ==
  /\ ~Overlap /\ TypeOK /\ WatchInv /\ CountInv /\ CleanBase /\ PoliteInv /\ UploadInv
  /\ [Next]_vars
  => UploadInv'
<1>1. UploadInv /\ UNCHANGED vars => UploadInv'
  BY DEF UploadInv, Has, Busy, vars, service
<1> QED
  BY <1>1, UploadClient, UploadService DEF Next

\* No last copy of an unexecuted input goes, but for the one that copy() missed.
Kept ==
  \A x \in Inputs :
    Finished(x) /\ execs[x] = 0 /\ Stored(x) /\ ~Stored(x)'
    => crashes > 0 /\ pc = "rmData" /\ fs["Base"][ObmenAll] \notin {Absent, x}

LEMMA KeptStep ==
  /\ ~Overlap /\ TypeOK /\ WatchInv /\ CountInv /\ CleanBase /\ PoliteInv /\ UploadInv
  /\ [Next]_vars
  => [Kept]_vars
<1> SUFFICES ASSUME ~Overlap, TypeOK, WatchInv, CountInv, CleanBase, PoliteInv, UploadInv, Next
             PROVE  Kept
  OBVIOUS
<1> SUFFICES ASSUME NEW x \in Inputs, Finished(x), execs[x] = 0, Stored(x), ~Stored(x)'
             PROVE  crashes > 0 /\ pc = "rmData" /\ fs["Base"][ObmenAll] \notin {Absent, x}
  BY DEF Kept
<1>0. /\ Dirs = {"Change", "Base"} /\ Inputs = Updates \cup Uploads /\ ObmenAll \in Names
      /\ Updates \subseteq Names /\ ObmenAll \notin Updates
      /\ \A y \in Uploads : FileOf(y) = ObmenAll /\ y \notin {Absent, Torn, Whole} /\ y \notin Updates
      /\ \A y \in Updates : FileOf(y) = y
      /\ Whole # Absent /\ \A n \in Updates : n \notin {ObmenAll, NullObmenAll}
  BY FileNames, ExchangeAssumption DEF Dirs, Inputs, Names, Markers, Whole, Absent
<1>1. CASE x \in Updates
  <2>1. \/ fs["Change"][x] = Whole /\ fs'["Change"][x] # Whole
        \/ fs["Base"][x] = Whole /\ fs'["Base"][x] # Whole
    BY <1>0, <1>1 DEF Stored
  <2>2. fs'["Base"][x] = fs["Base"][x]
    BY <1>0, <1>1, ClientUpload, ServiceBase DEF Next
  <2>3. ~Client
    BY <1>1, <2>1, <2>2, ClientFrame DEF Finished, PoliteInv
  <2>4. RemoveExecuted /\ First(x)
    BY <1>0, <1>1, <2>1, <2>2, <2>3, ServiceRemoves DEF Next
  <2> QED  BY <1>0, <1>1, <2>1, <2>2, <2>4 DEF RemoveExecuted, PoliteInv, Has
<1>2. CASE x \in Uploads
  <2>1. \/ fs["Change"][ObmenAll] = x /\ fs'["Change"][ObmenAll] # x /\ fs'["Base"][ObmenAll] # x
        \/ fs["Base"][ObmenAll] = x /\ fs'["Base"][ObmenAll] # x
    BY <1>0, <1>2 DEF Stored
  <2>2. ~Client
    <3> SUFFICES ASSUME Client PROVE FALSE
      OBVIOUS
    <3>1. fs["Change"][ObmenAll] = x /\ fs'["Change"][ObmenAll] # x
      BY <1>0, <2>1, ClientUpload
    <3>2. PICK y \in Uploads : \/ sent[y] = "new" /\ MayStart(y)
                               \/ sent[y] = "writing"
      BY <3>1, ClientUpload
    <3>3. Has("Change", ObmenAll) /\ sent[y] # "writing"
      BY <1>0, <1>2, <3>1 DEF UploadInv, Has
    <3>4. MayStart(y) /\ \A z \in Uploads : ~Busy(z)
      BY <1>0, <3>2, <3>3 DEF MayStart
    <3>5. NullObmenAll \in Markers
      BY DEF Markers
    <3> QED  BY <3>3, <3>4, <3>5 DEF UploadInv, MayStart
  <2>3. CASE fs'["Base"][ObmenAll] # fs["Base"][ObmenAll]
    <3>1. \/ pc = "copy" /\ fs["Base"][ObmenAll] = Absent /\ fs'["Base"][ObmenAll] = fs["Change"][ObmenAll]
             /\ Copy
          \/ pc = "rmBase"
      BY <2>2, <2>3, ServiceBase DEF Next
    <3>2. pc = "rmBase" => fs["Base"][ObmenAll] # x
      BY <1>2 DEF UploadInv
    <3>3. pc = "rmBase" => fs'["Change"][ObmenAll] = fs["Change"][ObmenAll]
      BY <1>0, <2>2, ServiceRemoves DEF Next, RemoveExecuted
    <3> QED  BY <1>0, <1>2, <2>1, <3>1, <3>2, <3>3
  <2>4. CASE fs'["Base"][ObmenAll] = fs["Base"][ObmenAll]
    <3>1. fs["Change"][ObmenAll] = x /\ fs'["Change"][ObmenAll] # x /\ fs["Base"][ObmenAll] # x
      BY <2>1, <2>4
    <3>2. pc = "rmData"
      <4>1. ~(RemoveExecuted /\ First(ObmenAll))
        BY <1>0 DEF RemoveExecuted, First, UploadInv, Null, ObmenAll
      <4>2. ObmenAll # NullObmenAll
        BY DEF ObmenAll, NullObmenAll
      <4> QED  BY <1>0, <2>2, <3>1, <4>1, <4>2, ServiceRemoves DEF Next
    <3> QED  BY <1>2, <3>1, <3>2 DEF UploadInv, Has
  <2> QED  BY <2>3, <2>4
<1> QED  BY <1>0, <1>1, <1>2

(* As long as clients do not overlap, the only removal that deletes the    *)
(* last copy of a finished input the database has not seen is the one      *)
(* after a copy() that failed because a crash had left an old upload in    *)
(* Base/.                                                                  *)
THEOREM OnlyBlockedCopy ==
  ASSUME ~Overlap
  PROVE  Spec => OnlyBlockedCopyLoses
<1>1. OnlyBlockedCopyLoses <=> [][Kept]_vars
  BY PTL DEF OnlyBlockedCopyLoses, Kept
<1>2. Init => UploadInv /\ CleanBase /\ CountInv /\ PoliteInv /\ WatchInv /\ TypeOK
  BY TypeInit, WatchInit, CountInit, CleanInit, PoliteInit, UploadInit
<1> QED
  BY <1>1, <1>2, KeptStep, TypeStep, WatchStep, CountStep, CleanStep, PoliteStep, UploadStep, PTL
     DEF Spec
=============================================================================
