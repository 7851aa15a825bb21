------------------------- MODULE UnixInstallProofs -------------------------
(***************************************************************************)
(* Proofs about UnixInstall, for any processes and any copies.  Type       *)
(* correctness and what a call that returned true has done are proved      *)
(* together: that a call which found no group may say so rests on the      *)
(* group being whole or absent.                                            *)
(***************************************************************************)
EXTENDS UnixInstall, TLAPS

\* The group is that of one copy, or there is none.
EntriesOfOneCopy == settings = Empty \/ \E p \in Copies : settings = Entries(p)

\* Whoever is about to install has a copy to install; whoever looks for a
\* process or reads the path is starting.
Underway == \A c \in Callers :
  /\ upc[c] = "checked" /\ uop[c] = "install" => copy[c] \in Copies
  /\ upc[c] \in {"running?", "path"} => uop[c] = "start"

IInv == TypeOK /\ EntriesOfOneCopy /\ TrueMeansDone /\ Underway /\ DOMAIN known = Callers

\* A group that was written has keys, the group that was removed has none.
LEMMA GroupIsThere ==
  ASSUME NEW p \in Copies
  PROVE  Entries(p) # Empty /\ DOMAIN Entries(p) = {"path", "description", "automaticStartup"}
BY DEF Entries, Empty

\* Found out by isInstalled, the group is that of a copy; otherwise it is empty.
LEMMA InstalledMeansEntries ==
  ASSUME EntriesOfOneCopy
  PROVE  IF isInstalled THEN settings # Empty /\ \E p \in Copies : settings = Entries(p)
                        ELSE settings = Empty
<1>1. CASE settings = Empty
  BY <1>1 DEF isInstalled, Empty
<1>2. CASE \E p \in Copies : settings = Entries(p)
  BY <1>2, GroupIsThere DEF isInstalled, Empty
<1> QED  BY <1>1, <1>2 DEF EntriesOfOneCopy

LEMMA InitIInv == Init => IInv
<1> SUFFICES ASSUME Init PROVE IInv  OBVIOUS
<1>1. TypeOK
  BY DEF Init, TypeOK, Empty
<1>2. EntriesOfOneCopy /\ TrueMeansDone /\ Underway /\ DOMAIN known = Callers
  BY DEF Init, EntriesOfOneCopy, TrueMeansDone, Underway
<1> QED  BY <1>1, <1>2 DEF IInv

\* Each action by itself; a leaf proves one conjunct of the invariant.
LEMMA NextIInv == IInv /\ [Next]_uvars => IInv'
<1> SUFFICES ASSUME IInv, [Next]_uvars PROVE IInv'  OBVIOUS
<1>1. CASE UNCHANGED uvars
  BY <1>1 DEF IInv, TypeOK, EntriesOfOneCopy, TrueMeansDone, Underway, uvars
<1>2. ASSUME NEW c \in Callers, Call(c) PROVE IInv'
  <2>1. IF isInstalled THEN settings # Empty /\ \E p \in Copies : settings = Entries(p)
                       ELSE settings = Empty
    BY InstalledMeansEntries DEF IInv
  <2>2. TypeOK /\ EntriesOfOneCopy /\ TrueMeansDone /\ Underway /\ DOMAIN known = Callers
    BY DEF IInv
  <2>3. ASSUME NEW p \in Copies, Install(c, p) PROVE IInv'
    <3>1. TypeOK'
      BY <2>2, <2>3 DEF Install, Return, Continue, TypeOK
    <3>2. EntriesOfOneCopy' /\ DOMAIN known' = Callers
      BY <2>2, <2>3 DEF Install, Return, Continue, EntriesOfOneCopy
    <3>3. TrueMeansDone'
      BY <2>1, <2>2, <2>3 DEF Install, Return, Continue, TypeOK, TrueMeansDone
    <3>4. Underway'
      BY <2>2, <2>3 DEF Install, Return, Continue, TypeOK, Underway
    <3> QED  BY <3>1, <3>2, <3>3, <3>4 DEF IInv
  <2>4. CASE Uninstall(c)
    <3>1. TypeOK'
      BY <2>2, <2>4 DEF Uninstall, Return, Continue, TypeOK
    <3>2. EntriesOfOneCopy' /\ DOMAIN known' = Callers
      BY <2>2, <2>4 DEF Uninstall, Return, Continue, EntriesOfOneCopy
    <3>3. TrueMeansDone'
      BY <2>1, <2>2, <2>4 DEF Uninstall, Return, Continue, TypeOK, TrueMeansDone
    <3>4. Underway'
      BY <2>2, <2>4 DEF Uninstall, Return, Continue, TypeOK, Underway
    <3> QED  BY <3>1, <3>2, <3>3, <3>4 DEF IInv
  <2>5. CASE Write(c)
    <3>1. TypeOK'
      BY <2>1, <2>2, <2>5, GroupIsThere DEF Write, Return, TypeOK, Underway, StartupType, Empty
    <3>2. EntriesOfOneCopy' /\ DOMAIN known' = Callers
      BY <2>1, <2>2, <2>5 DEF Write, Return, EntriesOfOneCopy, Underway
    <3>3. TrueMeansDone'
      BY <2>1, <2>2, <2>5, GroupIsThere DEF Write, Return, TypeOK, TrueMeansDone, Underway
    <3>4. Underway'
      BY <2>2, <2>5 DEF Write, Return, TypeOK, Underway
    <3> QED  BY <3>1, <3>2, <3>3, <3>4 DEF IInv
  <2>6. CASE Remove(c)
    <3>1. TypeOK'
      BY <2>2, <2>6 DEF Remove, Return, TypeOK, Empty
    <3>2. EntriesOfOneCopy' /\ DOMAIN known' = Callers
      BY <2>2, <2>6 DEF Remove, Return, EntriesOfOneCopy
    <3>3. TrueMeansDone'
      BY <2>1, <2>2, <2>6 DEF Remove, Return, TypeOK, TrueMeansDone
    <3>4. Underway'
      BY <2>2, <2>6 DEF Remove, Return, TypeOK, Underway
    <3> QED  BY <3>1, <3>2, <3>3, <3>4 DEF IInv
  <2>7. CASE AccessError(c)
    <3>1. TypeOK'
      BY <2>2, <2>7 DEF AccessError, Return, TypeOK
    <3>2. EntriesOfOneCopy' /\ DOMAIN known' = Callers
      BY <2>2, <2>7 DEF AccessError, Return, EntriesOfOneCopy
    <3>3. TrueMeansDone'
      BY <2>1, <2>2, <2>7 DEF AccessError, Return, TypeOK, TrueMeansDone
    <3>4. Underway'
      BY <2>2, <2>7 DEF AccessError, Return, TypeOK, Underway
    <3> QED  BY <3>1, <3>2, <3>3, <3>4 DEF IInv
  <2>8. CASE Start(c)
    <3>1. TypeOK'
      BY <2>2, <2>8 DEF Start, Return, Continue, TypeOK
    <3>2. EntriesOfOneCopy' /\ DOMAIN known' = Callers
      BY <2>2, <2>8 DEF Start, Return, Continue, EntriesOfOneCopy
    <3>3. TrueMeansDone'
      BY <2>1, <2>2, <2>8 DEF Start, Return, Continue, TypeOK, TrueMeansDone
    <3>4. Underway'
      BY <2>2, <2>8 DEF Start, Return, Continue, TypeOK, Underway
    <3> QED  BY <3>1, <3>2, <3>3, <3>4 DEF IInv
  <2>9. CASE isRunning(c)
    <3>1. TypeOK'
      BY <2>2, <2>9 DEF isRunning, Return, Continue, TypeOK
    <3>2. EntriesOfOneCopy' /\ DOMAIN known' = Callers
      BY <2>2, <2>9 DEF isRunning, Return, Continue, EntriesOfOneCopy
    <3>3. TrueMeansDone'
      BY <2>1, <2>2, <2>9 DEF isRunning, Return, Continue, TypeOK, TrueMeansDone
    <3>4. Underway'
      BY <2>2, <2>9 DEF isRunning, Return, Continue, TypeOK, Underway
    <3> QED  BY <3>1, <3>2, <3>3, <3>4 DEF IInv
  <2>10. CASE startDetached(c)
    <3>1. CASE isInstalled
      <4>1. PICK p \in Copies : settings = Entries(p)
        BY <2>1, <3>1
      <4>2. PICK r \in {"true", "false"} :
              /\ copy' = [copy EXCEPT ![c] = p] /\ Return(c, r) /\ upc[c] = "path"
              /\ settings' = settings /\ settings'.path = p /\ uop' = uop
        BY <2>10, <3>1, <4>1 DEF startDetached, Entries
      <4>3. TypeOK'
        BY <2>2, <4>2 DEF Return, TypeOK
      <4>4. EntriesOfOneCopy' /\ DOMAIN known' = Callers
        BY <2>2, <4>2 DEF Return, EntriesOfOneCopy
      <4>5. TrueMeansDone'
        BY <2>1, <2>2, <3>1, <4>2 DEF Return, TypeOK, TrueMeansDone, Underway
      <4>6. Underway'
        BY <2>2, <4>2 DEF Return, TypeOK, Underway
      <4> QED  BY <4>3, <4>4, <4>5, <4>6 DEF IInv
    <3>2. CASE ~isInstalled
      <4>1. Return(c, "false") /\ UNCHANGED <<settings, uop, copy>>
        BY <2>10, <3>2 DEF startDetached
      <4>2. TypeOK'
        BY <2>2, <4>1 DEF Return, TypeOK
      <4>3. EntriesOfOneCopy' /\ TrueMeansDone' /\ Underway' /\ DOMAIN known' = Callers
        BY <2>2, <4>1 DEF Return, TypeOK, EntriesOfOneCopy, TrueMeansDone, Underway
      <4> QED  BY <4>2, <4>3 DEF IInv
    <3> QED  BY <3>1, <3>2
  <2>11. CASE startupType(c)
    <3>1. TypeOK'
      BY <2>2, <2>11 DEF startupType, Return, TypeOK, StartupType
    <3>2. EntriesOfOneCopy' /\ DOMAIN known' = Callers
      BY <2>2, <2>11 DEF startupType, Return, EntriesOfOneCopy
    <3>3. TrueMeansDone'
      BY <2>1, <2>2, <2>11 DEF startupType, Return, TypeOK, TrueMeansDone
    <3>4. Underway'
      BY <2>2, <2>11 DEF startupType, Return, TypeOK, Underway
    <3> QED  BY <3>1, <3>2, <3>3, <3>4 DEF IInv
  <2> QED  BY <1>2, <2>3, <2>4, <2>5, <2>6, <2>7, <2>8, <2>9, <2>10, <2>11 DEF Call
<1> QED  BY <1>1, <1>2 DEF Next

-----------------------------------------------------------------------------

\* Type correctness of the installation, for any processes and copies.
THEOREM TypeCorrect == Spec => []TypeOK
<1>1. IInv => TypeOK
  BY DEF IInv
<1> QED  BY InitIInv, NextIInv, <1>1, PTL DEF Spec

\* A call that returned true did what it is for (qtservice.cpp:779-808;
\* qtservice_unix.cpp:192, 214-218, 432-443).
THEOREM TrueAnswers == Spec => []TrueMeansDone
<1>1. IInv => TrueMeansDone
  BY DEF IInv
<1> QED  BY InitIInv, NextIInv, <1>1, PTL DEF Spec
=============================================================================
