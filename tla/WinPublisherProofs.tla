------------------------ MODULE WinPublisherProofs ------------------------
(***************************************************************************)
(* Proofs about the Windows publisher, for any number of runs, displays,   *)
(* rates and setter calls.                                                 *)
(***************************************************************************)
EXTENDS WinPublisher, TLAPS

USE WinAssumption DEF Starting, Looping, Exiting

\* A run owns the globals from start() on; a start() that could not spawn its
\* thread owns them for good.
Busy(r) == Active(r) \/ pc[r] = "failed"

Ownership ==
  /\ \A r \in Runs : Busy(r) => running
  /\ \A r, q \in Runs : Busy(r) /\ Busy(q) => r = q

\* The slot is the run's own from the moment it is filled until it is emptied.
SlotOwned ==
  \A r \in Runs : pc[r] \in Looping \cup {"spawn", "quit", "unslot"} => sender = r

\* Between snapshot and clear only a setter makes the snapshot stale.
Tracked == \A r \in Runs : pc[r] = "clear" /\ snapshot[r] # want => missed

WinInv == TypeOK /\ Ownership /\ SlotOwned /\ Tracked /\ StaleIsFlagged

LEMMA DefaultIsSetting == Default \in Setting
<1>1. PICK d \in Displays, v \in Rates : TRUE
  OBVIOUS
<1>2. [display |-> d, rate |-> v] \in Setting
  BY DEF Setting
<1> HIDE DEF Setting
<1> QED
  BY <1>2, Zenon DEF Default

LEMMA WinInvariant == Spec => []WinInv
<1>1. Init => WinInv
  <2> SUFFICES ASSUME Init PROVE WinInv
    OBVIOUS
  <2>1. TypeOK
    BY DefaultIsSetting DEF Init, TypeOK
  <2>2. Ownership /\ SlotOwned /\ Tracked /\ StaleIsFlagged
    BY DEF Init, Ownership, Busy, Active, SlotOwned, Tracked, StaleIsFlagged
  <2> QED
    BY <2>1, <2>2 DEF WinInv
<1>2. WinInv /\ [Next]_vars => WinInv'
  <2> SUFFICES ASSUME WinInv, [Next]_vars PROVE WinInv'
    OBVIOUS
  <2> USE DEF WinInv, TypeOK, Ownership, Busy, Active, SlotOwned, Tracked,
              StaleIsFlagged, Goto, api, slot, session, history
  <2>1. CASE stop
    BY <2>1 DEF stop
  <2>2. ASSUME NEW s \in Setting, Set(s) PROVE WinInv'
    <3>1. /\ running /\ want' = s /\ needs_rebuild' = TRUE /\ sets' = sets + 1
          /\ missed' = (missed \/ \E r \in Runs : pc[r] = "clear")
          /\ UNCHANGED <<running, SHUTDOWN, sender, dropped, pc, snapshot, configured>>
      BY <2>2 DEF Set
    <3>2. missed' \in BOOLEAN /\ (missed' <=> missed \/ \E r \in Runs : pc[r] = "clear")
      BY <3>1, Zenon
    <3>3. TypeOK'
      BY <3>1, <3>2
    <3> QED
      BY <3>1, <3>2, <3>3
  <2>3. ASSUME NEW d \in Displays, select_display(d) PROVE WinInv'
    <3>1. [want EXCEPT !.display = d] \in Setting
      BY DEF Setting
    <3> QED
      BY <2>2, <2>3, <3>1 DEF select_display
  <2>4. ASSUME NEW v \in Rates, set_rate(v) PROVE WinInv'
    <3>1. [want EXCEPT !.rate = v] \in Setting
      BY DEF Setting
    <3> QED
      BY <2>2, <2>4, <3>1 DEF set_rate
  <2>5. ASSUME NEW r \in Runs, NEW s \in Setting, start(r, s) PROVE WinInv'
    BY <2>5, ZenonT(60) DEF start
  <2>6. ASSUME NEW r \in Runs, Arm(r) \/ Channel(r) \/ Spawn(r) PROVE WinInv'
    <3>1. ASSUME Arm(r) PROVE WinInv'
      BY <3>1, ZenonT(60) DEF Arm
    <3>2. ASSUME Channel(r) PROVE WinInv'
      BY <3>2 DEF Channel
    <3>3. ASSUME Spawn(r) PROVE WinInv'
      BY <3>3 DEF Spawn
    <3> QED
      BY <2>6, <3>1, <3>2, <3>3
  <2>7. ASSUME NEW r \in Runs, InitThread(r) \/ Check(r) \/ Open(r) PROVE WinInv'
    <3>1. ASSUME InitThread(r) PROVE WinInv'
      BY <3>1 DEF InitThread
    <3>2. ASSUME Check(r) PROVE WinInv'
      BY <3>2 DEF Check
    <3>3. ASSUME Open(r) PROVE WinInv'
      BY <3>3 DEF Open
    <3> QED
      BY <2>7, <3>1, <3>2, <3>3
  <2>8. ASSUME NEW r \in Runs, Snapshot(r) PROVE WinInv'
    BY <2>8, ZenonT(60) DEF Snapshot
  <2>9. ASSUME NEW r \in Runs, Clear(r) PROVE WinInv'
    BY <2>9, ZenonT(60) DEF Clear
  <2>10. ASSUME NEW r \in Runs, Frame(r) \/ Closed(r) \/ DropReceiver(r) PROVE WinInv'
    BY <2>10 DEF Frame, Closed, DropReceiver
  <2>11. ASSUME NEW r \in Runs, Rebuild(r) \/ Resized(r) \/ FrameFails(r) PROVE WinInv'
    <3>1. ASSUME Rebuild(r) PROVE WinInv'
      BY <3>1 DEF Rebuild
    <3>2. ASSUME Resized(r) PROVE WinInv'
      BY <3>2 DEF Resized
    <3>3. ASSUME FrameFails(r) PROVE WinInv'
      BY <3>3 DEF FrameFails
    <3> QED
      BY <2>11, <3>1, <3>2, <3>3
  <2>12. ASSUME NEW r \in Runs, NoOutput(r) \/ Send(r) PROVE WinInv'
    <3>1. ASSUME NoOutput(r) PROVE WinInv'
      BY <3>1 DEF NoOutput
    <3>2. ASSUME Send(r) PROVE WinInv'
      <4>1. CASE sender \in dropped
        <5>1. /\ pc[r] = "frame" /\ pc' = [pc EXCEPT ![r] = "recheck"] /\ SHUTDOWN' = TRUE
              /\ configured' = [configured EXCEPT ![r] = TRUE]
              /\ UNCHANGED <<want, running, needs_rebuild, sender, dropped, snapshot, sets, missed>>
          BY <3>2, <4>1 DEF Send
        <5>2. TypeOK'
          BY <5>1
        <5> QED
          BY <5>1, <5>2
      <4>2. CASE sender \notin dropped
        BY <3>2, <4>2 DEF Send
      <4> QED
        BY <4>1, <4>2
    <3> QED
      BY <2>12, <3>1, <3>2
  <2>13. ASSUME NEW r \in Runs, Recheck(r) \/ Quit(r) PROVE WinInv'
    <3>1. ASSUME Recheck(r) PROVE WinInv'
      BY <3>1 DEF Recheck
    <3>2. ASSUME Quit(r) PROVE WinInv'
      BY <3>2, ZenonT(60) DEF Quit
    <3> QED
      BY <2>13, <3>1, <3>2
  <2>14. ASSUME NEW r \in Runs, Unslot(r) PROVE WinInv'
    BY <2>14 DEF Unslot
  <2>15. ASSUME NEW r \in Runs, Unrun(r) PROVE WinInv'
    BY <2>15, ZenonT(60) DEF Unrun
  <2>16. CASE UNCHANGED vars
    BY <2>16 DEF vars
  <2> HIDE DEF WinInv
  <2> QED
    BY <2>1, <2>3, <2>4, <2>5, <2>6, <2>7, <2>8, <2>9, <2>10, <2>11, <2>12,
       <2>13, <2>14, <2>15, <2>16 DEF Next, Own
<1> QED
  BY <1>1, <1>2, PTL DEF Spec

\* The publisher's state has its type.
THEOREM TypeCorrect == Spec => []TypeOK
BY WinInvariant, PTL DEF WinInv

\* From start() to the last write of the capture thread, one run owns the
\* process-wide state.
THEOREM OneRun == Spec => []OneAtATime
<1>1. WinInv => OneAtATime
  BY DEF WinInv, Ownership, Busy, OneAtATime
<1> QED
  BY <1>1, WinInvariant, PTL

\* A capture thread always finds its own channel in the slot.
THEOREM OwnSender == Spec => []SenderIsOwn
<1>1. WinInv => SenderIsOwn
  BY DEF WinInv, SlotOwned, SenderIsOwn
<1> QED
  BY <1>1, WinInvariant, PTL

\* A stale session has its rebuild coming, but for the one window in which a
\* setter is missed.
THEOREM NoOtherMiss == Spec => []StaleIsFlagged
BY WinInvariant, PTL DEF WinInv
=============================================================================
