---------------------------- MODULE WinPublisher ----------------------------
(***************************************************************************)
(* The publisher of the Windows capturer: process-wide state that any      *)
(* thread may change through the API, and the capture thread of each       *)
(* successful start().  A step is one access to the locked state, to       *)
(* SHUTDOWN or to the sender slot.  The encoder and the capture sessions   *)
(* of the system may fail or end at any time.                              *)
(***************************************************************************)
EXTENDS Naturals

CONSTANTS Runs,       \* calls of start() that find the publisher stopped
          Displays,
          Rates,      \* settings of the encoder
          None,
          MaxSets     \* calls of the setters

ASSUME WinAssumption == /\ None \notin Runs /\ MaxSets \in Nat
                        /\ Displays # {} /\ Rates # {}

VARIABLES want,            \* State: what the user asked for
          running, needs_rebuild,
          SHUTDOWN,
          sender,          \* the slot: the run whose channel it holds
          dropped,         \* runs whose receiver is gone
          pc,              \* of each run: first the caller of start(), then its thread
          snapshot,        \* of each run: the settings of its capture session
          configured,      \* of each run: its session has had a frame
          sets,            \* setters called
          missed           \* history: a setter ran between snapshot and clear

api == <<want, running, needs_rebuild>>
slot == <<sender, dropped>>
session == <<snapshot, configured>>
history == <<sets, missed>>
vars == <<api, SHUTDOWN, slot, pc, session, history>>

Setting == [display : Displays, rate : Rates]

Starting == {"arm", "channel", "spawn"}
Looping == {"init", "check", "snapshot", "clear", "open", "session", "frame", "recheck"}
Exiting == {"quit", "unslot", "unrun"}
Active(r) == pc[r] \in Starting \cup Looping \cup Exiting

\* State::default(); nobody reads it before the first start().
Default == CHOOSE s \in Setting : TRUE

Goto(r, from, to) == pc[r] = from /\ pc' = [pc EXCEPT ![r] = to]

Init ==
  /\ want = Default /\ running = FALSE /\ needs_rebuild = FALSE
  /\ SHUTDOWN = FALSE
  /\ sender = None /\ dropped = {}
  /\ pc = [r \in Runs |-> "new"]
  /\ snapshot = [r \in Runs |-> Default] /\ configured = [r \in Runs |-> FALSE]
  /\ sets = 0 /\ missed = FALSE
-----------------------------------------------------------------------------
(* The API.                                                                *)

\* Fault: nobody looks whether a publisher is running.
StartAnyway(r, s) ==
  /\ Goto(r, "new", "arm")
  /\ want' = s /\ running' = TRUE /\ needs_rebuild' = FALSE
  /\ UNCHANGED <<SHUTDOWN, slot, session, history>>

\* start(), the locked part; "publisher already running" changes nothing.
start(r, s) ==
  /\ Goto(r, "new", "arm") /\ ~running
  /\ want' = s /\ running' = TRUE /\ needs_rebuild' = FALSE
  /\ UNCHANGED <<SHUTDOWN, slot, session, history>>

Arm(r) == /\ Goto(r, "arm", "channel") /\ SHUTDOWN' = FALSE
          /\ UNCHANGED <<api, slot, session, history>>

Channel(r) == /\ Goto(r, "channel", "spawn") /\ sender' = r
              /\ UNCHANGED <<api, SHUTDOWN, dropped, session, history>>

\* When no thread can be spawned, start() fails and leaves the rest as it is.
Spawn(r) == /\ Goto(r, "spawn", "init") \/ Goto(r, "spawn", "failed")
            /\ UNCHANGED <<api, SHUTDOWN, slot, session, history>>

stop == /\ SHUTDOWN' = TRUE
        /\ UNCHANGED <<api, slot, pc, session, history>>

\* Fault: the flag is forgotten.
SetQuietly(s) ==
  /\ running /\ sets < MaxSets
  /\ want' = s
  /\ sets' = sets + 1 /\ missed' = (missed \/ \E r \in Runs : pc[r] = "clear")
  /\ UNCHANGED <<running, needs_rebuild, SHUTDOWN, slot, pc, session>>

Set(s) ==
  /\ running /\ sets < MaxSets
  /\ want' = s /\ needs_rebuild' = TRUE
  /\ sets' = sets + 1 /\ missed' = (missed \/ \E r \in Runs : pc[r] = "clear")
  /\ UNCHANGED <<running, SHUTDOWN, slot, pc, session>>

select_display(d) == d # want.display /\ Set([want EXCEPT !.display = d])

\* set_bitrate_kbps, set_fps, set_resolution.
set_rate(v) == Set([want EXCEPT !.rate = v])

\* The caller of start() drops the receiver it was given.
DropReceiver(r) ==
  /\ pc[r] \in Looping \cup Exiting \cup {"ended"}
  /\ r \notin dropped /\ dropped' = dropped \cup {r}
  /\ UNCHANGED <<api, SHUTDOWN, sender, pc, session, history>>
-----------------------------------------------------------------------------
(* run_capture_thread.                                                     *)

\* MediaFoundation starts, or the thread ends.
InitThread(r) ==
  /\ Goto(r, "init", "check") \/ Goto(r, "init", "quit")
  /\ UNCHANGED <<api, SHUTDOWN, slot, session, history>>

Check(r) == /\ Goto(r, "check", IF SHUTDOWN THEN "quit" ELSE "snapshot")
            /\ UNCHANGED <<api, SHUTDOWN, slot, session, history>>

Snapshot(r) ==
  /\ Goto(r, "snapshot", "clear")
  /\ snapshot' = [snapshot EXCEPT ![r] = want] /\ missed' = FALSE
  /\ UNCHANGED <<api, SHUTDOWN, slot, configured, sets>>

\* The lock was released in between.
Clear(r) == /\ Goto(r, "clear", "open") /\ needs_rebuild' = FALSE
            /\ UNCHANGED <<want, running, SHUTDOWN, slot, session, history>>

\* A session with a new handler begins; or it fails and the thread sleeps; or
\* there is no monitor and the thread ends.
Open(r) ==
  /\ Goto(r, "open", "session") \/ Goto(r, "open", "recheck") \/ Goto(r, "open", "quit")
  /\ configured' = [configured EXCEPT ![r] = FALSE]
  /\ UNCHANGED <<api, SHUTDOWN, slot, snapshot, history>>

\* Fault: only needs_rebuild is looked at.
FrameUnchecked(r) ==
  /\ Goto(r, "session", "frame")
  /\ UNCHANGED <<api, SHUTDOWN, slot, session, history>>

\* on_frame_arrived: shutting down?
Frame(r) == /\ Goto(r, "session", IF SHUTDOWN THEN "recheck" ELSE "frame")
            /\ UNCHANGED <<api, SHUTDOWN, slot, session, history>>

\* The system closes the session.
Closed(r) == /\ Goto(r, "session", "recheck")
             /\ UNCHANGED <<api, SHUTDOWN, slot, session, history>>

\* Fault: the frame is encoded all the same.
RebuildIgnored(r) ==
  /\ needs_rebuild /\ Goto(r, "frame", "session")
  /\ configured' = [configured EXCEPT ![r] = TRUE]
  /\ UNCHANGED <<api, SHUTDOWN, slot, snapshot, history>>

Rebuild(r) == /\ needs_rebuild /\ Goto(r, "frame", "recheck")
              /\ UNCHANGED <<api, SHUTDOWN, slot, session, history>>

\* The frame has other dimensions than the first one of the session.
Resized(r) ==
  /\ ~needs_rebuild /\ configured[r] /\ Goto(r, "frame", "recheck")
  /\ needs_rebuild' = TRUE
  /\ UNCHANGED <<want, running, SHUTDOWN, slot, session, history>>

\* configure() or buffer() fails and ends the session.
FrameFails(r) ==
  /\ ~needs_rebuild /\ Goto(r, "frame", "recheck")
  /\ UNCHANGED <<api, SHUTDOWN, slot, session, history>>

\* The encoder has no output, or fails for this frame.
NoOutput(r) ==
  /\ ~needs_rebuild /\ Goto(r, "frame", "session")
  /\ configured' = [configured EXCEPT ![r] = TRUE]
  /\ UNCHANGED <<api, SHUTDOWN, slot, snapshot, history>>

\* Fault: a failed send is ignored.
SendRegardless(r) ==
  /\ ~needs_rebuild /\ Goto(r, "frame", "session")
  /\ configured' = [configured EXCEPT ![r] = TRUE]
  /\ UNCHANGED <<api, SHUTDOWN, slot, snapshot, history>>

\* The output goes to the sender in the slot; a dropped receiver ends it all.
Send(r) ==
  /\ ~needs_rebuild
  /\ configured' = [configured EXCEPT ![r] = TRUE]
  /\ \/ /\ sender \in dropped /\ SHUTDOWN' = TRUE
        /\ Goto(r, "frame", "recheck")
     \/ /\ sender \notin dropped /\ UNCHANGED SHUTDOWN
        /\ Goto(r, "frame", "session")
  /\ UNCHANGED <<api, slot, snapshot, history>>

Recheck(r) == /\ Goto(r, "recheck", IF SHUTDOWN THEN "quit" ELSE "check")
              /\ UNCHANGED <<api, SHUTDOWN, slot, session, history>>

\* Fault: the next publisher may start before this one has cleaned up.
QuitUnlocks(r) == /\ Goto(r, "quit", "unslot")
                  /\ SHUTDOWN' = FALSE /\ running' = FALSE
                  /\ UNCHANGED <<want, needs_rebuild, slot, session, history>>

\* The thread's last three writes.
Quit(r) == /\ Goto(r, "quit", "unslot") /\ SHUTDOWN' = FALSE
           /\ UNCHANGED <<api, slot, session, history>>

Unslot(r) == /\ Goto(r, "unslot", "unrun") /\ sender' = None
             /\ UNCHANGED <<api, SHUTDOWN, dropped, session, history>>

Unrun(r) == /\ Goto(r, "unrun", "ended") /\ running' = FALSE
            /\ UNCHANGED <<want, needs_rebuild, SHUTDOWN, slot, session, history>>
-----------------------------------------------------------------------------
\* What the thread of a run, or its starter, does next by itself.
Own(r) == \/ Arm(r) \/ Channel(r) \/ Spawn(r)
          \/ InitThread(r) \/ Check(r) \/ Snapshot(r) \/ Clear(r) \/ Open(r)
          \/ Rebuild(r) \/ Resized(r) \/ FrameFails(r) \/ NoOutput(r) \/ Send(r)
          \/ Recheck(r) \/ Quit(r) \/ Unslot(r) \/ Unrun(r)

Next == \/ stop
        \/ \E d \in Displays : select_display(d)
        \/ \E v \in Rates : set_rate(v)
        \/ \E r \in Runs : \/ \E s \in Setting : start(r, s)
                           \/ Own(r) \/ Frame(r) \/ Closed(r) \/ DropReceiver(r)

\* Threads run.  The rest is about the screen: frames keep coming, sessions do
\* not fail for ever, and now and then the encoder has output.
Fairness ==
  \A r \in Runs : /\ WF_vars(Own(r))
                  /\ SF_vars(Open(r) /\ pc'[r] = "session")
                  /\ SF_vars(Frame(r))
                  /\ SF_vars(Send(r))

Spec == Init /\ [][Next]_vars /\ Fairness
-----------------------------------------------------------------------------
TypeOK ==
  /\ want \in Setting /\ running \in BOOLEAN /\ needs_rebuild \in BOOLEAN
  /\ SHUTDOWN \in BOOLEAN
  /\ sender \in Runs \cup {None} /\ dropped \subseteq Runs
  /\ pc \in [Runs -> {"new", "failed", "ended"} \cup Starting \cup Looping \cup Exiting]
  /\ snapshot \in [Runs -> Setting] /\ configured \in [Runs -> BOOLEAN]
  /\ sets \in Nat /\ missed \in BOOLEAN

\* "publisher already running": one run at a time drives the globals, from the
\* locked part of its start() to the last write of its thread.
OneAtATime == \A r, q \in Runs : Active(r) /\ Active(q) => r = q

\* A thread finds its own channel in the slot: the last writes of the thread
\* before it never hit its successor.
SenderIsOwn == \A r \in Runs : pc[r] \in Looping => sender = r

\* "subsequent set_* calls during this run will re-set it": a session whose
\* settings are out of date has its rebuild coming, unless the setter ran between
\* the snapshot and the clearing of the flag.
StaleIsFlagged ==
  \A r \in Runs : pc[r] \in {"open", "session", "frame"} /\ snapshot[r] # want
    => needs_rebuild \/ missed

\* "the loop tears the session down on its next frame and rebuilds with the new
\* value": a flagged change reaches a session, or the run ends.
RetunesApply ==
  \A r \in Runs :
    pc[r] \in Looping /\ needs_rebuild
      ~> (pc[r] = "session" /\ snapshot[r] = want) \/ missed \/ pc[r] \notin Looping

\* A stop() that comes after start() has armed SHUTDOWN ends the run.
StopEnds ==
  \A r \in Runs : SHUTDOWN /\ pc[r] \in {"channel", "spawn"} \cup Looping
                    ~> pc[r] \in {"ended", "failed"}

\* "End the session in that case": once the receiver is dropped the run ends and
\* the publisher can be started again.
DroppedReceiverEnds == \A r \in Runs : r \in dropped ~> pc[r] = "ended"
=============================================================================
