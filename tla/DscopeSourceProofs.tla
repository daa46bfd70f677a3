------------------------- MODULE DscopeSourceProofs -------------------------
(***************************************************************************)
(* Proofs about DscopeSource, for any devices, scans, number of captures,  *)
(* queue length and settings, when deactivate() is not called while a      *)
(* capture is starting (CallerWaits). S is the session once more, with the *)
(* lemmas of SigSessionProofs.                                             *)
(***************************************************************************)
EXTENDS DscopeSource, SequenceTheorems, TLAPS

S == INSTANCE SigSessionProofs

SessionInv == S!TypeOK /\ S!StartInv /\ S!DeviceInv /\ S!PatientInv /\ S!QueueInv

(* After the device manager is deleted nothing is left of it but its types. *)
Ending == {"sr_destroy", "del_session", "destructing"}

EverySessionInv == S!TypeOK /\ S!StartInv /\ (life \notin Ending => SessionInv)

(* Where the actor is, and that no sampling thread is left whenever it is
   past a deactivate() and wherever the block is taken apart. *)
PhaseInv ==
    /\ life \in Lives
    /\ life \in {"none", "failed"} => at = "idle" /\ dev_inst = NoDevice
    /\ life = "constructing" => at \in {"idle", "use"}
    /\ life \in {"inactive", "active"} => at \in {"idle", "stop", "sr_stop", "join", "spawn"}
    /\ life = "inactive" /\ at # "idle" => call = "stop"
    /\ life = "active" /\ at # "idle" => call = "start"
    /\ life \in {"taking", "del_manager", "sr_destroy", "del_session"} => at = "idle"
    /\ life = "destructing" => call = "destroy" /\ at \notin {"idle", "spawn", "use"}
    /\ life \notin {"active", "taking"} /\ (life = "inactive" => at = "idle")
          => Session!Live = {}
    /\ queue_alive = (life \in Built \cup {"constructing"})
    /\ DeviceReady

----------------------------------------------------------------------------
(* The two instances of SigSession are one. *)
LEMMA SessionAssumptions ==
    S!DeviceAssumption /\ S!SessionBoundAssumption /\ S!CallerAssumption
BY SessionAssumption DEF S!DeviceAssumption, S!SessionBoundAssumption, S!CallerAssumption

(* Their sets of threads and their ends are the same. *)
LEMMA SameSets == /\ Session!Live = S!Live /\ Session!Starting = S!Starting
                  /\ Session!Captures = S!Captures /\ Session!Crashes = S!Crashes
BY DEF Session!Live, S!Live, Session!Starting, S!Starting, Session!Captures, S!Captures,
       Session!Crashes, S!Crashes

(* They start alike. *)
LEMMA SameInit == Session!Init => S!Init
BY DEF Session!Init, S!Init, Session!Captures, S!Captures, Session!NoSession, S!NoSession

(* A call of the one is a step of the other. *)
LEMMA SameCalls ==
    /\ Session!CallStart("start") => S!Next
    /\ Session!CallStartUnusable => S!Next
    /\ Session!CallStop => S!Next
    /\ Session!CallDestroy => S!Next
    /\ \A d \in Devices : Session!CallSetDevice(d) => S!Next
<1> USE DEF S!Next, S!Caller, Session!MayCall, S!MayCall, Session!Enter, S!Enter,
        Session!Alive, S!Alive, Session!Starting, S!Starting, Session!Captures, S!Captures,
        Session!deviceVars, S!deviceVars, Session!callerVars, S!callerVars,
        Session!threadVars, S!threadVars
<1>1. Session!CallStart("start") => S!Next
  BY DEF Session!CallStart, S!CallStart
<1>2. Session!CallStartUnusable => S!Next
  BY DEF Session!CallStartUnusable, S!CallStartUnusable
<1>3. Session!CallStop => S!Next
  BY DEF Session!CallStop, S!CallStop
<1>4. Session!CallDestroy => S!Next
  BY DEF Session!CallDestroy, S!CallDestroy
<1>5. ASSUME NEW d \in Devices, Session!CallSetDevice(d) PROVE S!Next
  BY <1>5 DEF Session!CallSetDevice, S!CallSetDevice
<1> QED BY <1>1, <1>2, <1>3, <1>4, <1>5

(* So is a step inside a method. *)
LEMMA SameMethod == Session!Method => S!Next
<1> USE DEF S!Next, S!Method, Session!Alive, S!Alive, Session!Crash, S!Crash,
        Session!NoSession, S!NoSession, Session!AfterStop, S!AfterStop, Session!Live, S!Live,
        Session!Captures, S!Captures,
        Session!deviceVars, S!deviceVars, Session!callerVars, S!callerVars,
        Session!threadVars, S!threadVars
<1>1. Session!StopCheck => S!Next
  BY DEF Session!StopCheck, S!StopCheck
<1>2. Session!SrStop => S!Next
  BY DEF Session!SrStop, S!SrStop
<1>3. Session!StopJoin => S!Next
  BY DEF Session!StopJoin, S!StopJoin
<1>4. Session!StartCapture => S!Next
  BY DEF Session!StartCapture, S!StartCapture
<1>5. Session!NoProbesEnabled => S!Next
  BY DEF Session!NoProbesEnabled, S!NoProbesEnabled
<1>6. Session!ReleaseNull \/ Session!ReleaseAssert \/ Session!ReleaseDevice => S!Next
  BY DEF Session!ReleaseNull, S!ReleaseNull, Session!ReleaseAssert, S!ReleaseAssert,
         Session!ReleaseDevice, S!ReleaseDevice
<1>7. Session!DestroySession \/ Session!ClearSession => S!Next
  BY DEF Session!DestroySession, S!DestroySession, Session!ClearSession, S!ClearSession
<1>8. Session!UseNone \/ Session!UseDevice \/ Session!UseThrows => S!Next
  BY DEF Session!UseNone, S!UseNone, Session!UseDevice, S!UseDevice,
         Session!UseThrows, S!UseThrows
<1> QED BY <1>1, <1>2, <1>3, <1>4, <1>5, <1>6, <1>7, <1>8 DEF Session!Method

(* So is a step of a sampling thread. *)
LEMMA SameThread ==
    ASSUME NEW t \in Session!Captures, Session!SamplingThread(t)
    PROVE  S!Next
<1> USE DEF S!Next, S!SamplingThread, Session!Alive, S!Alive, Session!Crash, S!Crash,
        Session!Step, S!Step,
        Session!deviceVars, S!deviceVars, Session!callerVars, S!callerVars,
        Session!threadVars, S!threadVars
<1>0. t \in S!Captures
  BY SameSets
<1>1. Session!ThreadStart(t) \/ Session!ThreadStartThrows(t) => S!Next
  BY <1>0 DEF Session!ThreadStart, S!ThreadStart, Session!ThreadStartThrows,
              S!ThreadStartThrows
<1>2. Session!SetRunning(t) \/ Session!RunReturn(t) \/ Session!SetStopped(t) => S!Next
  BY <1>0 DEF Session!SetRunning, S!SetRunning, Session!RunReturn, S!RunReturn,
              Session!SetStopped, S!SetStopped
<1>3. Session!RunPacket(t) \/ Session!Callback(t) => S!Next
  BY <1>0 DEF Session!RunPacket, S!RunPacket, Session!Callback, S!Callback,
              Session!AssertSession, S!AssertSession,
              Session!AssertSessionFails, S!AssertSessionFails,
              Session!DataFeedIn, S!DataFeedIn, Session!DataFeedInNull, S!DataFeedInNull
<1>4. Session!RunAbort(t) \/ Session!RunEnds(t) \/ Session!RunFreed(t) => S!Next
  BY <1>0 DEF Session!RunAbort, S!RunAbort, Session!RunEnds, S!RunEnds,
              Session!RunFreed, S!RunFreed
<1> QED BY <1>1, <1>2, <1>3, <1>4 DEF Session!SamplingThread

(* What SigSessionProofs shows of a session's step. *)
LEMMA TypesStep ==
    ASSUME S!TypeOK, S!StartInv, [S!Next]_(S!vars)
    PROVE  S!TypeOK' /\ S!StartInv'
BY SessionAssumptions, S!TypeInductive

(* The session's invariant is kept by each of its steps. *)
LEMMA SessionStep ==
    ASSUME CallerWaits, SessionInv, [S!Next]_(S!vars)
    PROVE  SessionInv'
BY SessionAssumptions, S!TypeInductive, S!DeviceInductive, S!PatientInductive,
   S!QueueInductive DEF SessionInv

----------------------------------------------------------------------------
(* What the block's phases need to know of a method's step: where it leads,
   and that only a release or a use touches the device. *)
LEMMA MethodStep ==
    ASSUME S!TypeOK, Session!Method
    PROVE  /\ at # "idle" /\ UNCHANGED <<call, dso_queue>>
           /\ at \in {"stop", "join"} => at' \in {"sr_stop", Session!AfterStop}
           /\ at = "sr_stop" => at' = "join"
           /\ at \in {"spawn", "use"} => at' \in {"idle", at}
           /\ at = "release" => at' \in {"release", "sr_destroy"}
           /\ at = "sr_destroy" => at' \in {"clear", "use"}
           /\ at = "sr_destroy" /\ call = "destroy" => at' = "clear"
           /\ at = "clear" => at' = "gone"
           /\ at # "gone"
           /\ UNCHANGED <<captures, pc>> \/ (at = "spawn" /\ captures' = captures + 1)
           /\ at \in {"stop", "sr_stop", "join", "spawn"}
                => UNCHANGED <<dev_inst, owned>> /\ sr'.dev = sr.dev
           /\ crashed' \in Session!Crashes
<1> USE DEF Session!Alive, Session!Crash, Session!Crashes, S!TypeOK, S!Sessions, S!Crashes,
        Session!deviceVars, Session!callerVars, Session!threadVars
<1>1. CASE Session!StopCheck
  BY <1>1 DEF Session!StopCheck
<1>2. CASE Session!SrStop
  BY <1>2 DEF Session!SrStop
<1>3. CASE Session!StopJoin
  BY <1>3 DEF Session!StopJoin
<1>4. CASE Session!StartCapture \/ Session!NoProbesEnabled
  BY <1>4 DEF Session!StartCapture, Session!NoProbesEnabled
<1>5. CASE Session!ReleaseNull \/ Session!ReleaseAssert \/ Session!ReleaseDevice
  BY <1>5 DEF Session!ReleaseNull, Session!ReleaseAssert, Session!ReleaseDevice
<1>6. CASE Session!DestroySession \/ Session!ClearSession
  BY <1>6 DEF Session!DestroySession, Session!ClearSession
<1>7. CASE Session!UseNone \/ Session!UseDevice \/ Session!UseThrows
  BY <1>7 DEF Session!UseNone, Session!UseDevice, Session!UseThrows
<1> QED BY <1>1, <1>2, <1>3, <1>4, <1>5, <1>6, <1>7 DEF Session!Method

(* A sampling thread's step starts none, and leaves the actor alone. *)
LEMMA ThreadStep ==
    ASSUME S!TypeOK, NEW t \in Session!Captures, Session!SamplingThread(t)
    PROVE  /\ t \in Session!Live /\ Session!Live' \subseteq Session!Live
           /\ UNCHANGED <<call, at, dev_inst, owned, captures>> /\ sr'.dev = sr.dev
           /\ crashed' \in Session!Crashes
<1> USE SameSets DEF Session!Alive, Session!Crash, Session!Crashes, Session!Step, Session!Live,
        S!TypeOK, S!Sessions, S!Crashes, S!Captures, Session!Captures,
        Session!deviceVars, Session!callerVars, Session!threadVars
<1>1. CASE Session!ThreadStart(t) \/ Session!ThreadStartThrows(t)
  BY <1>1 DEF Session!ThreadStart, Session!ThreadStartThrows
<1>2. CASE Session!SetRunning(t) \/ Session!RunReturn(t) \/ Session!SetStopped(t)
  BY <1>2 DEF Session!SetRunning, Session!RunReturn, Session!SetStopped
<1>3. CASE Session!RunPacket(t) \/ Session!Callback(t)
  BY <1>3 DEF Session!RunPacket, Session!Callback, Session!AssertSession,
              Session!AssertSessionFails, Session!DataFeedIn, Session!DataFeedInNull
<1>4. CASE Session!RunAbort(t) \/ Session!RunEnds(t) \/ Session!RunFreed(t)
  BY <1>4 DEF Session!RunAbort, Session!RunEnds, Session!RunFreed
<1> QED BY <1>1, <1>2, <1>3, <1>4 DEF Session!SamplingThread

(* A sampling thread's step of the block: as long as there is such a thread
   there is a queue, so it is one of the session's. *)
LEMMA BlockThreadStep ==
    ASSUME PhaseInv, S!TypeOK, NEW t \in Session!Captures,
           \/ ThreadStart(t) \/ SetRunning(t)
           \/ RunPacket(t) \/ Feed(t) \/ RunAbort(t) \/ RunEnds(t)
           \/ RunReturn(t) \/ SetStopped(t)
    PROVE  /\ Session!SamplingThread(t)
           /\ UNCHANGED <<life, ownVars, configVars, vdiv, sendLabel, last_out, labelled, worked>>
           /\ (Feed(t) /\ Session!DataFeedIn(t)) \/ UNCHANGED <<stamps, dso_queue>>
<1> USE DEF Session!SamplingThread, Session!Callback
<1>1. CASE Feed(t)
  <2>1. ASSUME ~queue_alive PROVE FALSE
    BY <1>1, <2>1 DEF PhaseInv, Feed, Session!Live, Lives, Built
  <2> QED BY <1>1, <2>1 DEF Feed
<1>2. CASE ThreadStart(t) \/ SetRunning(t) \/ RunPacket(t) \/ RunAbort(t) \/ RunEnds(t)
           \/ RunReturn(t) \/ SetStopped(t)
  <2>1. UNCHANGED blockVars /\ Session!SamplingThread(t)
    BY <1>2 DEF ThreadStart, SetRunning, RunPacket, RunAbort, RunEnds, RunReturn, SetStopped
  <2>2. UNCHANGED dso_queue
    BY <1>2 DEF ThreadStart, SetRunning, RunPacket, RunAbort, RunEnds, RunReturn, SetStopped,
       Session!RunPacket, Session!AssertSession, Session!AssertSessionFails,
       Session!DataFeedInNull, Session!ThreadStart, Session!ThreadStartThrows, Session!SetRunning, Session!RunAbort,
       Session!RunEnds, Session!RunFreed, Session!RunReturn, Session!SetStopped
  <2> QED BY <2>1, <2>2 DEF blockVars, ownVars, configVars, streamVars
<1> QED BY <1>1, <1>2

(* The session's invariants survive every step of the block. *)
LEMMA SessionInductive ==
    CallerWaits /\ EverySessionInv /\ PhaseInv /\ [Next]_vars => EverySessionInv'
<1> SUFFICES ASSUME CallerWaits, EverySessionInv, PhaseInv, [Next]_vars
             PROVE  EverySessionInv'
  OBVIOUS
<1>0. ASSUME [S!Next]_(S!vars), life' \in Ending \/ life \notin Ending PROVE EverySessionInv'
  BY <1>0, TypesStep, SessionStep DEF EverySessionInv
<1>u. ASSUME UNCHANGED sessionVars, life' \in Ending \/ life \notin Ending PROVE EverySessionInv'
  <2>1. UNCHANGED S!vars
    BY <1>u DEF sessionVars, threadVars, S!vars
  <2> QED BY <1>0, <1>u, <2>1
<1>1. CASE ConstructThrows
  BY <1>1, <1>u DEF ConstructThrows, Ending, Goto
<1>2. CASE Construct
  <2>1. ASSUME NEW d \in Devices, Session!CallSetDevice(d) PROVE S!Next
    BY <2>1, SameCalls
  <2> QED BY <1>2, <1>0, <1>u, <2>1 DEF Construct, Ending, Goto
<1>3. CASE CheckDevice
  BY <1>3, <1>u DEF CheckDevice, Ending
<1>4. CASE CheckNoDevice
  <2>1. life \notin Ending /\ life' = life
    BY <1>4 DEF CheckNoDevice, Ending, blockVars
  <2>2. UNCHANGED <<call, at, new_dev, dev_inst, owned, usable, capture_state, instant, error,
                    sampling_thread, captures, pc, dev, sr, dso_queue>>
        /\ crashed' = "null_device"
    BY <1>4 DEF CheckNoDevice, threadVars
  <2>3. S!TypeOK' /\ S!StartInv'
    BY <2>2 DEF EverySessionInv, S!TypeOK, S!StartInv, S!Crashes, S!Captures
  <2>4. S!DeviceInv' /\ S!PatientInv' /\ S!QueueInv'
    BY <2>1, <2>2 DEF EverySessionInv, SessionInv, S!DeviceInv, S!PatientInv, S!QueueInv,
       S!Alive, S!Live, S!Starting, S!OneSampler, S!CaptureKeepsDevice, S!QueuedByCapture,
       S!Captures
  <2> QED BY <2>1, <2>3, <2>4 DEF EverySessionInv, SessionInv
<1>5. CASE Activate
  BY <1>5, <1>0, SameCalls DEF Activate, Ending
<1>6. CASE Deactivate
  BY <1>6, <1>0, SameCalls DEF Deactivate, Ending
<1>7. CASE WorkBegin \/ SetConfig
  BY <1>7, <1>u DEF WorkBegin, SetConfig, Ending
<1>8. CASE WorkTake
  <2>1. life \notin Ending /\ life' \notin Ending
    BY <1>8 DEF WorkTake, Ending, Goto
  <2>2. UNCHANGED <<call, at, new_dev, dev_inst, owned, usable, capture_state, instant, error,
                    sampling_thread, captures, pc, dev, sr, crashed>>
        /\ dso_queue # <<>> /\ dso_queue' = Tail(dso_queue)
    BY <1>8 DEF WorkTake, threadVars
  <2>3. dso_queue \in Seq(S!Captures)
    BY DEF EverySessionInv, S!TypeOK
  <2>4. /\ dso_queue' \in Seq(S!Captures) /\ Len(dso_queue') = Len(dso_queue) - 1
        /\ \A i \in 1..Len(dso_queue') : dso_queue'[i] = dso_queue[i + 1]
    BY <2>2, <2>3, HeadTailProperties
  <2>5. S!TypeOK' /\ S!StartInv'
    BY <2>2, <2>4 DEF EverySessionInv, S!TypeOK, S!StartInv, S!Captures
  <2>6. S!DeviceInv' /\ S!PatientInv'
    BY <2>1, <2>2 DEF EverySessionInv, SessionInv, S!DeviceInv, S!PatientInv,
       S!Alive, S!Live, S!Starting, S!OneSampler, S!CaptureKeepsDevice, S!Captures
  <2>7. S!QueueInv'
    BY <2>1, <2>2, <2>3, <2>4, LenProperties
       DEF EverySessionInv, SessionInv, S!QueueInv, S!QueuedByCapture
  <2> QED BY <2>1, <2>5, <2>6, <2>7 DEF EverySessionInv, SessionInv
<1>9. CASE Destruct
  BY <1>9, <1>u DEF Destruct, Ending
<1>10. CASE ManagerRelease
  <2>1. UNCHANGED <<call, at, new_dev, usable, capture_state, instant, error,
                    sampling_thread, captures, pc, dev, sr, dso_queue>>
        /\ life = "del_manager" /\ at = "idle"
    BY <1>10 DEF ManagerRelease, threadVars, PhaseInv
  <2>2. CASE capture_state = "Running"
    <3>1. crashed' = "assert_running" /\ UNCHANGED <<dev_inst, owned, life>>
      BY <1>10, <2>2 DEF ManagerRelease
    <3>2. S!TypeOK' /\ S!StartInv'
      BY <2>1, <3>1 DEF EverySessionInv, S!TypeOK, S!StartInv, S!Crashes, S!Captures
    <3>3. S!DeviceInv' /\ S!PatientInv' /\ S!QueueInv'
      BY <2>1, <3>1 DEF EverySessionInv, SessionInv, S!DeviceInv, S!PatientInv, S!QueueInv,
         S!Alive, S!Live, S!Starting, S!OneSampler, S!CaptureKeepsDevice, S!QueuedByCapture,
         S!Captures, Ending
    <3> QED BY <2>1, <3>1, <3>2, <3>3 DEF EverySessionInv, SessionInv
  <2>3. CASE capture_state # "Running"
    <3>1. dev_inst' = NoDevice /\ owned' = {} /\ life' \in Ending /\ UNCHANGED crashed
      BY <1>10, <2>3 DEF ManagerRelease, Goto, Ending
    <3>2. S!TypeOK' /\ S!StartInv'
      BY <2>1, <3>1 DEF EverySessionInv, S!TypeOK, S!StartInv, S!Crashes, S!Captures
    <3> QED BY <3>1, <3>2 DEF EverySessionInv
  <2> QED BY <2>2, <2>3
<1>11. CASE ManagerDestroySession
  <2>1. UNCHANGED <<call, at, new_dev, dev_inst, owned, usable, capture_state, instant, error,
                    sampling_thread, captures, pc, dev, dso_queue, crashed>>
        /\ sr' = Session!NoSession /\ at = "idle" /\ life' \in Ending
    BY <1>11 DEF ManagerDestroySession, threadVars, PhaseInv, Ending, Goto
  <2>2. S!TypeOK' /\ S!StartInv'
    BY <2>1 DEF EverySessionInv, S!TypeOK, S!StartInv, S!Captures, S!Sessions,
                Session!NoSession
  <2> QED BY <2>1, <2>2 DEF EverySessionInv
<1>12. CASE DeleteSession
  BY <1>12, <1>0, SameCalls DEF DeleteSession, Ending, Goto
<1>13. CASE Method
  BY <1>13, <1>0, SameMethod DEF Method
<1>14. ASSUME NEW t \in Session!Captures,
              \/ ThreadStart(t) \/ SetRunning(t)
              \/ RunPacket(t) \/ Feed(t) \/ RunAbort(t) \/ RunEnds(t)
              \/ RunReturn(t) \/ SetStopped(t)
       PROVE  EverySessionInv'
  <2>1. Session!SamplingThread(t) /\ life' = life
    BY <1>14, BlockThreadStep DEF EverySessionInv
  <2>2. S!Next
    BY <2>1, SameThread
  <2> QED BY <1>0, <2>1, <2>2
<1>15. CASE UNCHANGED vars
  BY <1>15, <1>u DEF vars, blockVars
<1> QED BY <1>1, <1>2, <1>3, <1>4, <1>5, <1>6, <1>7, <1>8, <1>9, <1>10, <1>11, <1>12,
           <1>13, <1>14, <1>15 DEF Next

(* A session step that keeps the device keeps the block ready. *)
LEMMA StillReady ==
    ASSUME DeviceReady, life' = life \/ life \in Built, UNCHANGED <<dev_inst, owned>>,
           sr'.dev = sr.dev
    PROVE  DeviceReady'
BY DEF DeviceReady

(* Deactivation ends only when no sampling thread is left; destruction starts
   only then. *)
LEMMA PhaseInductive ==
    CallerWaits /\ EverySessionInv /\ PhaseInv /\ [Next]_vars => PhaseInv'
<1> SUFFICES ASSUME CallerWaits, EverySessionInv, PhaseInv, [Next]_vars
             PROVE  PhaseInv'
  OBVIOUS
<1>t. S!TypeOK
  BY DEF EverySessionInv
<1>l. ASSUME UNCHANGED pc PROVE Session!Live' = Session!Live
  BY <1>l DEF Session!Live, Session!Captures
<1> USE DEF Lives, Built, Goto
<1>1. CASE ConstructThrows
  BY <1>1, <1>l DEF ConstructThrows, sessionVars, threadVars, ownVars, PhaseInv, DeviceReady
<1>2. CASE Construct
  <2>1. at' \in {"idle", "use"} /\ UNCHANGED pc
    BY <1>2 DEF Construct, Session!CallSetDevice, Session!Enter, Session!threadVars,
                sessionVars, threadVars, PhaseInv
  <2>2. life = "none" /\ life' = "constructing" /\ queue_alive' = TRUE
    BY <1>2 DEF Construct
  <2> QED BY <2>1, <2>2, <1>l DEF PhaseInv, DeviceReady
<1>3. CASE CheckDevice
  <2>1. /\ life = "constructing" /\ at = "idle" /\ Session!Live = {}
        /\ crashed = "no" /\ dev_inst # NoDevice
        /\ UNCHANGED <<at, pc, dev_inst, owned, sr>>
    BY <1>3 DEF CheckDevice, Session!MayCall, Session!Alive, sessionVars, threadVars, PhaseInv
  <2>2. owned = {dev_inst} /\ sr.dev = dev_inst
    BY <2>1 DEF EverySessionInv, SessionInv, S!DeviceInv, S!Alive, Ending
  <2>3. \/ dev_inst \in DSCope /\ life' = "inactive" /\ UNCHANGED queue_alive
        \/ life' = "del_manager" /\ queue_alive' = FALSE
    BY <1>3 DEF CheckDevice, DeleteQueue
  <2>4. queue_alive' = (life' \in Built \cup {"constructing"})
    <3>1. CASE life' = "del_manager" /\ queue_alive' = FALSE
      <4>1. (life' \in Built \cup {"constructing"}) = FALSE
        BY <3>1
      <4> QED BY <3>1, <4>1, Zenon
    <3>2. CASE life' = "inactive" /\ UNCHANGED queue_alive
      <4>1. (life' \in Built \cup {"constructing"}) = TRUE
        BY <3>2
      <4>2. queue_alive' = TRUE
        BY <2>1, <3>2 DEF PhaseInv
      <4> QED BY <4>1, <4>2, Zenon
    <3> QED BY <2>3, <3>1, <3>2
  <2>5. DeviceReady'
    BY <2>1, <2>2, <2>3 DEF DeviceReady
  <2>6. Session!Live' = {}
    BY <2>1, <1>l
  <2> QED BY <2>1, <2>3, <2>4, <2>5, <2>6 DEF PhaseInv
<1>4. CASE CheckNoDevice
  BY <1>4, <1>l DEF CheckNoDevice, blockVars, threadVars, ownVars, PhaseInv, DeviceReady
<1>5. CASE Activate
  <2>1. /\ life = "inactive" /\ at = "idle" /\ life' = "active"
        /\ UNCHANGED <<pc, dev_inst, owned, sr, queue_alive>>
    BY <1>5 DEF Activate, Session!CallStart, Session!CallStartUnusable, Session!MayCall,
                Session!threadVars, Session!deviceVars, ownVars
  <2>2. at' \in {"idle", "stop"} /\ (at' # "idle" => call' = "start")
    BY <2>1, <1>5 DEF Activate, Session!CallStart, Session!CallStartUnusable, Session!MayCall,
                Session!Enter, Session!callerVars
  <2> QED BY <2>1, <2>2, <1>l DEF PhaseInv, DeviceReady
<1>6. CASE Deactivate
  <2>1. /\ life = "active" /\ life' = "inactive" /\ at' = "stop" /\ call' = "stop"
        /\ UNCHANGED <<pc, dev_inst, owned, sr, queue_alive>>
    BY <1>6 DEF Deactivate, Session!CallStop, Session!Enter,
                Session!threadVars, Session!deviceVars, ownVars
  <2> QED BY <2>1, <1>l DEF PhaseInv, DeviceReady
<1>7. CASE WorkBegin \/ SetConfig
  <2>1. /\ life \in {"inactive", "active"} /\ at = "idle"
        /\ life' \in {life, "taking"} /\ (life' = "taking" => life = "active")
        /\ UNCHANGED <<pc, at, call, dev_inst, owned, sr, queue_alive>>
    BY <1>7 DEF WorkBegin, SetConfig, sessionVars, threadVars, ownVars
  <2> QED BY <2>1, <1>l DEF PhaseInv, DeviceReady
<1>8. CASE WorkTake
  <2>1. /\ life = "taking" /\ life' = "active"
        /\ UNCHANGED <<pc, at, call, dev_inst, owned, sr, queue_alive>>
    BY <1>8 DEF WorkTake, threadVars, ownVars
  <2> QED BY <2>1, <1>l DEF PhaseInv, DeviceReady
<1>9. CASE Destruct
  <2>1. /\ life = "inactive" /\ at = "idle" /\ life' = "del_manager" /\ queue_alive' = FALSE
        /\ UNCHANGED <<pc, at, call>>
    BY <1>9 DEF Destruct, DeleteQueue, Session!MayCall, sessionVars, threadVars
  <2>2. Session!Live' = {} /\ DeviceReady'
    BY <2>1, <1>l DEF PhaseInv, DeviceReady
  <2>3. (life' \in Built \cup {"constructing"}) = FALSE
    BY <2>1
  <2>4. queue_alive' = (life' \in Built \cup {"constructing"})
    BY <2>1, <2>3, Zenon
  <2> QED BY <2>1, <2>2, <2>4 DEF PhaseInv
<1>10. CASE ManagerRelease \/ ManagerDestroySession
  <2>1. /\ life \in {"del_manager", "sr_destroy"}
        /\ life' \in {"del_manager", "sr_destroy", "del_session"}
        /\ UNCHANGED <<pc, at, call, queue_alive>>
    BY <1>10 DEF ManagerRelease, ManagerDestroySession, threadVars, ownVars
  <2> QED BY <2>1, <1>l DEF PhaseInv, DeviceReady
<1>11. CASE DeleteSession
  <2>1. /\ life = "del_session" /\ life' = "destructing" /\ at' = "stop" /\ call' = "destroy"
        /\ UNCHANGED <<pc, queue_alive>>
    BY <1>11 DEF DeleteSession, Session!CallDestroy, Session!Enter, Session!threadVars, ownVars
  <2> QED BY <2>1, <1>l DEF PhaseInv, DeviceReady
<1>12. CASE Method
  <2>m. Session!Method /\ UNCHANGED <<life, queue_alive>>
    BY <1>12 DEF Method, ownVars
  <2>1. CASE life = "constructing"
    <3>1. at = "use" /\ at' \in {"idle", "use"} /\ UNCHANGED pc
      BY <1>t, <2>m, <2>1, MethodStep DEF PhaseInv
    <3> QED BY <2>m, <2>1, <3>1, <1>l DEF PhaseInv, DeviceReady
  <2>2. CASE life = "inactive"
    <3>1. /\ call = "stop" /\ call' = "stop" /\ Session!AfterStop = "idle"
          /\ at \in {"stop", "sr_stop", "join", "spawn"} /\ at # "spawn"
      BY <1>t, <2>m, <2>2, MethodStep
         DEF PhaseInv, Session!AfterStop, EverySessionInv, S!StartInv, S!Starts
    <3>2. at' \in {"sr_stop", "join", "idle"} /\ (at' = "idle" => at \in {"stop", "join"})
      BY <1>t, <2>m, <3>1, MethodStep
    <3>3. UNCHANGED <<pc, dev_inst, owned>> /\ sr'.dev = sr.dev
      BY <1>t, <2>m, <3>1, MethodStep
    <3>4. ASSUME at' = "idle" PROVE Session!Live = {}
      <4>1. S!Next /\ S!PatientInv
        BY <2>m, <2>2, SameMethod DEF EverySessionInv, SessionInv, Ending
      <4>2. S!Live = {}
        BY SessionAssumptions, S!StopStep, <1>t, <4>1, <3>1, <3>2, <3>4 DEF S!vars
      <4> QED BY <4>2, SameSets
    <3>5. DeviceReady'
      BY <2>2, <3>3, StillReady DEF PhaseInv
    <3> QED BY <2>m, <2>2, <3>1, <3>2, <3>3, <3>4, <3>5, <1>l DEF PhaseInv
  <2>3. CASE life = "active"
    <3>1. /\ call = "start" /\ call' = "start" /\ Session!AfterStop = "spawn"
          /\ at \in {"stop", "sr_stop", "join", "spawn"}
      BY <1>t, <2>m, <2>3, MethodStep DEF PhaseInv, Session!AfterStop
    <3>2. UNCHANGED <<dev_inst, owned>> /\ sr'.dev = sr.dev
      BY <1>t, <2>m, <3>1, MethodStep
    <3>3. DeviceReady'
      BY <2>3, <3>2, StillReady DEF PhaseInv
    <3>4. at' \in {"idle", "stop", "sr_stop", "join", "spawn"}
      BY <1>t, <2>m, <3>1, MethodStep
    <3> QED BY <2>m, <2>3, <3>1, <3>3, <3>4 DEF PhaseInv
  <2>4. CASE life = "destructing"
    <3>1. at \notin {"idle", "spawn", "use"} /\ call = "destroy" /\ Session!AfterStop = "release"
      BY <2>4 DEF PhaseInv, Session!AfterStop
    <3>2. at' \notin {"idle", "spawn", "use"} /\ call' = "destroy" /\ UNCHANGED pc
      BY <1>t, <2>m, <3>1, MethodStep DEF S!TypeOK, S!CallerSteps
    <3> QED BY <2>m, <2>4, <3>2, <1>l DEF PhaseInv, DeviceReady
  <2>5. at # "idle"
    BY <1>t, <2>m, MethodStep
  <2> QED BY <2>1, <2>2, <2>3, <2>4, <2>5 DEF PhaseInv
<1>13. ASSUME NEW t \in Session!Captures,
              \/ ThreadStart(t) \/ SetRunning(t)
              \/ RunPacket(t) \/ Feed(t) \/ RunAbort(t) \/ RunEnds(t)
              \/ RunReturn(t) \/ SetStopped(t)
       PROVE  PhaseInv'
  <2>1. Session!SamplingThread(t) /\ UNCHANGED <<life, queue_alive>>
    BY <1>t, <1>13, BlockThreadStep DEF ownVars
  <2>2. /\ t \in Session!Live /\ Session!Live' \subseteq Session!Live
        /\ UNCHANGED <<call, at, dev_inst, owned, captures>> /\ sr'.dev = sr.dev
    BY <1>t, <2>1, ThreadStep
  <2>3. DeviceReady'
    BY <2>1, <2>2, StillReady DEF PhaseInv
  <2> QED BY <2>1, <2>2, <2>3 DEF PhaseInv
<1>14. CASE UNCHANGED vars
  BY <1>14, <1>l DEF vars, sessionVars, threadVars, blockVars, ownVars, PhaseInv, DeviceReady
<1> QED BY <1>1, <1>2, <1>3, <1>4, <1>5, <1>6, <1>7, <1>8, <1>9, <1>10, <1>11, <1>12,
           <1>13, <1>14 DEF Next

----------------------------------------------------------------------------
(* What has been sent downstream, what waits in the queue, and the settings
   they were captured with. One probe at most is enabled once the block is
   built; the reading that work() holds is the newest there is. *)
StreamInv ==
    /\ devices \in Scans \cup {<<>>}
    /\ sendLabel \in BOOLEAN /\ labelled \in BOOLEAN /\ worked \in BOOLEAN
    /\ config \in [setting : 1..MaxSettings, limit : {"device", "block"}, probes : SUBSET {0, 1}]
    /\ life \in Built => config.probes \subseteq {0}
    /\ OneChannel
    /\ cached \in {"none", "device", "block"} /\ LimitIsCached
    /\ stamps \in Seq(Nat) /\ Len(stamps) = Len(dso_queue)
    /\ \A i \in 1..Len(stamps) : stamps[i] <= config.setting
    /\ vdiv \in 0..MaxSettings
    /\ life = "taking" => vdiv \in {0, config.setting}
    /\ last_out \in 0..captures
    /\ OutputByCapture

(* A packet that arrives comes from the last capture, and carries the setting
   the device has. *)
LEMMA FeedStream ==
    ASSUME SessionInv, StreamInv, NEW t \in Session!Captures, t \in Session!Live,
           Session!DataFeedIn(t), Feed(t), UNCHANGED <<life, devices, config, cached, vdiv, last_out>>
    PROVE  /\ stamps' \in Seq(Nat) /\ Len(stamps') = Len(dso_queue')
           /\ \A i \in 1..Len(stamps') : stamps'[i] <= config.setting
           /\ OutputByCapture'
<1>t. /\ dso_queue \in Seq(S!Captures) /\ captures \in 0..MaxCaptures
      /\ t = captures /\ t \in S!Captures
  BY SameSets DEF SessionInv, S!TypeOK, S!PatientInv
<1>q. \A i \in 1..Len(dso_queue) : dso_queue[i] <= captures /\ dso_queue[i] \in S!Captures
  BY <1>t DEF SessionInv, S!QueueInv
<1>s. config.setting \in Nat /\ last_out \in 0..captures
  BY DEF StreamInv
<1>2. dso_queue' = Append(dso_queue, t)
  BY DEF Session!DataFeedIn
<1>3. dso_queue' # dso_queue
  BY <1>t, <1>2, AppendProperties
<1>4. stamps' = Append(stamps, config.setting)
  BY <1>3 DEF Feed
<1>5. /\ Len(dso_queue') = Len(dso_queue) + 1 /\ Len(dso_queue) \in Nat
      /\ dso_queue'[Len(dso_queue) + 1] = t
      /\ \A i \in 1..Len(dso_queue) : dso_queue'[i] = dso_queue[i]
  BY <1>t, <1>2, AppendProperties, LenProperties
<1>6. /\ stamps' \in Seq(Nat) /\ Len(stamps') = Len(stamps) + 1
      /\ stamps'[Len(stamps) + 1] = config.setting
      /\ \A i \in 1..Len(stamps) : stamps'[i] = stamps[i]
  BY <1>s, <1>4, AppendProperties DEF StreamInv
<1>7. \A i \in 1..Len(stamps') : stamps'[i] <= config.setting
  <2> SUFFICES ASSUME NEW i \in 1..Len(stamps') PROVE stamps'[i] <= config.setting
    OBVIOUS
  <2>1. Len(stamps) = Len(dso_queue) /\ \A k \in 1..Len(stamps) : stamps[k] <= config.setting
    BY DEF StreamInv
  <2>2. CASE i \in 1..Len(stamps)
    BY <1>6, <2>1, <2>2
  <2>3. CASE i = Len(stamps) + 1
    BY <1>s, <1>6, <2>3
  <2> QED BY <1>5, <1>6, <2>1, <2>2, <2>3
<1>8. OutputByCapture'
  <2> SUFFICES ASSUME NEW i \in 1..Len(dso_queue')
               PROVE  /\ last_out <= dso_queue'[i]
                      /\ \A j \in 1..i : dso_queue'[j] <= dso_queue'[i]
    BY DEF OutputByCapture
  <2>1. CASE i \in 1..Len(dso_queue)
    BY <1>5, <2>1 DEF StreamInv, OutputByCapture
  <2>2. CASE i = Len(dso_queue) + 1
    <3>1. dso_queue'[i] = captures /\ captures \in Nat /\ last_out <= captures
      BY <1>t, <1>s, <1>5, <2>2
    <3>2. \A j \in 1..i : dso_queue'[j] <= captures
      BY <1>q, <1>5, <2>2, <3>1
    <3> QED BY <3>1, <3>2
  <2> QED BY <1>5, <2>1, <2>2
<1> QED BY <1>5, <1>6, <1>7, <1>8 DEF StreamInv

(* Whatever the block, the device and the threads do, queue, settings and what
   was produced stay tied together. *)
LEMMA StreamInductive ==
    CallerWaits /\ EverySessionInv /\ PhaseInv /\ StreamInv /\ [Next]_vars => StreamInv'
<1> SUFFICES ASSUME CallerWaits, EverySessionInv, PhaseInv, StreamInv, [Next]_vars
             PROVE  StreamInv'
  OBVIOUS
<1>t. S!TypeOK /\ captures \in Nat
  BY SessionAssumption DEF EverySessionInv, S!TypeOK
<1>l. ASSUME UNCHANGED pc PROVE Session!Live' = Session!Live
  BY <1>l DEF Session!Live, Session!Captures
<1> USE DEF Lives, Built, Goto
(* Nothing that the invariant mentions changes but the phase. *)
<1>k. ASSUME UNCHANGED <<devices, sendLabel, config, cached, stamps, vdiv, last_out, pc,
                         captures, dso_queue>>,
             labelled' \in BOOLEAN, worked' \in BOOLEAN,
             life' \in Built => life \in Built,
             life' = "taking" => life = "taking"
      PROVE  StreamInv'
  BY <1>k, <1>l DEF StreamInv, OneChannel, LimitIsCached, OutputByCapture, get_sample_limit
<1>1. CASE ConstructThrows
  BY <1>1, <1>k DEF ConstructThrows, sessionVars, threadVars, ownVars, configVars, streamVars, StreamInv
<1>2. CASE Construct
  <2>1. UNCHANGED <<pc, captures, dso_queue>>
    BY <1>2 DEF Construct, Session!CallSetDevice, Session!threadVars, sessionVars, threadVars
  <2> QED BY <1>2, <2>1, <1>k DEF Construct, configVars, streamVars, StreamInv
<1>3. CASE CheckDevice
  <2>1. /\ Session!Live = {} /\ Session!Live' = {} /\ life = "constructing"
        /\ UNCHANGED <<devices, cached, sendLabel, labelled, worked, stamps, vdiv, last_out, pc,
                       captures, dso_queue>>
    BY <1>3, <1>l DEF CheckDevice, PhaseInv, sessionVars, threadVars, streamVars
  <2>2. CASE dev_inst \in DSCope
    <3>1. life' = "inactive" /\ config' \in set_limit_samples(set_ch_enable(config, 1, FALSE), "block")
      BY <1>3, <2>2 DEF CheckDevice, ConfigureDevice
    <3>2. /\ config' \in [setting : 1..MaxSettings, limit : {"device", "block"}, probes : SUBSET {0, 1}]
          /\ config'.probes \subseteq {0} /\ config'.setting = config.setting
      <4>1. config \in [setting : 1..MaxSettings, limit : {"device", "block"}, probes : SUBSET {0, 1}]
        BY DEF StreamInv
      <4>2. PICK c : /\ c = [config EXCEPT !.probes = @ \ {1}]
                     /\ config' \in {c, [c EXCEPT !.limit = "block"]}
        BY <3>1 DEF set_limit_samples, set_ch_enable
      <4>3. /\ c \in [setting : 1..MaxSettings, limit : {"device", "block"}, probes : SUBSET {0, 1}]
            /\ c.probes \subseteq {0} /\ c.setting = config.setting
        BY <4>1, <4>2
      <4> QED BY <4>2, <4>3
    <3> QED BY <2>1, <3>1, <3>2 DEF StreamInv, OneChannel, LimitIsCached, OutputByCapture
  <2>3. CASE dev_inst \notin DSCope
    BY <1>3, <2>1, <2>3, <1>k DEF CheckDevice, DeleteQueue, StreamInv
  <2> QED BY <2>2, <2>3
<1>4. CASE CheckNoDevice
  BY <1>4, <1>k DEF CheckNoDevice, blockVars, threadVars, ownVars, configVars, streamVars, StreamInv
<1>5. CASE Activate
  <2>1. UNCHANGED <<pc, captures, dso_queue>>
    BY <1>5 DEF Activate, Session!CallStart, Session!CallStartUnusable, Session!threadVars
  <2> QED BY <1>5, <2>1, <1>k DEF Activate, ownVars, configVars
<1>6. CASE Deactivate
  <2>1. UNCHANGED <<pc, captures, dso_queue>>
    BY <1>6 DEF Deactivate, Session!CallStop, Session!threadVars
  <2> QED BY <1>6, <2>1, <1>k DEF Deactivate, ownVars, configVars, streamVars, StreamInv
<1>7. CASE WorkBegin
  <2>1. vdiv' \in {config.setting, 0} /\ life' = "taking" /\ life = "active"
    BY <1>7 DEF WorkBegin, get_voltage_div
  <2>2. vdiv' \in 0..MaxSettings
    BY <2>1, SettingAssumption DEF StreamInv
  <2>3. UNCHANGED <<devices, sendLabel, labelled, worked, config, cached, stamps, last_out, pc,
                    captures, dso_queue>>
    BY <1>7 DEF WorkBegin, sessionVars, threadVars, ownVars, configVars
  <2> QED BY <2>1, <2>2, <2>3, <1>l
          DEF StreamInv, OneChannel, LimitIsCached, OutputByCapture, get_sample_limit
<1>8. CASE WorkTake
  <2>1. /\ life = "taking" /\ life' = "active" /\ dso_queue # <<>>
        /\ dso_queue' = Tail(dso_queue) /\ stamps' = Tail(stamps)
        /\ last_out' = Head(dso_queue) /\ vdiv' = 0
        /\ sendLabel' \in BOOLEAN /\ labelled' \in BOOLEAN /\ worked' \in BOOLEAN
        /\ UNCHANGED <<devices, config, cached, pc, captures>>
    BY <1>8 DEF WorkTake, threadVars, ownVars, configVars, StreamInv
  <2>2. dso_queue \in Seq(S!Captures) /\ stamps \in Seq(Nat) /\ Len(stamps) = Len(dso_queue)
    BY <1>t DEF S!TypeOK, StreamInv
  <2>3. /\ Len(dso_queue') = Len(dso_queue) - 1 /\ Len(dso_queue) \in Nat \ {0}
        /\ Head(dso_queue) = dso_queue[1]
        /\ \A i \in 1..Len(dso_queue') : dso_queue'[i] = dso_queue[i + 1]
    <3>1. Len(dso_queue) \in Nat \ {0}
      BY <2>1, <2>2, EmptySeq, LenProperties
    <3>2. /\ Len(dso_queue') = Len(dso_queue) - 1
          /\ \A i \in 1..Len(dso_queue') : dso_queue'[i] = dso_queue[i + 1]
      BY <2>1, <2>2, HeadTailProperties
    <3>3. Head(dso_queue) = dso_queue[1]
      BY DEF Head
    <3> QED BY <3>1, <3>2, <3>3
  <2>4. /\ stamps' \in Seq(Nat) /\ Len(stamps') = Len(stamps) - 1
        /\ \A i \in 1..Len(stamps') : stamps'[i] = stamps[i + 1]
    BY <2>1, <2>2, <2>3, HeadTailProperties, EmptySeq
  <2>5. \A i \in 1..Len(dso_queue) : dso_queue[i] \in S!Captures /\ dso_queue[i] <= captures
    BY <2>1, <2>2 DEF EverySessionInv, SessionInv, S!QueueInv, Ending
  <2>6. \A i, j \in 1..Len(dso_queue) : i <= j => dso_queue[i] <= dso_queue[j]
    BY <2>1, <2>5 DEF EverySessionInv, SessionInv, S!QueueInv, S!QueuedByCapture, Ending,
                      S!Captures
  <2>7. last_out' \in 0..captures
    BY <2>1, <2>3, <2>5, <1>t DEF S!Captures
  <2>8. OutputByCapture'
    BY <2>1, <2>3, <2>6 DEF OutputByCapture
  <2>9. vdiv' \in 0..MaxSettings
    BY <2>1, SettingAssumption
  <2>10. \A i \in 1..Len(stamps') : stamps'[i] <= config.setting
    BY <2>1, <2>2, <2>3, <2>4 DEF StreamInv
  <2>11. Len(stamps') = Len(dso_queue')
    BY <2>2, <2>3, <2>4
  <2>12. OneChannel' /\ LimitIsCached'
    BY <2>1, <1>l DEF StreamInv, OneChannel, LimitIsCached
  <2> QED BY <2>1, <2>4, <2>7, <2>8, <2>9, <2>10, <2>11, <2>12 DEF StreamInv
<1>9. CASE SetConfig
  <2>1. /\ life \in {"inactive", "active"} /\ config.setting < MaxSettings
        /\ config' = [config EXCEPT !.setting = @ + 1]
        /\ UNCHANGED <<life, devices, sendLabel, labelled, worked, cached, stamps, vdiv, last_out,
                       pc, captures, dso_queue>>
    BY <1>9 DEF SetConfig, sessionVars, threadVars, ownVars, streamVars
  <2>2. /\ config' \in [setting : 1..MaxSettings, limit : {"device", "block"}, probes : SUBSET {0, 1}]
        /\ config'.setting = config.setting + 1 /\ config.setting \in Nat
        /\ config'.limit = config.limit /\ config'.probes = config.probes
    BY <2>1, SettingAssumption DEF StreamInv
  <2>3. \A i \in 1..Len(stamps') : stamps'[i] <= config'.setting
    <3>1. stamps \in Seq(Nat)
      BY DEF StreamInv
    <3> QED BY <2>1, <2>2, <3>1 DEF StreamInv
  <2> QED BY <2>1, <2>2, <2>3, <1>l DEF StreamInv, OneChannel, LimitIsCached, OutputByCapture
<1>10. CASE Destruct
  BY <1>10, <1>k DEF Destruct, DeleteQueue, sessionVars, threadVars, configVars, streamVars, StreamInv
<1>11. CASE ManagerRelease
  <2>1. life' \notin Built
    BY <1>11 DEF ManagerRelease
  <2> QED BY <1>11, <2>1, <1>k DEF ManagerRelease, threadVars, ownVars, configVars, streamVars, StreamInv
<1>12. CASE ManagerDestroySession
  <2>1. /\ devices' = <<>> /\ life' = "del_session"
        /\ UNCHANGED <<sendLabel, config, cached, stamps, vdiv, last_out, pc, labelled, worked,
                       captures, dso_queue>>
    BY <1>12 DEF ManagerDestroySession, threadVars, configVars, streamVars
  <2> QED BY <2>1, <1>l DEF StreamInv, OneChannel, LimitIsCached, OutputByCapture
<1>13. CASE DeleteSession
  <2>1. UNCHANGED <<pc, captures, dso_queue>>
    BY <1>13 DEF DeleteSession, Session!CallDestroy, Session!threadVars
  <2> QED BY <1>13, <2>1, <1>k DEF DeleteSession, ownVars, configVars, streamVars, StreamInv
<1>14. CASE Method
  <2>1. /\ Session!Method /\ ProbeEnabled /\ CacheLimit
        /\ UNCHANGED <<life, devices, config, stamps, vdiv, sendLabel, last_out, labelled, worked>>
    BY <1>14 DEF Method, ownVars, streamVars
  <2>2. UNCHANGED dso_queue /\ at # "idle"
    BY <1>t, <2>1, MethodStep
  <2>3. cached' \in {"none", "device", "block"}
    BY <2>1 DEF CacheLimit, get_sample_limit, StreamInv
  <2>4. CASE at = "spawn" /\ captures' = captures + 1
    <3>1. life \in Built /\ config.probes = {0}
      <4>1. life \in Built
        BY <2>4 DEF PhaseInv
      <4> QED BY <1>t, <2>1, <2>4, <4>1 DEF ProbeEnabled, StreamInv
    <3>2. cached' \in {config.limit, "none"}
      BY <2>1, <2>4 DEF CacheLimit, get_sample_limit
    <3>3. last_out' \in 0..captures'
      BY <1>t, <2>1, <2>4 DEF StreamInv
    <3> QED BY <2>1, <2>2, <2>3, <3>1, <3>2, <3>3
            DEF StreamInv, OneChannel, LimitIsCached, OutputByCapture
  <2>5. CASE UNCHANGED <<captures, pc>>
    <3>1. LimitIsCached'
      <4>1. CASE at = "use"
        <5>1. Session!Live = {}
          BY <2>2, <4>1 DEF PhaseInv
        <5> QED BY <2>5, <5>1, <1>l DEF LimitIsCached
      <4>2. CASE at # "use"
        BY <2>1, <2>5, <4>2, <1>l DEF CacheLimit, get_sample_limit, LimitIsCached, StreamInv
      <4> QED BY <4>1, <4>2
    <3> QED BY <2>1, <2>2, <2>3, <2>5, <3>1, <1>l DEF StreamInv, OneChannel, OutputByCapture
  <2> QED BY <1>t, <2>1, <2>4, <2>5, MethodStep
<1>15. ASSUME NEW t \in Session!Captures,
              \/ ThreadStart(t) \/ SetRunning(t)
              \/ RunPacket(t) \/ Feed(t) \/ RunAbort(t) \/ RunEnds(t)
              \/ RunReturn(t) \/ SetStopped(t)
       PROVE  StreamInv'
  <2>1. /\ Session!SamplingThread(t)
        /\ UNCHANGED <<life, devices, config, cached, vdiv, sendLabel, last_out, labelled, worked>>
        /\ (Feed(t) /\ Session!DataFeedIn(t)) \/ UNCHANGED <<stamps, dso_queue>>
    BY <1>t, <1>15, BlockThreadStep DEF ownVars, configVars
  <2>2. t \in Session!Live /\ Session!Live' \subseteq Session!Live /\ UNCHANGED captures
    BY <1>t, <2>1, ThreadStep
  <2>3. /\ stamps' \in Seq(Nat) /\ Len(stamps') = Len(dso_queue')
        /\ \A i \in 1..Len(stamps') : stamps'[i] <= config.setting
        /\ OutputByCapture'
    <3>1. CASE UNCHANGED <<stamps, dso_queue>>
      BY <2>1, <3>1 DEF StreamInv, OutputByCapture
    <3>2. CASE Feed(t) /\ Session!DataFeedIn(t)
      <4>1. SessionInv
        BY <2>2 DEF PhaseInv, EverySessionInv, Ending
      <4> QED BY <2>1, <2>2, <3>2, <4>1, FeedStream
    <3> QED BY <2>1, <3>1, <3>2
  <2> QED BY <2>1, <2>2, <2>3 DEF StreamInv, OneChannel, LimitIsCached, get_sample_limit
<1>16. CASE UNCHANGED vars
  BY <1>16, <1>k DEF vars, sessionVars, threadVars, blockVars, ownVars, configVars, streamVars, StreamInv
<1> QED BY <1>1, <1>2, <1>3, <1>4, <1>5, <1>6, <1>7, <1>8, <1>9, <1>10, <1>11, <1>12,
           <1>13, <1>14, <1>15, <1>16 DEF Next

BlockInv == EverySessionInv /\ PhaseInv /\ StreamInv

(* The block's invariant holds at every time of its life. *)
LEMMA BlockInvHolds == CallerWaits => (SafeSpec => []BlockInv)
<1> SUFFICES ASSUME CallerWaits PROVE SafeSpec => []BlockInv
  OBVIOUS
<1>1. Init => BlockInv
  <2> SUFFICES ASSUME Init PROVE BlockInv
    OBVIOUS
  <2>1. /\ S!TypeOK /\ S!StartInv /\ S!DeviceInv /\ S!PatientInv /\ S!QueueInv
        /\ at = "idle" /\ dev_inst = NoDevice /\ dso_queue = <<>> /\ captures = 0
        /\ Session!Live = {}
    <3>1. S!Init
      BY SameInit DEF Init
    <3>2. S!AnyInv
      BY <3>1, SessionAssumptions, S!InitAny
    <3>3. S!PatientInv /\ S!QueueInv /\ S!Live = {}
      BY <3>1, SessionAssumptions, S!InitPatient
    <3> QED BY <3>1, <3>2, <3>3, SameSets DEF S!Init, S!AnyInv
  <2>2. EverySessionInv
    BY <2>1 DEF EverySessionInv, SessionInv
  <2>3. life = "none" /\ queue_alive = FALSE
    BY DEF Init
  <2>4. (life \in Built \cup {"constructing"}) = FALSE
    BY <2>3 DEF Built
  <2>5. queue_alive = (life \in Built \cup {"constructing"})
    BY <2>3, <2>4, Zenon
  <2>6. PhaseInv
    BY <2>1, <2>3, <2>5 DEF PhaseInv, Lives, DeviceReady, Built
  <2>7. StreamInv
    <3>1. config \in [setting : 1..MaxSettings, limit : {"device", "block"}, probes : SUBSET {0, 1}]
      BY SettingAssumption DEF Init
    <3>2. stamps \in Seq(Nat) /\ Len(stamps) = 0 /\ Len(dso_queue) = 0
      BY <2>1, EmptySeq DEF Init
    <3>3. vdiv = 0 /\ 0 \in 0..MaxSettings /\ last_out = 0 /\ 0 \in 0..captures
      BY <2>1, SettingAssumption DEF Init
    <3>4. /\ devices \in Scans \cup {<<>>} /\ cached \in {"none", "device", "block"}
          /\ sendLabel \in BOOLEAN /\ labelled \in BOOLEAN /\ worked \in BOOLEAN
      BY DEF Init
    <3>5. (\A i \in 1..Len(stamps) : stamps[i] <= config.setting) /\ OutputByCapture
      BY <3>2 DEF OutputByCapture
    <3> QED BY <2>1, <2>3, <3>1, <3>2, <3>3, <3>4, <3>5
       DEF StreamInv, OneChannel, LimitIsCached, Built
  <2> QED BY <2>2, <2>6, <2>7 DEF BlockInv
<1>2. BlockInv /\ [Next]_vars => BlockInv'
  BY SessionInductive, PhaseInductive, StreamInductive DEF BlockInv
<1> QED BY <1>1, <1>2, PTL DEF SafeSpec

(* The block's variables keep their types, the queue exists exactly while the
   block may use it, and every packet in it carries a setting. *)
THEOREM BlockTypeOK == CallerWaits => (SafeSpec => []TypeOK)
<1> SUFFICES ASSUME CallerWaits PROVE SafeSpec => []TypeOK
  OBVIOUS
<1>1. BlockInv => TypeOK
  BY SameSets DEF BlockInv, EverySessionInv, S!TypeOK, PhaseInv, StreamInv, TypeOK
<1> QED BY <1>1, BlockInvHolds, PTL

(* work() and the setters always find the DSCope the block was built with. *)
THEOREM BlockKeepsDevice == CallerWaits => (SafeSpec => []DeviceReady)
<1> SUFFICES ASSUME CallerWaits PROVE SafeSpec => []DeviceReady
  OBVIOUS
<1>1. BlockInv => DeviceReady
  BY DEF BlockInv, PhaseInv
<1> QED BY <1>1, BlockInvHolds, PTL

(* Captures reach downstream one after the other. *)
THEOREM BlockOutputOrder == CallerWaits => (SafeSpec => []OutputByCapture)
<1> SUFFICES ASSUME CallerWaits PROVE SafeSpec => []OutputByCapture
  OBVIOUS
<1>1. BlockInv => OutputByCapture
  BY DEF BlockInv, StreamInv
<1> QED BY <1>1, BlockInvHolds, PTL

(* A sampling thread runs with one channel, which is how work() reads its
   packets. *)
THEOREM BlockOneChannel == CallerWaits => (SafeSpec => []OneChannel)
<1> SUFFICES ASSUME CallerWaits PROVE SafeSpec => []OneChannel
  OBVIOUS
<1>1. BlockInv => OneChannel
  BY DEF BlockInv, StreamInv
<1> QED BY <1>1, BlockInvHolds, PTL

(* Progress is computed from the running capture's limit. *)
THEOREM BlockLimitIsCached == CallerWaits => (SafeSpec => []LimitIsCached)
<1> SUFFICES ASSUME CallerWaits PROVE SafeSpec => []LimitIsCached
  OBVIOUS
<1>1. BlockInv => LimitIsCached
  BY DEF BlockInv, StreamInv
<1> QED BY <1>1, BlockInvHolds, PTL

(* No packet is scaled with a setting older than its own. *)
THEOREM BlockScaleNotOlder == CallerWaits => (SafeSpec => ScaleNotOlder)
<1> SUFFICES ASSUME CallerWaits PROVE SafeSpec => ScaleNotOlder
  OBVIOUS
<1>1. BlockInv /\ [Next]_vars =>
        [life = "taking" /\ life' = "active" => vdiv = 0 \/ vdiv >= Head(stamps)]_vars
  <2> SUFFICES ASSUME BlockInv, Next, life = "taking", life' = "active"
               PROVE  vdiv = 0 \/ vdiv >= Head(stamps)
    OBVIOUS
  <2>1. WorkTake
    <3>1. ~Method /\ \A t \in Session!Captures :
             ~(\/ ThreadStart(t) \/ SetRunning(t)
               \/ RunPacket(t) \/ Feed(t) \/ RunAbort(t) \/ RunEnds(t)
               \/ RunReturn(t) \/ SetStopped(t))
      BY BlockThreadStep DEF Method, BlockInv, EverySessionInv
    <3> QED BY <3>1 DEF Next, ConstructThrows, Construct, CheckDevice, CheckNoDevice, Activate,
             Deactivate, WorkBegin, SetConfig, Destruct, ManagerRelease,
             ManagerDestroySession, DeleteSession
  <2>2. /\ stamps \in Seq(Nat) /\ Len(stamps) \in Nat \ {0}
        /\ vdiv \in {0, config.setting} /\ Head(stamps) = stamps[1]
        /\ config.setting \in Nat
        /\ \A i \in 1..Len(stamps) : stamps[i] <= config.setting
    <3>1. dso_queue # <<>> /\ dso_queue \in Seq(S!Captures)
      BY <2>1 DEF WorkTake, BlockInv, EverySessionInv, S!TypeOK
    <3>2. Len(dso_queue) \in Nat \ {0}
      BY <3>1, EmptySeq
    <3>3. Head(stamps) = stamps[1]
      BY DEF Head
    <3> QED BY <3>2, <3>3 DEF BlockInv, StreamInv
  <2>3. stamps[1] <= config.setting /\ stamps[1] \in Nat
    BY <2>2
  <2> QED BY <2>2, <2>3
<1> QED BY <1>1, BlockInvHolds, PTL DEF SafeSpec, ScaleNotOlder

----------------------------------------------------------------------------
(* The two instances map to one CaptureService. *)
LEMMA SameService ==
    /\ Session!Service!Init <=> S!Service!Init
    /\ [S!Service!Next]_(S!Service!vars) => [Session!Service!Next]_(Session!Service!vars)
<1>1. Session!Active = S!Active /\ Session!Active' = S!Active'
  BY DEF Session!Active, S!Active, Session!Live, S!Live, Session!Captures, S!Captures
<1>2. Session!Live = S!Live /\ Session!Live' = S!Live'
  BY DEF Session!Live, S!Live, Session!Captures, S!Captures
<1>3. Session!Service!Init <=> S!Service!Init
  BY <1>1, <1>2 DEF Session!Service!Init, S!Service!Init
<1>4. UNCHANGED S!Service!vars => UNCHANGED Session!Service!vars
  BY <1>1, <1>2 DEF Session!Service!vars, S!Service!vars
<1>5. ASSUME NEW d \in Devices PROVE S!Service!Begin(d) => Session!Service!Begin(d)
  BY <1>1, <1>2 DEF Session!Service!Begin, S!Service!Begin
<1>6. S!Service!Deliver => Session!Service!Deliver
  BY <1>1, <1>2 DEF Session!Service!Deliver, S!Service!Deliver
<1>7. S!Service!Stop => Session!Service!Stop
  BY <1>1, <1>2 DEF Session!Service!Stop, S!Service!Stop
<1>8. S!Service!End => Session!Service!End
  BY <1>1, <1>2 DEF Session!Service!End, S!Service!End
<1>9. S!Service!Take => Session!Service!Take
  BY <1>1, <1>2 DEF Session!Service!Take, S!Service!Take
<1> QED BY <1>3, <1>4, <1>5, <1>6, <1>7, <1>8, <1>9 DEF Session!Service!Next, S!Service!Next

(* work() takes the oldest packet; every other step is the session's, or is
   not seen because it touches neither threads nor queue. *)
LEMMA StreamStep ==
    CallerWaits /\ BlockInv /\ [Next]_vars => [Session!Service!Next]_(Session!Service!vars)
<1> SUFFICES ASSUME CallerWaits, BlockInv, [Next]_vars
             PROVE  [S!Service!Next]_(S!Service!vars)
  BY SameService
<1>t. S!TypeOK /\ PhaseInv /\ EverySessionInv
  BY DEF BlockInv, EverySessionInv
<1>s. ASSUME S!Next \/ UNCHANGED S!vars, life \notin Ending
      PROVE  [S!Service!Next]_(S!Service!vars)
  BY <1>s, <1>t, SessionAssumptions, S!ServiceStep DEF EverySessionInv, SessionInv
<1>u. ASSUME UNCHANGED <<pc, captures, dso_queue>>, Session!Live = {} \/ UNCHANGED <<sr, at>>
      PROVE  [S!Service!Next]_(S!Service!vars)
  <2>1. S!Live' = S!Live
    BY <1>u DEF S!Live, S!Captures
  <2>2. \/ S!Live = {}
        \/ /\ sr'.dev = sr.dev
           /\ (at \in {"sr_stop", "join"}) = (at' \in {"sr_stop", "join"})
    BY <1>u, SameSets
  <2>3. captures' = captures /\ dso_queue' = dso_queue
    BY <1>u
  <2>4. UNCHANGED S!Service!vars
    BY <2>1, <2>2, <2>3, SessionAssumptions, S!UnseenStep
       DEF S!DeviceAssumption, S!SessionBoundAssumption, S!CallerAssumption
  <2> QED BY <2>4
<1>1. CASE ConstructThrows \/ WorkBegin \/ SetConfig \/ Destruct \/ CheckDevice
  BY <1>1, <1>u DEF ConstructThrows, WorkBegin, SetConfig, Destruct, CheckDevice,
                    sessionVars, threadVars
<1>2. CASE CheckNoDevice
  BY <1>2, <1>u DEF CheckNoDevice, threadVars
<1>3. CASE ManagerRelease \/ ManagerDestroySession
  <2>1. Session!Live = {}
    BY <1>3, <1>t DEF ManagerRelease, ManagerDestroySession, PhaseInv
  <2> QED BY <1>3, <1>u, <2>1 DEF ManagerRelease, ManagerDestroySession, threadVars
<1>4. CASE Construct
  <2>1. life \notin Ending /\ (UNCHANGED sessionVars \/ \E d \in Devices : Session!CallSetDevice(d))
    BY <1>4 DEF Construct, Ending
  <2>2. CASE UNCHANGED sessionVars
    BY <2>2, <1>u DEF sessionVars, threadVars
  <2>3. CASE \E d \in Devices : Session!CallSetDevice(d)
    BY <2>1, <2>3, <1>s, SameCalls
  <2> QED BY <2>1, <2>2, <2>3
<1>5. CASE Activate
  BY <1>5, <1>s, SameCalls DEF Activate, Ending
<1>6. CASE Deactivate
  BY <1>6, <1>s, SameCalls DEF Deactivate, Ending
<1>7. CASE WorkTake
  <2>1. /\ dso_queue # <<>> /\ dso_queue' = Tail(dso_queue)
        /\ UNCHANGED <<captures, pc, sr, at>>
    BY <1>7 DEF WorkTake, threadVars
  <2>2. S!Live' = S!Live /\ S!Active' = S!Active
    BY <2>1 DEF S!Active, S!Live, S!Captures
  <2>3. S!Service!Take
    BY <2>1, <2>2 DEF S!Service!Take
  <2> QED BY <2>3 DEF S!Service!Next
<1>8. CASE DeleteSession
  <2>1. Session!Live = {} /\ UNCHANGED <<pc, captures, dso_queue>>
    BY <1>8, <1>t DEF DeleteSession, Session!CallDestroy, Session!threadVars, PhaseInv
  <2> QED BY <2>1, <1>u
<1>9. CASE Method
  <2>1. Session!Method /\ life' = life
    BY <1>9 DEF Method
  <2>2. CASE life \in Ending
    <3>1. Session!Live = {} /\ at # "spawn"
      BY <2>2, <1>t DEF PhaseInv, Ending
    <3>2. UNCHANGED <<pc, captures, dso_queue>>
      BY <2>1, <3>1, <1>t, MethodStep
    <3> QED BY <3>1, <3>2, <1>u
  <2>3. CASE life \notin Ending
    BY <2>1, <2>3, <1>s, SameMethod
  <2> QED BY <2>2, <2>3
<1>10. ASSUME NEW t \in Session!Captures,
              \/ ThreadStart(t) \/ SetRunning(t)
              \/ RunPacket(t) \/ Feed(t) \/ RunAbort(t) \/ RunEnds(t)
              \/ RunReturn(t) \/ SetStopped(t)
       PROVE  [S!Service!Next]_(S!Service!vars)
  <2>1. Session!SamplingThread(t)
    BY <1>10, <1>t, BlockThreadStep
  <2>2. life \notin Ending
    BY <2>1, <1>t, ThreadStep DEF PhaseInv, Ending
  <2> QED BY <2>1, <2>2, <1>s, SameThread
<1>11. CASE UNCHANGED vars
  BY <1>11, <1>u DEF vars, sessionVars, threadVars
<1> QED BY <1>1, <1>2, <1>3, <1>4, <1>5, <1>6, <1>7, <1>8, <1>9, <1>10, <1>11 DEF Next

(* Through the block's whole life, its destruction included, threads, session
   and queue amount to CaptureService, with work() as the taker. *)
THEOREM BlockImplementsService == CallerWaits => (SafeSpec => Session!Service!SafeSpec)
<1> SUFFICES ASSUME CallerWaits PROVE SafeSpec => Session!Service!SafeSpec
  OBVIOUS
<1>1. Init => Session!Service!Init
  <2> SUFFICES ASSUME Init PROVE S!Service!Init
    BY SameService
  <2>1. S!Init /\ S!Live = {}
    BY SameInit, SessionAssumptions, S!InitPatient DEF Init
  <2> QED BY <2>1 DEF S!Init, S!Service!Init, S!Active
<1>2. BlockInv /\ [Next]_vars => [Session!Service!Next]_(Session!Service!vars)
  BY StreamStep
<1> QED BY <1>1, <1>2, BlockInvHolds, PTL DEF SafeSpec, Session!Service!SafeSpec
=============================================================================
